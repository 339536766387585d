---------------------- MODULE ExecutorApprovals_proofs ----------------------
(***************************************************************************)
(* Theorems about ExecutorApprovals, for every set of tool calls, requests *)
(* and options, any number of runs, and every event: its types, that no    *)
(* request sleeps through the end of its row, and that what it is answered *)
(* is what the row records.  Then, each without the events that break it:  *)
(* a callback loses only against a stop or the end of its run, what is     *)
(* shown as open is pending, and a member that waits has a reason.  Last,  *)
(* with every event again, that the service implements ApprovalSpec.       *)
(*                                                                         *)
(* The argument is about the window between the row and its waiter.  As    *)
(* long as the row is pending, whoever has registered is in WAITERS        *)
(* (Held).  A request that goes on to wait has read the row pending after  *)
(* it registered, so what settles the row later finds it there, unless     *)
(* somebody else clears the entry first: and the only ones who do are      *)
(* requests that read the row settled, of which there are none while a     *)
(* sleeping request of the same call has no answer (Sleeping).             *)
(***************************************************************************)
EXTENDS ExecutorApprovals, TLAPS

-----------------------------------------------------------------------------
(* The inductive invariant. *)

Registered == {"mark", "recheck", "announce", "wait"}
Created    == Registered \cup {"notify", "register", "tidy", "withdrawn"}

\* An executor that runs or has ended has a run.
Bound == executor # "none" => run \in Runs

\* A request past create_or_find has a row; what settled a row is at work only
\* on a settled one; a request tidies up only after a settled one.
Known ==
  /\ \A q \in Asks : ask[q].pc \in Created => row[Of(q)] # "none"
  /\ \A q \in Asks : ask[q].pc = "tidy" => row[Of(q)] # Pending
  /\ \A k \in Calls : close[k].pc # "off" => Settled(k)

\* WAITERS holds senders of requests about that call.
Aimed == \A k \in Calls : waiter[k] # NoAsk => waiter[k] \in Asks /\ Of(waiter[k]) = k

\* While the row is pending, the one who has registered is in WAITERS.
Held ==
  \A q \in Asks : ask[q].pc \in Registered /\ row[Of(q)] = Pending => waiter[Of(q)] = q

\* A request without an answer that does not read the row again is in WAITERS,
\* the row is pending or its waiter is yet to be taken out, and nobody else
\* would clear the entry.
Sleeping ==
  \A q \in Asks : ask[q].pc \in {"announce", "wait"} /\ mail[q] = "none" =>
    /\ waiter[Of(q)] = q
    /\ row[Of(q)] = Pending \/ close[Of(q)].pc = "wake"
    /\ \A p \in Asks : p # q /\ Of(p) = Of(q) => ask[p].pc \notin Registered \cup {"tidy"}

\* What is on its way to a request, and what it is answered, is in the row.
Faithful ==
  \A q \in Asks : /\ mail[q] \in Options => row[Of(q)] = mail[q]
                  /\ ask[q].out \in Options => row[Of(q)] = ask[q].out

\* Nobody runs while the server starts.
Rebooting ==
  boot.pc # "off" => executor = "none" /\ \A q \in Asks : ask[q].pc \in Finished

IInv == TypeOK /\ Bound /\ Known /\ Aimed /\ Held /\ Sleeping /\ Faithful /\ Rebooting

-----------------------------------------------------------------------------
(* Types *)

Outs == {"none", "cancelled", "duplicate", "moved"} \cup Options
AskRecord == [pc : AskPcs, rev : Nat, out : Outs]
ClosePcs == {"off", "wake", "count", "restore", "archive"}
CloseBys == {"none", "server", "run", "sweep"}
CloseRecord == [pc : ClosePcs, by : CloseBys]

(* What the updates of the requests, the rows and the deliveries keep. *)
LEMMA GoesOnTyped ==
  ASSUME ask \in [Asks -> AskRecord], NEW q \in Asks, NEW pc \in AskPcs, GoesOn(q, pc)
  PROVE  ask' \in [Asks -> AskRecord]
BY DEF GoesOn, AskRecord

LEMMA GoesOnWithTyped ==
  ASSUME ask \in [Asks -> AskRecord], NEW q \in Asks, NEW pc \in AskPcs,
     NEW out \in Outs,
         GoesOnWith(q, pc, out)
  PROVE  ask' \in [Asks -> AskRecord]
BY DEF GoesOnWith, AskRecord

LEMMA ReadsTyped ==
  ASSUME ask \in [Asks -> AskRecord], NEW q \in Asks, NEW pc \in AskPcs,
     NEW rev \in Nat,
         ask' = [ask EXCEPT ![q].pc = pc, ![q].rev = rev]
  PROVE  ask' \in [Asks -> AskRecord]
BY DEF AskRecord

LEMMA CloseTyped ==
  ASSUME close \in [Calls -> CloseRecord], NEW k \in Calls, NEW pc \in ClosePcs,
         close' = [close EXCEPT ![k].pc = pc]
  PROVE  close' \in [Calls -> CloseRecord]
BY DEF CloseRecord

LEMMA SettlesTyped ==
  ASSUME close \in [Calls -> CloseRecord], row \in [Calls -> {"none",
     Pending} \cup Ends \cup Options],
         NEW k \in Calls, NEW status \in Ends \cup Options, NEW by \in CloseBys,
            Settles(k, status, by)
  PROVE  /\ close' \in [Calls -> CloseRecord]
         /\ row' \in [Calls -> {"none", Pending} \cup Ends \cup Options]
BY DEF Settles, CloseRecord, ClosePcs

LEMMA DropsTyped ==
  ASSUME ask \in [Asks -> AskRecord], close \in [Calls -> CloseRecord], NEW r, Drops(r)
  PROVE  ask' \in [Asks -> AskRecord] /\ close' \in [Calls -> CloseRecord]
<1>1. "gone" \in AskPcs  BY DEF AskPcs
<1>2. NoClose \in CloseRecord  BY DEF CloseRecord, NoClose, ClosePcs, CloseBys
<1> QED BY <1>1, <1>2 DEF Drops, AskRecord

LEMMA DeliveryTyped ==
  ASSUME delivery \in [Runs -> [status : Status, rev : Nat]], NEW r \in Runs,
     NEW s \in Status,
         delivery' = [delivery EXCEPT ![r] = [status |-> s, rev |-> @.rev + 1]]
  PROVE  delivery' \in [Runs -> [status : Status, rev : Nat]]
BY SMT

(* Every step preserves the types. *)
LEMMA StepTypes ==
  ASSUME TypeOK, Bound, [Next]_vars
  PROVE  TypeOK' /\ Bound'
<1> USE ApprovalAssumption
<1>0. /\ delivery \in [Runs -> [status : Status, rev : Nat]]
      /\ row \in [Calls -> {"none", Pending} \cup Ends \cup Options]
      /\ ask \in [Asks -> AskRecord]
      /\ waiter \in [Calls -> Asks \cup {NoAsk}]
      /\ mail \in [Asks -> {"none", "closed"} \cup Options]
      /\ close \in [Calls -> CloseRecord]
  BY DEF TypeOK, AskRecord, Outs, CloseRecord, ClosePcs, CloseBys
<1>a. {"off", "enter", "entering", "create", "notify", "register", "mark", "recheck",
   "tidy",
       "announce", "wait", "withdrawn", "leave", "leaving", "done",
          "gone"} \subseteq AskPcs
  BY DEF AskPcs
<1>b. /\ {"wake", "count", "restore", "archive"} \subseteq ClosePcs
      /\ {"server", "run", "sweep"} \subseteq CloseBys /\ NoClose \in CloseRecord
  BY DEF ClosePcs, CloseBys, CloseRecord, NoClose
<1>c. /\ {"cancelled", "duplicate", "moved"} \subseteq Outs
      /\ \A x : Answer(x) \in Outs
      /\ {"cancelled", "expired"} \subseteq Ends \cup Options
      /\ Options \subseteq Ends \cup Options
  BY DEF Answer, Outs, Ends
<1>d. /\ \A q \in Asks : Of(q) \in Calls /\ Home(q) \in Runs
      /\ \A r \in Runs : delivery[r].rev \in Nat
  BY <1>0 DEF Of, Home
<1>e. {"running", "waiting", "stopping", "ended", "requeued"} \subseteq Status
  BY DEF Status
<1>1. CASE Bind
  <2>1. delivery' \in [Runs -> [status : Status, rev : Nat]]
    BY <1>0, <1>1, <1>e DEF Bind, vars, database, process, memory, others, Bound, Runs
  <2> QED
    BY <1>1, <2>1 DEF Bind, vars, database, process, memory, others, TypeOK, Bound,
       Serving, Active, Runs, AskRecord, Outs, CloseRecord, ClosePcs, CloseBys
<1>2. CASE ExecutorEnds
  <2>1. ask' \in [Asks -> AskRecord] /\ close' \in [Calls -> CloseRecord]
    BY <1>0, <1>2, DropsTyped DEF ExecutorEnds
  <2> QED
    BY <1>2, <2>1 DEF ExecutorEnds, Drops, Spend, vars, database, process, memory,
       others, TypeOK, Bound, Serving, Active, Runs, AskRecord, Outs, CloseRecord,
       ClosePcs, CloseBys
<1>3. CASE Finalize
  <2>1. delivery' \in [Runs -> [status : Status, rev : Nat]]
    BY <1>0, <1>3, <1>e DEF Finalize, vars, database, process, memory, others, Bound,
       Runs
  <2> QED
    BY <1>3, <2>1 DEF Finalize, vars, database, process, memory, others, TypeOK, Bound,
       Serving, Active, Runs, AskRecord, Outs, CloseRecord, ClosePcs, CloseBys
<1>4. CASE Inactive
  BY <1>4 DEF Inactive, Spend, vars, database, process, memory, others, TypeOK, Bound,
     Serving, Active, Runs, Of
<1>5. CASE StopReads
  BY <1>5 DEF StopReads, Spend, vars, database, process, memory, others, TypeOK, Bound,
     Serving, Active, Runs, Of
<1>6. CASE StopWrites
  <2>1. delivery' \in [Runs -> [status : Status, rev : Nat]]
    BY <1>0, <1>6, <1>e DEF StopWrites, vars, database, process, memory, others, Bound,
       Runs
  <2> QED
    BY <1>6, <2>1 DEF StopWrites, vars, database, process, memory, others, TypeOK,
       Bound, Serving, Active, Runs, AskRecord, Outs, CloseRecord, ClosePcs, CloseBys
<1>7. CASE StopTells
  BY <1>7 DEF StopTells, NoStop, vars, database, process, memory, others, TypeOK, Bound,
     Serving, Active, Runs, Of
<1>8. CASE SweepBegins
  BY <1>8 DEF SweepBegins, Spend, vars, database, process, memory, others, TypeOK,
     Bound, Serving, Active, Runs, Of
<1>9. ASSUME NEW q \in Asks, Begins(q)
      PROVE  TypeOK' /\ Bound'
  <2>1. ask' \in [Asks -> AskRecord]
    <3>1. CASE GoesOn(q, "enter") /\ executor = "running"
      BY <1>0, <1>a, <3>1, GoesOnTyped
    <3> QED  BY <1>9, <3>1 DEF Begins
  <2> QED
    BY <1>9, <2>1 DEF Begins, vars, database, process, memory, others, TypeOK, Bound,
       Serving, Active, Runs, AskRecord, Outs, CloseRecord, ClosePcs, CloseBys
<1>10. ASSUME NEW q \in Asks, EnterReads(q)
      PROVE  TypeOK' /\ Bound'
  <2>1. ask' \in [Asks -> AskRecord]
    <3>1. CASE GoesOn(q, "create")
      BY <1>0, <1>a, <3>1, GoesOnTyped
    <3>2. CASE ask' = [ask EXCEPT ![q].pc = "entering",
       ![q].rev = delivery[Home(q)].rev]
      <4>1. delivery[Home(q)].rev \in Nat
        BY <1>d
      <4>2. "entering" \in AskPcs
        BY <1>a
      <4> QED  BY <1>0, <3>2, <4>1, <4>2, ReadsTyped
    <3> QED  BY <1>10, <3>1, <3>2 DEF EnterReads, Reads, GoesOn
  <2> QED
    BY <1>10, <2>1 DEF EnterReads, Reads, GoesOn, vars, database, process, memory,
       others, TypeOK, Bound, Serving, Active, Runs, AskRecord, Outs, CloseRecord,
       ClosePcs, CloseBys
<1>11. ASSUME NEW q \in Asks, EnterWrites(q)
      PROVE  TypeOK' /\ Bound'
  <2>1. ask' \in [Asks -> AskRecord]
    <3>1. CASE GoesOn(q, "create")
      BY <1>0, <1>a, <3>1, GoesOnTyped
    <3>2. CASE GoesOnWith(q, "done", "moved")
      BY <1>0, <1>a, <1>c, <3>2, GoesOnWithTyped
    <3> QED  BY <1>11, <3>1, <3>2 DEF EnterWrites, Writes
  <2>2. delivery' \in [Runs -> [status : Status, rev : Nat]]
    <3>1. CASE delivery' = [delivery EXCEPT ![Home(q)] = [status |-> "waiting",
       rev |-> @.rev + 1]]
      BY <1>0, <1>d, <1>e, <3>1, DeliveryTyped
    <3> QED  BY <1>0, <1>11, <3>1 DEF EnterWrites, Writes
  <2> QED
    BY <1>11, <2>1, <2>2 DEF EnterWrites, Writes, vars, database, process, memory,
       others, TypeOK, Bound, Serving, Active, Runs, AskRecord, Outs, CloseRecord,
       ClosePcs, CloseBys
<1>12. ASSUME NEW q \in Asks, Creates(q)
      PROVE  TypeOK' /\ Bound'
  <2>1. ask' \in [Asks -> AskRecord]
    <3>1. CASE GoesOn(q, "notify")
      BY <1>0, <1>a, <3>1, GoesOnTyped
    <3>2. CASE GoesOnWith(q, "leave", Answer(row[Of(q)]))
      BY <1>0, <1>a, <1>c, <3>2, GoesOnWithTyped
    <3> QED  BY <1>12, <3>1, <3>2 DEF Creates
  <2>2. row' \in [Calls -> {"none", Pending} \cup Ends \cup Options]
    BY <1>0, <1>12, <1>d DEF Creates, Pending, Ends, NoAsk
  <2> QED
    BY <1>12, <2>1, <2>2 DEF Creates, vars, database, process, memory, others, TypeOK,
       Bound, Serving, Active, Runs, AskRecord, Outs, CloseRecord, ClosePcs, CloseBys
<1>13. ASSUME NEW q \in Asks, Notifies(q)
      PROVE  TypeOK' /\ Bound'
  <2>1. ask' \in [Asks -> AskRecord]
    <3>1. CASE GoesOn(q, "register")
      BY <1>0, <1>a, <3>1, GoesOnTyped
    <3> QED  BY <1>13, <3>1 DEF Notifies
  <2> QED
    BY <1>13, <2>1 DEF Notifies, vars, database, process, memory, others, TypeOK, Bound,
       Serving, Active, Runs, AskRecord, Outs, CloseRecord, ClosePcs, CloseBys
<1>14. ASSUME NEW q \in Asks, Registers(q)
      PROVE  TypeOK' /\ Bound'
  <2>1. ask' \in [Asks -> AskRecord]
    <3>1. CASE GoesOn(q, "mark")
      BY <1>0, <1>a, <3>1, GoesOnTyped
    <3>2. CASE GoesOnWith(q, "leave", "duplicate")
      BY <1>0, <1>a, <1>c, <3>2, GoesOnWithTyped
    <3> QED  BY <1>14, <3>1, <3>2 DEF Registers
  <2>2. waiter' \in [Calls -> Asks \cup {NoAsk}]
    BY <1>0, <1>14, <1>d DEF Registers, Pending, Ends, NoAsk
  <2> QED
    BY <1>14, <2>1, <2>2 DEF Registers, vars, database, process, memory, others, TypeOK,
       Bound, Serving, Active, Runs, AskRecord, Outs, CloseRecord, ClosePcs, CloseBys
<1>15. ASSUME NEW q \in Asks, Marks(q)
      PROVE  TypeOK' /\ Bound'
  <2>1. ask' \in [Asks -> AskRecord]
    <3>1. CASE GoesOn(q, "recheck")
      BY <1>0, <1>a, <3>1, GoesOnTyped
    <3> QED  BY <1>15, <3>1 DEF Marks
  <2> QED
    BY <1>15, <2>1 DEF Marks, vars, database, process, memory, others, TypeOK, Bound,
       Serving, Active, Runs, AskRecord, Outs, CloseRecord, ClosePcs, CloseBys
<1>16. ASSUME NEW q \in Asks, Rechecks(q)
      PROVE  TypeOK' /\ Bound'
  <2>1. ask' \in [Asks -> AskRecord]
    <3>1. CASE GoesOn(q, "announce")
      BY <1>0, <1>a, <3>1, GoesOnTyped
    <3>2. CASE GoesOnWith(q, "tidy", Answer(row[Of(q)]))
      BY <1>0, <1>a, <1>c, <3>2, GoesOnWithTyped
    <3> QED  BY <1>16, <3>1, <3>2 DEF Rechecks
  <2> QED
    BY <1>16, <2>1 DEF Rechecks, vars, database, process, memory, others, TypeOK, Bound,
       Serving, Active, Runs, AskRecord, Outs, CloseRecord, ClosePcs, CloseBys
<1>17. ASSUME NEW q \in Asks, Tidies(q)
      PROVE  TypeOK' /\ Bound'
  <2>1. ask' \in [Asks -> AskRecord]
    <3>1. CASE GoesOn(q, "leave")
      BY <1>0, <1>a, <3>1, GoesOnTyped
    <3> QED  BY <1>17, <3>1 DEF Tidies
  <2>2. waiter' \in [Calls -> Asks \cup {NoAsk}]
    BY <1>0, <1>17, <1>d DEF Tidies, Pending, Ends, NoAsk
  <2> QED
    BY <1>17, <2>1, <2>2 DEF Tidies, Archived, vars, database, process, memory, others,
       TypeOK, Bound, Serving, Active, Runs, AskRecord, Outs, CloseRecord, ClosePcs,
       CloseBys
<1>18. ASSUME NEW q \in Asks, Announces(q)
      PROVE  TypeOK' /\ Bound'
  <2>1. ask' \in [Asks -> AskRecord]
    <3>1. CASE GoesOn(q, "wait")
      BY <1>0, <1>a, <3>1, GoesOnTyped
    <3> QED  BY <1>18, <3>1 DEF Announces
  <2> QED
    BY <1>d, <1>18, <2>1 DEF Announces, vars, database, process, memory, others, TypeOK,
       Bound, Serving, Active, Runs, AskRecord, Outs, CloseRecord, ClosePcs, CloseBys
<1>19. ASSUME NEW q \in Asks, Receives(q)
      PROVE  TypeOK' /\ Bound'
  <2>1. ask' \in [Asks -> AskRecord]
    <3>1. CASE GoesOnWith(q, "leave", Answer(mail[q]))
      BY <1>0, <1>a, <1>c, <3>1, GoesOnWithTyped
    <3> QED  BY <1>19, <3>1 DEF Receives
  <2> QED
    BY <1>19, <2>1 DEF Receives, vars, database, process, memory, others, TypeOK, Bound,
       Serving, Active, Runs, AskRecord, Outs, CloseRecord, ClosePcs, CloseBys
<1>20. ASSUME NEW q \in Asks, Withdraws(q)
      PROVE  TypeOK' /\ Bound'
  <2>1. ask' \in [Asks -> AskRecord]
    <3>1. CASE GoesOn(q, "withdrawn")
      BY <1>0, <1>a, <3>1, GoesOnTyped
    <3>2. CASE GoesOnWith(q, "leave", "cancelled")
      BY <1>0, <1>a, <1>c, <3>2, GoesOnWithTyped
    <3> QED  BY <1>20, <3>1, <3>2 DEF Withdraws
  <2>2. /\ close' \in [Calls -> CloseRecord]
        /\ row' \in [Calls -> {"none", Pending} \cup Ends \cup Options]
    <3>1. CASE Settles(Of(q), "cancelled", "run")
      BY <1>0, <1>b, <1>c, <1>d, <3>1, SettlesTyped
    <3> QED  BY <1>0, <1>20, <3>1 DEF Withdraws
  <2> QED
    BY <1>20, <2>1, <2>2 DEF Withdraws, vars, database, process, memory, others, TypeOK,
       Bound, Serving, Active, Runs, AskRecord, Outs, CloseRecord, ClosePcs, CloseBys
<1>21. ASSUME NEW q \in Asks, Withdrawn(q)
      PROVE  TypeOK' /\ Bound'
  <2>1. ask' \in [Asks -> AskRecord]
    <3>1. CASE GoesOnWith(q, "leave", "cancelled")
      BY <1>0, <1>a, <1>c, <3>1, GoesOnWithTyped
    <3> QED  BY <1>21, <3>1 DEF Withdrawn
  <2> QED
    BY <1>21, <2>1 DEF Withdrawn, vars, database, process, memory, others, TypeOK,
       Bound, Serving, Active, Runs, AskRecord, Outs, CloseRecord, ClosePcs, CloseBys
<1>22. ASSUME NEW q \in Asks, LeaveReads(q)
      PROVE  TypeOK' /\ Bound'
  <2>1. ask' \in [Asks -> AskRecord]
    <3>1. CASE GoesOn(q, "done")
      BY <1>0, <1>a, <3>1, GoesOnTyped
    <3>2. CASE ask' = [ask EXCEPT ![q].pc = "leaving", ![q].rev = delivery[Home(q)].rev]
      <4>1. delivery[Home(q)].rev \in Nat
        BY <1>d
      <4>2. "leaving" \in AskPcs
        BY <1>a
      <4> QED  BY <1>0, <3>2, <4>1, <4>2, ReadsTyped
    <3> QED  BY <1>22, <3>1, <3>2 DEF LeaveReads, Reads, GoesOn
  <2> QED
    BY <1>22, <2>1 DEF LeaveReads, Reads, GoesOn, vars, database, process, memory,
       others, TypeOK, Bound, Serving, Active, Runs, AskRecord, Outs, CloseRecord,
       ClosePcs, CloseBys
<1>23. ASSUME NEW q \in Asks, LeaveWrites(q)
      PROVE  TypeOK' /\ Bound'
  <2>1. ask' \in [Asks -> AskRecord]
    <3>1. CASE GoesOn(q, "done")
      BY <1>0, <1>a, <3>1, GoesOnTyped
    <3>2. CASE GoesOnWith(q, "done", "moved")
      BY <1>0, <1>a, <1>c, <3>2, GoesOnWithTyped
    <3> QED  BY <1>23, <3>1, <3>2 DEF LeaveWrites, Writes
  <2>2. delivery' \in [Runs -> [status : Status, rev : Nat]]
    <3>1. CASE delivery' = [delivery EXCEPT ![Home(q)] = [status |-> "running",
       rev |-> @.rev + 1]]
      BY <1>0, <1>d, <1>e, <3>1, DeliveryTyped
    <3> QED  BY <1>0, <1>23, <3>1 DEF LeaveWrites, Writes
  <2> QED
    BY <1>23, <2>1, <2>2 DEF LeaveWrites, Writes, vars, database, process, memory,
       others, TypeOK, Bound, Serving, Active, Runs, AskRecord, Outs, CloseRecord,
       ClosePcs, CloseBys
<1>24. ASSUME NEW k \in Calls, Resolves(k)
      PROVE  TypeOK' /\ Bound'
  <2>1. /\ close' \in [Calls -> CloseRecord]
        /\ row' \in [Calls -> {"none", Pending} \cup Ends \cup Options]
    <3>1. CASE \E o \in Options : Settles(k, o, "server")
      BY <1>0, <1>b, <1>c, <1>d, <3>1, SettlesTyped
    <3> QED  BY <1>0, <1>24, <3>1 DEF Resolves
  <2> QED
    BY <1>24, <2>1 DEF Resolves, vars, database, process, memory, others, TypeOK, Bound,
       Serving, Active, Runs, AskRecord, Outs, CloseRecord, ClosePcs, CloseBys
<1>25. ASSUME NEW k \in Calls, Lapses(k)
      PROVE  TypeOK' /\ Bound'
  BY <1>25 DEF Lapses, vars, database, process, memory, others, TypeOK, Bound, Serving,
     Active, Runs, Of
<1>26. ASSUME NEW k \in Calls, Expires(k)
      PROVE  TypeOK' /\ Bound'
  <2>1. /\ close' \in [Calls -> CloseRecord]
        /\ row' \in [Calls -> {"none", Pending} \cup Ends \cup Options]
    <3>1. CASE Settles(k, "expired", "run")
      BY <1>0, <1>b, <1>c, <1>d, <3>1, SettlesTyped
    <3> QED  BY <1>0, <1>26, <3>1 DEF Expires
  <2> QED
    BY <1>26, <2>1 DEF Expires, vars, database, process, memory, others, TypeOK, Bound,
       Serving, Active, Runs, AskRecord, Outs, CloseRecord, ClosePcs, CloseBys
<1>27. ASSUME NEW k \in Calls, SweepCancels(k)
      PROVE  TypeOK' /\ Bound'
  <2>1. /\ close' \in [Calls -> CloseRecord]
        /\ row' \in [Calls -> {"none", Pending} \cup Ends \cup Options]
    <3>1. CASE Settles(k, "cancelled", "sweep")
      BY <1>0, <1>b, <1>c, <1>d, <3>1, SettlesTyped
    <3> QED  BY <1>0, <1>27, <3>1 DEF SweepCancels
  <2> QED
    BY <1>27, <2>1 DEF SweepCancels, vars, database, process, memory, others, TypeOK,
       Bound, Serving, Active, Runs, AskRecord, Outs, CloseRecord, ClosePcs, CloseBys
<1>28. ASSUME NEW k \in Calls, Wakes(k)
      PROVE  TypeOK' /\ Bound'
  <2>1. close' \in [Calls -> CloseRecord]
    <3>1. CASE close' = [close EXCEPT ![k].pc = "count"]
      BY <1>0, <1>b, <3>1, CloseTyped
    <3> QED  BY <1>28, <3>1 DEF Wakes
  <2>2. waiter' \in [Calls -> Asks \cup {NoAsk}]
    BY <1>0, <1>28, <1>d DEF Wakes, Pending, Ends, NoAsk
  <2>3. mail' \in [Asks -> {"none", "closed"} \cup Options]
    BY <1>0, <1>28, <1>d DEF Wakes, Pending, Ends, NoAsk
  <2> QED
    BY <1>28, <2>1, <2>2, <2>3 DEF Wakes, vars, database, process, memory, others,
       TypeOK, Bound, Serving, Active, Runs, AskRecord, Outs, CloseRecord, ClosePcs,
       CloseBys
<1>29. ASSUME NEW k \in Calls, Counts(k)
      PROVE  TypeOK' /\ Bound'
  <2>1. close' \in [Calls -> CloseRecord]
    <3>1. CASE close' = [close EXCEPT ![k].pc = "archive"]
      BY <1>0, <1>b, <3>1, CloseTyped
    <3>2. CASE close' = [close EXCEPT ![k].pc = "restore"]
      BY <1>0, <1>b, <3>2, CloseTyped
    <3> QED  BY <1>29, <3>1, <3>2 DEF Counts
  <2> QED
    BY <1>29, <2>1 DEF Counts, vars, database, process, memory, others, TypeOK, Bound,
       Serving, Active, Runs, AskRecord, Outs, CloseRecord, ClosePcs, CloseBys
<1>30. ASSUME NEW k \in Calls, Restores(k)
      PROVE  TypeOK' /\ Bound'
  <2>1. close' \in [Calls -> CloseRecord]
    <3>1. CASE close' = [close EXCEPT ![k].pc = "archive"]
      BY <1>0, <1>b, <3>1, CloseTyped
    <3> QED  BY <1>30, <3>1 DEF Restores
  <2> QED
    BY <1>30, <2>1 DEF Restores, vars, database, process, memory, others, TypeOK, Bound,
       Serving, Active, Runs, AskRecord, Outs, CloseRecord, ClosePcs, CloseBys
<1>31. ASSUME NEW k \in Calls, Archives(k)
      PROVE  TypeOK' /\ Bound'
  <2>1. close' \in [Calls -> CloseRecord]
    BY <1>0, <1>b, <1>31 DEF Archives
  <2> QED
    BY <1>31, <2>1 DEF Archives, Archived, vars, database, process, memory, others,
       TypeOK, Bound, Serving, Active, Runs, AskRecord, Outs, CloseRecord, ClosePcs,
       CloseBys
<1>32. ASSUME NEW k \in Calls, BootTidies(k)
      PROVE  TypeOK' /\ Bound'
  BY <1>32 DEF BootTidies, Archived, vars, database, process, memory, others, TypeOK,
     Bound, Serving, Active, Runs, Of
<1>33. CASE Crash
  <2>1. ask' \in [Asks -> AskRecord] /\ close' \in [Calls -> CloseRecord]
    <3>1. \A q \in Asks : /\ ask[q] \in AskRecord
                         /\ [ask[q] EXCEPT !.pc = "gone"] \in AskRecord
      BY <1>0, <1>a DEF AskRecord
    <3> QED  BY <1>b, <1>33, <3>1 DEF Crash
  <2> QED
    BY <1>33, <2>1 DEF Crash, Spend, NoStop, vars, database, process, memory, others,
       TypeOK, Bound, Serving, Active, Runs, AskRecord, Outs, CloseRecord, ClosePcs,
       CloseBys
<1>34. CASE BootExpires
  <2>1. row' \in [Calls -> {"none", Pending} \cup Ends \cup Options]
    BY <1>0, <1>34, <1>d DEF BootExpires, Pending, Ends, NoAsk
  <2> QED
    BY <1>34, <2>1 DEF BootExpires, vars, database, process, memory, others, TypeOK,
       Bound, Serving, Active, Runs, AskRecord, Outs, CloseRecord, ClosePcs, CloseBys
<1>35. CASE BootRecovers
  <2>1. delivery' \in [Runs -> [status : Status, rev : Nat]]
    <3>1. \A r \in Runs : /\ delivery[r] \in [status : Status, rev : Nat]
                         /\ [status |-> "requeued", rev |-> delivery[r].rev + 1]
                              \in [status : Status, rev : Nat]
      BY <1>0, <1>d, <1>e
    <3> QED  BY <1>0, <1>35, <3>1 DEF BootRecovers
  <2> QED
    BY <1>35, <2>1 DEF BootRecovers, NoBoot, vars, database, process, memory, others,
       TypeOK, Bound, Serving, Active, Runs, AskRecord, Outs, CloseRecord, ClosePcs,
       CloseBys
<1>36. CASE UNCHANGED vars
  BY <1>36 DEF vars, database, process, memory, others, TypeOK, Bound
<1>37. ASSUME NEW q \in Asks, Begins(q) \/ Request(q)
      PROVE  TypeOK' /\ Bound'
  BY <1>37, <1>9, <1>10, <1>11, <1>12, <1>13, <1>14, <1>15, <1>16, <1>17, <1>18, <1>19,
     <1>20, <1>21, <1>22, <1>23 DEF Request
<1>38. ASSUME NEW k \in Calls, Resolves(k) \/ Lapses(k) \/ Expires(k) \/ SweepCancels(k)
   \/ Closing(k) \/ BootTidies(k)
      PROVE  TypeOK' /\ Bound'
  BY <1>38, <1>24, <1>25, <1>26, <1>27, <1>28, <1>29, <1>30, <1>31, <1>32 DEF Closing
<1> QED
  BY <1>1, <1>2, <1>3, <1>4, <1>5, <1>6, <1>7, <1>8, <1>33, <1>34, <1>35, <1>36, <1>37,
     <1>38 DEF Next, Stopping, Booting

-----------------------------------------------------------------------------
(* Every step preserves the rest of the invariant.  Under each action its   *)
(* effect on the row, the waiter and the request is stated first.           *)
LEMMA StepWaiters ==
  ASSUME IInv, [Next]_vars
  PROVE  Known' /\ Aimed' /\ Held' /\ Sleeping' /\ Faithful' /\ Rebooting'
<1> USE ApprovalAssumption DEF Known, Aimed, Held, Sleeping, Faithful, Rebooting,
   Settled, Registered, Created,
       Ends, Pending, NoAsk, Finished, Of
<1>0. /\ Known /\ Aimed /\ Held /\ Sleeping /\ Faithful /\ Rebooting
      /\ row \in [Calls -> {"none", Pending} \cup Ends \cup Options]
      /\ ask \in [Asks -> [pc : AskPcs, rev : Nat,
                           out : {"none", "cancelled", "duplicate",
                              "moved"} \cup Options]]
      /\ waiter \in [Calls -> Asks \cup {NoAsk}]
      /\ mail \in [Asks -> {"none", "closed"} \cup Options]
      /\ close \in [Calls -> [pc : {"off", "wake", "count", "restore", "archive"},
                              by : {"none", "server", "run", "sweep"}]]
  BY DEF IInv, TypeOK
<1>1. CASE Bind
  <2>1. UNCHANGED <<row, waiter, mail, close, ask, boot>> /\ boot.pc = "off"
    BY <1>1 DEF Bind, vars, database, process, memory, others, Serving
  <2> QED
    BY <1>0, <2>1 DEF GoesOn, GoesOnWith, Settles, NoClose, Answer
<1>2. CASE ExecutorEnds
  <2>1. CASE UNCHANGED <<ask, timer, close>>
    <3>1. /\ UNCHANGED <<row, waiter, mail, close, ask, boot>>
          /\ UNCHANGED run
          /\ executor = "running"
      BY <1>2, <2>1 DEF ExecutorEnds, Drops, vars, database, process, memory, others
    <3> QED
      BY <1>0, <2>1, <3>1 DEF GoesOn, GoesOnWith, Settles, NoClose, Answer, Drops, Home
  <2>2. CASE Drops(run)
    <3>1. UNCHANGED <<row, waiter, mail, boot>> /\ executor = "running" /\ Drops(run)
      BY <1>2, <2>2 DEF ExecutorEnds, Drops, vars, database, process, memory, others
    <3> QED
      BY <1>0, <2>2, <3>1 DEF GoesOn, GoesOnWith, Settles, NoClose, Answer, Drops, Home
  <2> QED  BY <1>0, <1>2, <2>1, <2>2 DEF ExecutorEnds
<1>3. CASE Finalize
  <2>1. UNCHANGED <<row, waiter, mail, close, ask, boot>> /\ executor' = "none"
    BY <1>3 DEF Finalize, vars, database, process, memory, others
  <2> QED
    BY <1>0, <2>1 DEF GoesOn, GoesOnWith, Settles, NoClose, Answer
<1>4. CASE Inactive
  <2>1. UNCHANGED <<row, waiter, mail, close, ask, boot, executor>>
    BY <1>4 DEF Inactive, Spend, vars, database, process, memory, others
  <2> QED
    BY <1>0, <2>1 DEF GoesOn, GoesOnWith, Settles, NoClose, Answer
<1>5. CASE StopReads
  <2>1. UNCHANGED <<row, waiter, mail, close, ask, boot, executor>>
    BY <1>5 DEF StopReads, Spend, vars, database, process, memory, others
  <2> QED
    BY <1>0, <2>1 DEF GoesOn, GoesOnWith, Settles, NoClose, Answer
<1>6. CASE StopWrites
  <2>1. UNCHANGED <<row, waiter, mail, close, ask, boot, executor>>
    BY <1>6 DEF StopWrites, vars, database, process, memory, others
  <2> QED
    BY <1>0, <2>1 DEF GoesOn, GoesOnWith, Settles, NoClose, Answer
<1>7. CASE StopTells
  <2>1. UNCHANGED <<row, waiter, mail, close, ask, boot, executor>>
    BY <1>7 DEF StopTells, vars, database, process, memory, others
  <2> QED
    BY <1>0, <2>1 DEF GoesOn, GoesOnWith, Settles, NoClose, Answer
<1>8. CASE SweepBegins
  <2>1. UNCHANGED <<row, waiter, mail, close, ask, boot, executor>>
    BY <1>8 DEF SweepBegins, Spend, vars, database, process, memory, others
  <2> QED
    BY <1>0, <2>1 DEF GoesOn, GoesOnWith, Settles, NoClose, Answer
<1>9. ASSUME NEW q \in Asks, Begins(q)
      PROVE  Known' /\ Aimed' /\ Held' /\ Sleeping' /\ Faithful' /\ Rebooting'
  <2>1. /\ GoesOn(q, "enter")
        /\ executor = "running"
        /\ ask[q].pc = "off"
        /\ UNCHANGED <<row, waiter, mail, close, boot, executor>>
    BY <1>9 DEF Begins, vars, database, process, memory, others
  <2> QED
    BY <1>0, <2>1 DEF GoesOn, GoesOnWith, Settles, NoClose, Answer
<1>10. ASSUME NEW q \in Asks, EnterReads(q)
      PROVE  Known' /\ Aimed' /\ Held' /\ Sleeping' /\ Faithful' /\ Rebooting'
  <2>1. CASE delivery[Home(q)].status # "running"
    <3>1. /\ GoesOn(q, "create")
          /\ ask[q].pc = "enter"
          /\ UNCHANGED <<row, waiter, mail, close, boot, executor>>
      BY <1>10, <2>1 DEF EnterReads, Reads, GoesOn, vars, database, process, memory,
         others
    <3> QED
      BY <1>0, <2>1, <3>1 DEF GoesOn, GoesOnWith, Settles, NoClose, Answer
  <2>2. CASE delivery[Home(q)].status = "running"
    <3>1. /\ ask' = [ask EXCEPT ![q].pc = "entering", ![q].rev = delivery[Home(q)].rev]
          /\ ask[q].pc = "enter"
          /\ UNCHANGED <<row, waiter, mail, close, boot, executor>>
      BY <1>10, <2>2 DEF EnterReads, Reads, GoesOn, vars, database, process, memory,
         others
    <3> QED
      BY <1>0, <2>2, <3>1 DEF GoesOn, GoesOnWith, Settles, NoClose, Answer
  <2> QED  BY <1>0, <1>10, <2>1, <2>2
<1>11. ASSUME NEW q \in Asks, EnterWrites(q)
      PROVE  Known' /\ Aimed' /\ Held' /\ Sleeping' /\ Faithful' /\ Rebooting'
  <2>1. CASE delivery[Home(q)] = [status |-> "running", rev |-> ask[q].rev]
    <3>1. /\ GoesOn(q, "create")
          /\ ask[q].pc = "entering"
          /\ UNCHANGED <<row, waiter, mail, close, boot, executor>>
      BY <1>11, <2>1 DEF EnterWrites, Writes, vars, database, process, memory, others
    <3> QED
      BY <1>0, <2>1, <3>1 DEF GoesOn, GoesOnWith, Settles, NoClose, Answer
  <2>2. CASE delivery[Home(q)] # [status |-> "running", rev |-> ask[q].rev]
    <3>1. /\ GoesOnWith(q, "done", "moved")
          /\ ask[q].pc = "entering"
          /\ UNCHANGED <<row, waiter, mail, close, boot, executor>>
      BY <1>11, <2>2 DEF EnterWrites, Writes, vars, database, process, memory, others
    <3> QED
      BY <1>0, <2>2, <3>1 DEF GoesOn, GoesOnWith, Settles, NoClose, Answer
  <2> QED  BY <1>0, <1>11, <2>1, <2>2
<1>12. ASSUME NEW q \in Asks, Creates(q)
      PROVE  Known' /\ Aimed' /\ Held' /\ Sleeping' /\ Faithful' /\ Rebooting'
  <2>1. CASE row[Of(q)] = "none"
    <3>1. /\ GoesOn(q, "notify")
          /\ ask[q].pc = "create"
          /\ row' = [row EXCEPT ![Of(q)] = Pending]
          /\ UNCHANGED <<waiter, mail, close, boot, executor>>
      BY <1>0, <1>12, <2>1 DEF Creates, vars, database, process, memory, others
    <3> QED
      BY <1>0, <2>1, <3>1 DEF GoesOn, GoesOnWith, Settles, NoClose, Answer
  <2>2. CASE row[Of(q)] = Pending
    <3>1. /\ GoesOn(q, "notify")
          /\ ask[q].pc = "create"
          /\ UNCHANGED <<row, waiter, mail, close, boot, executor>>
      BY <1>0, <1>12, <2>2 DEF Creates, vars, database, process, memory, others
    <3> QED
      BY <1>0, <2>2, <3>1 DEF GoesOn, GoesOnWith, Settles, NoClose, Answer
  <2>3. CASE row[Of(q)] \notin {"none", Pending}
    <3>1. /\ GoesOnWith(q, "leave", Answer(row[Of(q)]))
          /\ ask[q].pc = "create"
          /\ UNCHANGED <<row, waiter, mail, close, boot, executor>>
      BY <1>0, <1>12, <2>3 DEF Creates, vars, database, process, memory, others
    <3> QED
      BY <1>0, <2>3, <3>1 DEF GoesOn, GoesOnWith, Settles, NoClose, Answer
  <2> QED  BY <1>0, <1>12, <2>1, <2>2, <2>3
<1>13. ASSUME NEW q \in Asks, Notifies(q)
      PROVE  Known' /\ Aimed' /\ Held' /\ Sleeping' /\ Faithful' /\ Rebooting'
  <2>1. /\ GoesOn(q, "register")
        /\ ask[q].pc = "notify"
        /\ UNCHANGED <<row, waiter, mail, close, boot, executor>>
    BY <1>13 DEF Notifies, vars, database, process, memory, others
  <2> QED
    BY <1>0, <2>1 DEF GoesOn, GoesOnWith, Settles, NoClose, Answer
<1>14. ASSUME NEW q \in Asks, Registers(q)
      PROVE  Known' /\ Aimed' /\ Held' /\ Sleeping' /\ Faithful' /\ Rebooting'
  <2>1. CASE waiter[Of(q)] = NoAsk
    <3>1. /\ GoesOn(q, "mark")
          /\ ask[q].pc = "register"
          /\ waiter' = [waiter EXCEPT ![Of(q)] = q]
          /\ UNCHANGED <<row, mail, close, boot, executor>>
      BY <1>14, <2>1 DEF Registers, vars, database, process, memory, others
    <3> QED
      BY <1>0, <2>1, <3>1 DEF GoesOn, GoesOnWith, Settles, NoClose, Answer
  <2>2. CASE waiter[Of(q)] # NoAsk
    <3>1. /\ GoesOnWith(q, "leave", "duplicate")
          /\ ask[q].pc = "register"
          /\ UNCHANGED <<row, waiter, mail, close, boot, executor>>
      BY <1>14, <2>2 DEF Registers, vars, database, process, memory, others
    <3> QED
      BY <1>0, <2>2, <3>1 DEF GoesOn, GoesOnWith, Settles, NoClose, Answer
  <2> QED  BY <1>0, <1>14, <2>1, <2>2
<1>15. ASSUME NEW q \in Asks, Marks(q)
      PROVE  Known' /\ Aimed' /\ Held' /\ Sleeping' /\ Faithful' /\ Rebooting'
  <2>1. /\ GoesOn(q, "recheck")
        /\ ask[q].pc = "mark"
        /\ UNCHANGED <<row, waiter, mail, close, boot, executor>>
    BY <1>15 DEF Marks, vars, database, process, memory, others
  <2> QED
    BY <1>0, <2>1 DEF GoesOn, GoesOnWith, Settles, NoClose, Answer
<1>16. ASSUME NEW q \in Asks, Rechecks(q)
      PROVE  Known' /\ Aimed' /\ Held' /\ Sleeping' /\ Faithful' /\ Rebooting'
  <2>1. CASE row[Of(q)] = Pending
    <3>1. /\ GoesOn(q, "announce")
          /\ ask[q].pc = "recheck"
          /\ UNCHANGED <<row, waiter, mail, close, boot, executor>>
      BY <1>16, <2>1 DEF Rechecks, vars, database, process, memory, others
    <3>2. Known'
      BY <1>0, <2>1, <3>1 DEF GoesOn, GoesOnWith, Settles, NoClose, Answer
    <3>3. Aimed'
      BY <1>0, <2>1, <3>1 DEF GoesOn, GoesOnWith, Settles, NoClose, Answer
    <3>4. Held'
      BY <1>0, <2>1, <3>1 DEF GoesOn, GoesOnWith, Settles, NoClose, Answer
    <3>5. Sleeping'
      BY <1>0, <2>1, <3>1 DEF GoesOn, GoesOnWith, Settles, NoClose, Answer
    <3>6. Faithful'
      BY <1>0, <2>1, <3>1 DEF GoesOn, GoesOnWith, Settles, NoClose, Answer
    <3>7. Rebooting'
      BY <1>0, <2>1, <3>1 DEF GoesOn, GoesOnWith, Settles, NoClose, Answer
    <3> QED  BY <3>2, <3>3, <3>4, <3>5, <3>6, <3>7
  <2>2. CASE row[Of(q)] # Pending
    <3>1. /\ GoesOnWith(q, "tidy", Answer(row[Of(q)]))
          /\ ask[q].pc = "recheck"
          /\ UNCHANGED <<row, waiter, mail, close, boot, executor>>
      BY <1>16, <2>2 DEF Rechecks, vars, database, process, memory, others
    <3>2. Known'
      BY <1>0, <2>2, <3>1 DEF GoesOn, GoesOnWith, Settles, NoClose, Answer
    <3>3. Aimed'
      BY <1>0, <2>2, <3>1 DEF GoesOn, GoesOnWith, Settles, NoClose, Answer
    <3>4. Held'
      BY <1>0, <2>2, <3>1 DEF GoesOn, GoesOnWith, Settles, NoClose, Answer
    <3>5. Sleeping'
      BY <1>0, <2>2, <3>1 DEF GoesOn, GoesOnWith, Settles, NoClose, Answer
    <3>6. Faithful'
      BY <1>0, <2>2, <3>1 DEF GoesOn, GoesOnWith, Settles, NoClose, Answer
    <3>7. Rebooting'
      BY <1>0, <2>2, <3>1 DEF GoesOn, GoesOnWith, Settles, NoClose, Answer
    <3> QED  BY <3>2, <3>3, <3>4, <3>5, <3>6, <3>7
  <2> QED  BY <1>0, <1>16, <2>1, <2>2
<1>17. ASSUME NEW q \in Asks, Tidies(q)
      PROVE  Known' /\ Aimed' /\ Held' /\ Sleeping' /\ Faithful' /\ Rebooting'
  <2>1. /\ GoesOn(q, "leave")
        /\ ask[q].pc = "tidy"
        /\ waiter' = [waiter EXCEPT ![Of(q)] = NoAsk]
        /\ UNCHANGED <<row, mail, close, boot, executor>>
    BY <1>17 DEF Tidies, Archived, vars, database, process, memory, others
  <2> QED
    BY <1>0, <2>1 DEF GoesOn, GoesOnWith, Settles, NoClose, Answer
<1>18. ASSUME NEW q \in Asks, Announces(q)
      PROVE  Known' /\ Aimed' /\ Held' /\ Sleeping' /\ Faithful' /\ Rebooting'
  <2>1. /\ GoesOn(q, "wait")
        /\ ask[q].pc = "announce"
        /\ UNCHANGED <<row, waiter, mail, close, boot, executor>>
    BY <1>18 DEF Announces, vars, database, process, memory, others
  <2> QED
    BY <1>0, <2>1 DEF GoesOn, GoesOnWith, Settles, NoClose, Answer
<1>19. ASSUME NEW q \in Asks, Receives(q)
      PROVE  Known' /\ Aimed' /\ Held' /\ Sleeping' /\ Faithful' /\ Rebooting'
  <2>1. /\ GoesOnWith(q, "leave", Answer(mail[q]))
        /\ ask[q].pc = "wait"
        /\ mail[q] # "none"
        /\ UNCHANGED <<row, waiter, mail, close, boot, executor>>
    BY <1>19 DEF Receives, vars, database, process, memory, others
  <2>2. Known'
    BY <1>0, <2>1 DEF GoesOn, GoesOnWith, Settles, NoClose, Answer
  <2>3. Aimed'
    BY <1>0, <2>1 DEF GoesOn, GoesOnWith, Settles, NoClose, Answer
  <2>4. Held'
    BY <1>0, <2>1 DEF GoesOn, GoesOnWith, Settles, NoClose, Answer
  <2>5. Sleeping'
    BY <1>0, <2>1 DEF GoesOn, GoesOnWith, Settles, NoClose, Answer
  <2>6. Faithful'
    BY <1>0, <2>1 DEF GoesOn, GoesOnWith, Settles, NoClose, Answer
  <2>7. Rebooting'
    BY <1>0, <2>1 DEF GoesOn, GoesOnWith, Settles, NoClose, Answer
  <2> QED  BY <2>2, <2>3, <2>4, <2>5, <2>6, <2>7
<1>20. ASSUME NEW q \in Asks, Withdraws(q)
      PROVE  Known' /\ Aimed' /\ Held' /\ Sleeping' /\ Faithful' /\ Rebooting'
  <2>1. CASE row[Of(q)] = Pending
    <3>1. /\ GoesOn(q, "withdrawn")
          /\ ask[q].pc = "wait"
          /\ Settles(Of(q), "cancelled", "run")
          /\ UNCHANGED <<waiter, mail, boot, executor>>
      BY <1>20, <2>1 DEF Withdraws, vars, database, process, memory, others
    <3>2. Known'
      BY <1>0, <2>1, <3>1 DEF GoesOn, GoesOnWith, Settles, NoClose, Answer
    <3>3. Aimed'
      BY <1>0, <2>1, <3>1 DEF GoesOn, GoesOnWith, Settles, NoClose, Answer
    <3>4. Held'
      BY <1>0, <2>1, <3>1 DEF GoesOn, GoesOnWith, Settles, NoClose, Answer
    <3>5. Sleeping'
      BY <1>0, <2>1, <3>1 DEF GoesOn, GoesOnWith, Settles, NoClose, Answer
    <3>6. Faithful'
      BY <1>0, <2>1, <3>1 DEF GoesOn, GoesOnWith, Settles, NoClose, Answer
    <3>7. Rebooting'
      BY <1>0, <2>1, <3>1 DEF GoesOn, GoesOnWith, Settles, NoClose, Answer
    <3> QED  BY <3>2, <3>3, <3>4, <3>5, <3>6, <3>7
  <2>2. CASE row[Of(q)] # Pending
    <3>1. /\ GoesOnWith(q, "leave", "cancelled")
          /\ ask[q].pc = "wait"
          /\ UNCHANGED <<row, waiter, mail, close, boot, executor>>
      BY <1>20, <2>2 DEF Withdraws, vars, database, process, memory, others
    <3>2. Known'
      BY <1>0, <2>2, <3>1 DEF GoesOn, GoesOnWith, Settles, NoClose, Answer
    <3>3. Aimed'
      BY <1>0, <2>2, <3>1 DEF GoesOn, GoesOnWith, Settles, NoClose, Answer
    <3>4. Held'
      BY <1>0, <2>2, <3>1 DEF GoesOn, GoesOnWith, Settles, NoClose, Answer
    <3>5. Sleeping'
      BY <1>0, <2>2, <3>1 DEF GoesOn, GoesOnWith, Settles, NoClose, Answer
    <3>6. Faithful'
      BY <1>0, <2>2, <3>1 DEF GoesOn, GoesOnWith, Settles, NoClose, Answer
    <3>7. Rebooting'
      BY <1>0, <2>2, <3>1 DEF GoesOn, GoesOnWith, Settles, NoClose, Answer
    <3> QED  BY <3>2, <3>3, <3>4, <3>5, <3>6, <3>7
  <2> QED  BY <1>0, <1>20, <2>1, <2>2
<1>21. ASSUME NEW q \in Asks, Withdrawn(q)
      PROVE  Known' /\ Aimed' /\ Held' /\ Sleeping' /\ Faithful' /\ Rebooting'
  <2>1. /\ GoesOnWith(q, "leave", "cancelled")
        /\ ask[q].pc = "withdrawn"
        /\ UNCHANGED <<row, waiter, mail, close, boot, executor>>
    BY <1>21 DEF Withdrawn, vars, database, process, memory, others
  <2> QED
    BY <1>0, <2>1 DEF GoesOn, GoesOnWith, Settles, NoClose, Answer
<1>22. ASSUME NEW q \in Asks, LeaveReads(q)
      PROVE  Known' /\ Aimed' /\ Held' /\ Sleeping' /\ Faithful' /\ Rebooting'
  <2>1. CASE delivery[Home(q)].status # "waiting"
    <3>1. /\ GoesOn(q, "done")
          /\ ask[q].pc = "leave"
          /\ UNCHANGED <<row, waiter, mail, close, boot, executor>>
      BY <1>22, <2>1 DEF LeaveReads, Reads, GoesOn, vars, database, process, memory,
         others
    <3> QED
      BY <1>0, <2>1, <3>1 DEF GoesOn, GoesOnWith, Settles, NoClose, Answer
  <2>2. CASE delivery[Home(q)].status = "waiting"
    <3>1. /\ ask' = [ask EXCEPT ![q].pc = "leaving", ![q].rev = delivery[Home(q)].rev]
          /\ ask[q].pc = "leave"
          /\ UNCHANGED <<row, waiter, mail, close, boot, executor>>
      BY <1>22, <2>2 DEF LeaveReads, Reads, GoesOn, vars, database, process, memory,
         others
    <3> QED
      BY <1>0, <2>2, <3>1 DEF GoesOn, GoesOnWith, Settles, NoClose, Answer
  <2> QED  BY <1>0, <1>22, <2>1, <2>2
<1>23. ASSUME NEW q \in Asks, LeaveWrites(q)
      PROVE  Known' /\ Aimed' /\ Held' /\ Sleeping' /\ Faithful' /\ Rebooting'
  <2>1. CASE delivery[Home(q)] = [status |-> "waiting", rev |-> ask[q].rev]
    <3>1. /\ GoesOn(q, "done")
          /\ ask[q].pc = "leaving"
          /\ UNCHANGED <<row, waiter, mail, close, boot, executor>>
      BY <1>23, <2>1 DEF LeaveWrites, Writes, vars, database, process, memory, others
    <3> QED
      BY <1>0, <2>1, <3>1 DEF GoesOn, GoesOnWith, Settles, NoClose, Answer
  <2>2. CASE delivery[Home(q)] # [status |-> "waiting", rev |-> ask[q].rev]
    <3>1. /\ GoesOnWith(q, "done", "moved")
          /\ ask[q].pc = "leaving"
          /\ UNCHANGED <<row, waiter, mail, close, boot, executor>>
      BY <1>23, <2>2 DEF LeaveWrites, Writes, vars, database, process, memory, others
    <3> QED
      BY <1>0, <2>2, <3>1 DEF GoesOn, GoesOnWith, Settles, NoClose, Answer
  <2> QED  BY <1>0, <1>23, <2>1, <2>2
<1>24. ASSUME NEW k \in Calls, Resolves(k)
      PROVE  Known' /\ Aimed' /\ Held' /\ Sleeping' /\ Faithful' /\ Rebooting'
  <2>1. /\ row[k] = Pending
        /\ boot.pc = "off"
        /\ (\E o \in Options : Settles(k, o, "server"))
        /\ UNCHANGED <<waiter, mail, ask, boot, executor>>
    BY <1>24 DEF Resolves, vars, database, process, memory, others, Serving
  <2> QED
    BY <1>0, <2>1 DEF GoesOn, GoesOnWith, Settles, NoClose, Answer
<1>25. ASSUME NEW k \in Calls, Lapses(k)
      PROVE  Known' /\ Aimed' /\ Held' /\ Sleeping' /\ Faithful' /\ Rebooting'
  <2>1. UNCHANGED <<row, waiter, mail, close, ask, boot, executor>>
    BY <1>25 DEF Lapses, vars, database, process, memory, others
  <2> QED
    BY <1>0, <2>1 DEF GoesOn, GoesOnWith, Settles, NoClose, Answer
<1>26. ASSUME NEW k \in Calls, Expires(k)
      PROVE  Known' /\ Aimed' /\ Held' /\ Sleeping' /\ Faithful' /\ Rebooting'
  <2>1. CASE row[k] = Pending
    <3>1. Settles(k, "expired", "run") /\ UNCHANGED <<waiter, mail, ask, boot, executor>>
      BY <1>26, <2>1 DEF Expires, vars, database, process, memory, others
    <3> QED
      BY <1>0, <2>1, <3>1 DEF GoesOn, GoesOnWith, Settles, NoClose, Answer
  <2>2. CASE row[k] # Pending
    <3>1. UNCHANGED <<row, waiter, mail, close, ask, boot, executor>>
      BY <1>26, <2>2 DEF Expires, vars, database, process, memory, others
    <3> QED
      BY <1>0, <2>2, <3>1 DEF GoesOn, GoesOnWith, Settles, NoClose, Answer
  <2> QED  BY <1>0, <1>26, <2>1, <2>2
<1>27. ASSUME NEW k \in Calls, SweepCancels(k)
      PROVE  Known' /\ Aimed' /\ Held' /\ Sleeping' /\ Faithful' /\ Rebooting'
  <2>1. CASE row[k] = Pending
    <3>1. /\ Settles(k, "cancelled", "sweep")
          /\ UNCHANGED <<waiter, mail, ask, boot, executor>>
      BY <1>27, <2>1 DEF SweepCancels, vars, database, process, memory, others
    <3> QED
      BY <1>0, <2>1, <3>1 DEF GoesOn, GoesOnWith, Settles, NoClose, Answer
  <2>2. CASE row[k] # Pending
    <3>1. UNCHANGED <<row, waiter, mail, close, ask, boot, executor>>
      BY <1>27, <2>2 DEF SweepCancels, vars, database, process, memory, others
    <3> QED
      BY <1>0, <2>2, <3>1 DEF GoesOn, GoesOnWith, Settles, NoClose, Answer
  <2> QED  BY <1>0, <1>27, <2>1, <2>2
<1>28. ASSUME NEW k \in Calls, Wakes(k)
      PROVE  Known' /\ Aimed' /\ Held' /\ Sleeping' /\ Faithful' /\ Rebooting'
  <2>1. /\ close[k].pc = "wake"
        /\ close' = [close EXCEPT ![k].pc = "count"]
        /\ waiter' = [waiter EXCEPT ![k] = NoAsk]
        /\ mail' = [q \in Asks |-> IF q = waiter[k]
                                   THEN (IF row[k] \in Options THEN row[k] ELSE "closed")
                                   ELSE mail[q]]
        /\ UNCHANGED <<row, ask, boot, executor>>
    BY <1>28 DEF Wakes, vars, database, process, memory, others
  <2> QED
    BY <1>0, <2>1 DEF GoesOn, GoesOnWith, Settles, NoClose, Answer
<1>29. ASSUME NEW k \in Calls, Counts(k)
      PROVE  Known' /\ Aimed' /\ Held' /\ Sleeping' /\ Faithful' /\ Rebooting'
  <2>1. CASE \E d \in Calls : row[d] = Pending
    <3>1. /\ close[k].pc = "count"
          /\ close' = [close EXCEPT ![k].pc = "archive"]
          /\ UNCHANGED <<row, waiter, mail, ask, boot, executor>>
      BY <1>29, <2>1 DEF Counts, vars, database, process, memory, others
    <3> QED
      BY <1>0, <2>1, <3>1 DEF GoesOn, GoesOnWith, Settles, NoClose, Answer
  <2>2. CASE ~(\E d \in Calls : row[d] = Pending)
    <3>1. /\ close[k].pc = "count"
          /\ close' = [close EXCEPT ![k].pc = "restore"]
          /\ UNCHANGED <<row, waiter, mail, ask, boot, executor>>
      BY <1>29, <2>2 DEF Counts, vars, database, process, memory, others
    <3> QED
      BY <1>0, <2>2, <3>1 DEF GoesOn, GoesOnWith, Settles, NoClose, Answer
  <2> QED  BY <1>0, <1>29, <2>1, <2>2
<1>30. ASSUME NEW k \in Calls, Restores(k)
      PROVE  Known' /\ Aimed' /\ Held' /\ Sleeping' /\ Faithful' /\ Rebooting'
  <2>1. /\ close[k].pc = "restore"
        /\ close' = [close EXCEPT ![k].pc = "archive"]
        /\ UNCHANGED <<row, waiter, mail, ask, boot, executor>>
    BY <1>30 DEF Restores, vars, database, process, memory, others
  <2> QED
    BY <1>0, <2>1 DEF GoesOn, GoesOnWith, Settles, NoClose, Answer
<1>31. ASSUME NEW k \in Calls, Archives(k)
      PROVE  Known' /\ Aimed' /\ Held' /\ Sleeping' /\ Faithful' /\ Rebooting'
  <2>1. /\ close[k].pc = "archive"
        /\ close' = [close EXCEPT ![k] = NoClose]
        /\ UNCHANGED <<row, waiter, mail, ask, boot, executor>>
    BY <1>31 DEF Archives, Archived, vars, database, process, memory, others
  <2> QED
    BY <1>0, <2>1 DEF GoesOn, GoesOnWith, Settles, NoClose, Answer
<1>32. ASSUME NEW k \in Calls, BootTidies(k)
      PROVE  Known' /\ Aimed' /\ Held' /\ Sleeping' /\ Faithful' /\ Rebooting'
  <2>1. /\ boot.pc = "tidy"
        /\ boot' = [boot EXCEPT !.todo = @ \ {k}]
        /\ UNCHANGED <<row, waiter, mail, close, ask, executor>>
    BY <1>32 DEF BootTidies, Archived, vars, database, process, memory, others
  <2> QED
    BY <1>0, <2>1 DEF GoesOn, GoesOnWith, Settles, NoClose, Answer
<1>33. CASE Crash
  <2>1. /\ executor' = "none"
        /\ ask' = [q \in Asks |-> IF ask[q].pc \in Finished THEN ask[q]
                                  ELSE [ask[q] EXCEPT !.pc = "gone"]]
        /\ waiter' = [c \in Calls |-> NoAsk]
        /\ mail' = [q \in Asks |-> "none"]
        /\ close' = [c \in Calls |-> NoClose]
        /\ UNCHANGED row
    BY <1>33 DEF Crash, Spend, vars, database, process, memory, others
  <2> QED
    BY <1>0, <2>1 DEF GoesOn, GoesOnWith, Settles, NoClose, Answer
<1>34. CASE BootExpires
  <2>1. /\ boot.pc = "expire"
        /\ row' = [c \in Calls |-> IF row[c] = Pending THEN "expired" ELSE row[c]]
        /\ boot'.pc = "tidy"
        /\ UNCHANGED <<waiter, mail, close, ask, executor>>
    BY <1>34 DEF BootExpires, vars, database, process, memory, others
  <2> QED
    BY <1>0, <2>1 DEF GoesOn, GoesOnWith, Settles, NoClose, Answer
<1>35. CASE BootRecovers
  <2>1. boot'.pc = "off" /\ UNCHANGED <<row, waiter, mail, close, ask, executor>>
    BY <1>35 DEF BootRecovers, NoBoot, vars, database, process, memory, others
  <2> QED
    BY <1>0, <2>1 DEF GoesOn, GoesOnWith, Settles, NoClose, Answer
<1>36. CASE UNCHANGED vars
  BY <1>0, <1>36 DEF vars, database, process, memory, others
<1>37. ASSUME NEW q \in Asks, Begins(q) \/ Request(q)
      PROVE  Known' /\ Aimed' /\ Held' /\ Sleeping' /\ Faithful' /\ Rebooting'
  BY <1>37, <1>9, <1>10, <1>11, <1>12, <1>13, <1>14, <1>15, <1>16, <1>17, <1>18, <1>19,
     <1>20, <1>21, <1>22, <1>23 DEF Request
<1>38. ASSUME NEW k \in Calls, Resolves(k) \/ Lapses(k) \/ Expires(k) \/ SweepCancels(k)
   \/ Closing(k) \/ BootTidies(k)
      PROVE  Known' /\ Aimed' /\ Held' /\ Sleeping' /\ Faithful' /\ Rebooting'
  BY <1>38, <1>24, <1>25, <1>26, <1>27, <1>28, <1>29, <1>30, <1>31, <1>32 DEF Closing
<1> QED
  BY <1>1, <1>2, <1>3, <1>4, <1>5, <1>6, <1>7, <1>8, <1>33, <1>34, <1>35, <1>36, <1>37,
     <1>38 DEF Next, Stopping, Booting

-----------------------------------------------------------------------------
LEMMA InitIInv == Init => IInv
BY ApprovalAssumption DEF Init, IInv, TypeOK, Bound, Known, Aimed, Held, Sleeping,
   Faithful, Rebooting, Runs, Idle, NoClose, NoStop, NoBoot, NoAsk, Pending, Ends,
   Active, Status, AskPcs, Registered, Created, Finished, Settled, Of

LEMMA StepIInv == IInv /\ [Next]_vars => IInv'
BY StepTypes, StepWaiters DEF IInv

(* The inductive invariant is one. *)
THEOREM Invariance == Spec => []IInv
BY InitIInv, StepIInv, PTL DEF Spec

(* Every variable keeps its type. *)
THEOREM TypesHold == Spec => []TypeOK
<1>1. IInv => TypeOK  BY DEF IInv
<1> QED  BY <1>1, Invariance, PTL

(* A request that waits for its answer is woken: it has one, or the row is *)
(* pending and its sender is in WAITERS, or whoever settled the row has    *)
(* still to take the sender out (request_and_wait against resolve,         *)
(* finish_request and a second request about the same call).               *)
THEOREM NobodySleepsThrough == Spec => []NoLostWakeup
<1>1. IInv => NoLostWakeup
  BY DEF IInv, Sleeping, NoLostWakeup
<1> QED  BY <1>1, Invariance, PTL

(* The option an executor is handed is the one the row records, and the    *)
(* row keeps it (create_or_find, select, finish_pending).                  *)
THEOREM AnswersAreRecorded == Spec => []AnswerIsSelected
<1>1. IInv => AnswerIsSelected
  BY DEF IInv, Faithful, AnswerIsSelected
<1> QED  BY <1>1, Invariance, PTL


-----------------------------------------------------------------------------
(* One request at a time.  An executor that asks for one permission after  *)
(* the other has one request under way in a run, so nobody but a stop or   *)
(* the end of the run moves the delivery between the reading and the       *)
(* writing of the bridge.                                                  *)

OneByOne == "parallel" \notin Events

Begun == \A q \in Asks : ask[q].pc # "off" => Home(q) <= run

Alone ==
  \A p, q \in Asks : p # q /\ Home(p) = Home(q) =>
      ask[p].pc \in Finished \/ ask[q].pc \in Finished

\* A request about to write has read the delivery as it still is, or it has
\* been stopped, ended or requeued since.
Unmoved(q, status) ==
  \/ delivery[Home(q)] = [status |-> status, rev |-> ask[q].rev]
  \/ delivery[Home(q)].status \notin {"running", "waiting"}

OnTime ==
  \A q \in Asks : /\ ask[q].pc = "entering" => Unmoved(q, "running")
                  /\ ask[q].pc = "leaving" => Unmoved(q, "waiting")

Unstarted == \A q \in Asks : ask[q].pc = "off" => ask[q].out = "none"

\* How a step moves a request.
Steady(q) ==
  \/ ask'[q] = ask[q]
  \/ Begins(q)
  \/ ask[q].pc \notin Finished /\ ask'[q].pc # "off"

LEMMA RequestsMove ==
  ASSUME IInv, [Next]_vars, NEW p \in Asks
  PROVE  Steady(p)
<1>0. ask \in [Asks -> AskRecord]
  BY DEF IInv, TypeOK, AskRecord, Outs
<1> USE <1>0 DEF Steady, AskRecord, GoesOn, GoesOnWith, Finished
<1>1. CASE Bind \/ Finalize \/ Inactive \/ StopReads \/ StopWrites \/ StopTells
           \/ SweepBegins \/ BootExpires \/ BootRecovers \/ UNCHANGED vars
  BY <1>1 DEF Bind, Finalize, Inactive, StopReads, StopWrites, StopTells, SweepBegins,
     BootExpires, BootRecovers, vars
<1>2. CASE ExecutorEnds
  BY <1>2 DEF ExecutorEnds, Drops
<1>3. CASE Crash
  BY <1>3 DEF Crash
<1>4. ASSUME NEW q \in Asks, Begins(q)
      PROVE  Steady(p)
  BY <1>4 DEF Begins
<1>5. ASSUME NEW q \in Asks, EnterReads(q) \/ LeaveReads(q)
      PROVE  Steady(p)
  BY <1>5 DEF EnterReads, LeaveReads, Reads
<1>6. ASSUME NEW q \in Asks, EnterWrites(q) \/ LeaveWrites(q)
      PROVE  Steady(p)
  BY <1>6 DEF EnterWrites, LeaveWrites, Writes
<1>7. ASSUME NEW q \in Asks, Creates(q) \/ Notifies(q) \/ Registers(q) \/ Marks(q)
      PROVE  Steady(p)
  BY <1>7 DEF Creates, Notifies, Registers, Marks
<1>8. ASSUME NEW q \in Asks, Rechecks(q) \/ Tidies(q) \/ Announces(q)
      PROVE  Steady(p)
  BY <1>8 DEF Rechecks, Tidies, Announces
<1>9. ASSUME NEW q \in Asks, Receives(q) \/ Withdraws(q) \/ Withdrawn(q)
      PROVE  Steady(p)
  BY <1>9 DEF Receives, Withdraws, Withdrawn
<1>10. ASSUME NEW k \in Calls, Resolves(k) \/ Lapses(k) \/ Expires(k) \/ SweepCancels(k)
       \/ Closing(k) \/ BootTidies(k)
      PROVE  Steady(p)
  BY <1>10 DEF Resolves, Lapses, Expires, SweepCancels, Closing, Wakes, Counts,
     Restores,
     Archives, BootTidies
<1> QED
  BY <1>1, <1>2, <1>3, <1>4, <1>5, <1>6, <1>7, <1>8, <1>9, <1>10
  DEF Next, Stopping, Booting, Request

LEMMA RunsGoUp ==
  ASSUME IInv, [Next]_vars
  PROVE  run' = run \/ Bind
BY DEF Next, Stopping, Booting, Request, Closing, Finalize, Inactive, StopReads,
   StopWrites,
   StopTells, SweepBegins, BootExpires, BootRecovers, vars, ExecutorEnds, Crash,
   Begins, EnterReads, LeaveReads, Reads, EnterWrites, LeaveWrites, Writes, Creates,
   Notifies, Registers, Marks, Rechecks, Tidies, Announces, Receives, Withdraws,
   Withdrawn, Resolves, Lapses, Expires, SweepCancels, Wakes, Counts, Restores,
      Archives,
   BootTidies, process

LEMMA BegunHolds ==
  ASSUME IInv, Begun, [Next]_vars
  PROVE  Begun'
<1>1. run \in Nat /\ run' >= run
  <2>1. run \in Nat
    BY DEF IInv, TypeOK
  <2> QED  BY <2>1, RunsGoUp DEF Bind
<1>2. SUFFICES ASSUME NEW q \in Asks, ask'[q].pc # "off"
               PROVE  Home(q) <= run'
  BY DEF Begun, Home
<1>3. Home(q) \in Nat
  BY ApprovalAssumption DEF Home, Runs
<1>4. ask[q].pc # "off" \/ Home(q) = run
  <2>1. Begins(q) => Home(q) = run
    BY DEF Begins
  <2>2. Steady(q)
    BY RequestsMove
  <2> QED  BY <1>2, <2>1, <2>2 DEF Steady, Finished
<1>5. Home(q) <= run
  BY <1>1, <1>3, <1>4 DEF Begun
<1>6. run' \in Nat
  BY <1>1, RunsGoUp DEF Bind
<1> QED  BY <1>1, <1>3, <1>5, <1>6

LEMMA AloneHolds ==
  ASSUME OneByOne, IInv, Alone, [Next]_vars
  PROVE  Alone'
<1>1. SUFFICES ASSUME NEW p \in Asks, NEW q \in Asks, p # q, Home(p) = Home(q),
                      ask'[p].pc \notin Finished, ask'[q].pc \notin Finished
               PROVE  FALSE
  BY DEF Alone, Home
<1>2. ASSUME NEW a \in Asks, NEW b \in Asks, a # b, Home(a) = Home(b), Begins(a),
             ask'[b].pc \notin Finished
      PROVE  FALSE
  <2>1. ask[b].pc \in Finished
    BY <1>2 DEF Begins, OneByOne
  <2>2. ask'[b] = ask[b]
    BY <1>2 DEF Begins, GoesOn, IInv, TypeOK
  <2> QED  BY <1>2, <2>1, <2>2
<1>3. ask[p].pc \notin Finished \/ Begins(p)
  BY <1>1, RequestsMove DEF Steady
<1>4. ask[q].pc \notin Finished \/ Begins(q)
  BY <1>1, RequestsMove DEF Steady
<1> QED  BY <1>1, <1>2, <1>3, <1>4 DEF Alone

\* How a step moves a delivery that is not the one it is bound to anew.
Moves(r) ==
  \/ delivery'[r] = delivery[r]
  \/ delivery'[r].status \notin {"running", "waiting"}
  \/ Bind /\ r = run + 1
  \/ \E q \in Asks : Home(q) = r /\ (EnterWrites(q) \/ LeaveWrites(q))

LEMMA DeliveriesMove ==
  ASSUME IInv, [Next]_vars, NEW r \in Runs
  PROVE  Moves(r)
<1>0. delivery \in [Runs -> [status : Status, rev : Nat]]
  BY DEF IInv, TypeOK
<1> USE <1>0 DEF Moves
<1>1. CASE Bind
  BY <1>1 DEF Bind
<1>2. CASE Finalize
  BY <1>2 DEF Finalize
<1>3. CASE StopWrites
  BY <1>3 DEF StopWrites
<1>4. CASE BootRecovers
  BY <1>4 DEF BootRecovers
<1>5. CASE Inactive \/ StopReads \/ StopTells \/ SweepBegins \/ BootExpires
           \/ ExecutorEnds \/ Crash \/ UNCHANGED vars
  BY <1>5 DEF Inactive, StopReads, StopTells, SweepBegins, BootExpires, ExecutorEnds,
     Crash, vars, database
<1>6. ASSUME NEW q \in Asks, EnterWrites(q) \/ LeaveWrites(q)
      PROVE  Moves(r)
  <2>1. CASE Home(q) = r
    BY <1>6, <2>1
  <2>2. CASE Home(q) # r
    BY <1>6, <2>2 DEF EnterWrites, LeaveWrites, Writes
  <2> QED  BY <2>1, <2>2
<1>7. ASSUME NEW q \in Asks, Begins(q) \/ EnterReads(q) \/ LeaveReads(q) \/ Creates(q)
             \/ Notifies(q) \/ Registers(q) \/ Marks(q) \/ Rechecks(q) \/ Tidies(q)
             \/ Announces(q) \/ Receives(q) \/ Withdraws(q) \/ Withdrawn(q)
      PROVE  Moves(r)
  BY <1>7 DEF Begins, EnterReads, LeaveReads, Reads, Creates, Notifies, Registers,
     Marks,
     Rechecks, Tidies, Announces, Receives, Withdraws, Withdrawn, database
<1>8. ASSUME NEW k \in Calls, Resolves(k) \/ Lapses(k) \/ Expires(k) \/ SweepCancels(k)
       \/ Closing(k) \/ BootTidies(k)
      PROVE  Moves(r)
  BY <1>8 DEF Resolves, Lapses, Expires, SweepCancels, Closing, Wakes, Counts, Restores,
     Archives, BootTidies, database
<1> QED
  BY <1>1, <1>2, <1>3, <1>4, <1>5, <1>6, <1>7, <1>8
  DEF Next, Stopping, Booting, Request

\* How a request comes to a write, and how it loses.
Decides(q) ==
  /\ ask'[q].pc = "entering" =>
       \/ ask'[q] = ask[q]
       \/ delivery'[Home(q)] = [status |-> "running", rev |-> ask'[q].rev]
  /\ ask'[q].pc = "leaving" =>
       \/ ask'[q] = ask[q]
       \/ delivery'[Home(q)] = [status |-> "waiting", rev |-> ask'[q].rev]
  /\ ask'[q].out = "moved" =>
       \/ ask[q].out = "moved"
       \/ /\ ask[q].pc = "entering"
          /\ delivery[Home(q)] # [status |-> "running", rev |-> ask[q].rev]
          /\ UNCHANGED delivery
       \/ /\ ask[q].pc = "leaving"
          /\ delivery[Home(q)] # [status |-> "waiting", rev |-> ask[q].rev]
          /\ UNCHANGED delivery

LEMMA RequestsDecide ==
  ASSUME IInv, [Next]_vars, NEW p \in Asks
  PROVE  Decides(p)
<1>0. /\ ask \in [Asks -> AskRecord]
      /\ delivery \in [Runs -> [status : Status, rev : Nat]]
      /\ \A q \in Asks : Home(q) \in Runs
      /\ \A x : Answer(x) # "moved"
      /\ "moved" \notin Options
  BY ApprovalAssumption DEF IInv, TypeOK, AskRecord, Outs, Home, Answer
<1> USE <1>0 DEF Decides, AskRecord, GoesOn, GoesOnWith
<1>1. CASE Bind \/ Finalize \/ Inactive \/ StopReads \/ StopWrites \/ StopTells
           \/ SweepBegins \/ BootExpires \/ BootRecovers \/ UNCHANGED vars
  BY <1>1 DEF Bind, Finalize, Inactive, StopReads, StopWrites, StopTells, SweepBegins,
     BootExpires, BootRecovers, vars
<1>2. CASE ExecutorEnds
  BY <1>2 DEF ExecutorEnds, Drops
<1>3. CASE Crash
  BY <1>3 DEF Crash
<1>4. ASSUME NEW q \in Asks, EnterReads(q)
      PROVE  Decides(p)
  BY <1>4 DEF EnterReads, Reads, database
<1>5. ASSUME NEW q \in Asks, LeaveReads(q)
      PROVE  Decides(p)
  BY <1>5 DEF LeaveReads, Reads, database
<1>6. ASSUME NEW q \in Asks, EnterWrites(q)
      PROVE  Decides(p)
  BY <1>6 DEF EnterWrites, Writes
<1>7. ASSUME NEW q \in Asks, LeaveWrites(q)
      PROVE  Decides(p)
  BY <1>7 DEF LeaveWrites, Writes
<1>8. ASSUME NEW q \in Asks, Begins(q) \/ Creates(q) \/ Notifies(q) \/ Registers(q)
             \/ Marks(q)
      PROVE  Decides(p)
  BY <1>8 DEF Begins, Creates, Notifies, Registers, Marks
<1>9. ASSUME NEW q \in Asks, Rechecks(q) \/ Tidies(q) \/ Announces(q) \/ Receives(q)
             \/ Withdraws(q) \/ Withdrawn(q)
      PROVE  Decides(p)
  BY <1>9 DEF Rechecks, Tidies, Announces, Receives, Withdraws, Withdrawn
<1>10. ASSUME NEW k \in Calls, Resolves(k) \/ Lapses(k) \/ Expires(k) \/ SweepCancels(k)
       \/ Closing(k) \/ BootTidies(k)
      PROVE  Decides(p)
  BY <1>10 DEF Resolves, Lapses, Expires, SweepCancels, Closing, Wakes, Counts,
     Restores,
     Archives, BootTidies
<1> QED
  BY <1>1, <1>2, <1>3, <1>4, <1>5, <1>6, <1>7, <1>8, <1>9, <1>10
  DEF Next, Stopping, Booting, Request

\* A write of the bridge belongs to the only request under way in its run.
LEMMA OthersRest ==
  ASSUME OneByOne, IInv, Alone, Begun, [Next]_vars, NEW q \in Asks,
         ask[q].pc \in {"entering", "leaving"} \/ ask[q].out = "moved",
         Unstarted
  PROVE  \/ delivery'[Home(q)] = delivery[Home(q)]
         \/ delivery'[Home(q)].status \notin {"running", "waiting"}
         \/ ask[q].out = "moved"
         \/ EnterWrites(q) \/ LeaveWrites(q)
<1>1. Home(q) \in Runs /\ run \in Nat
  BY ApprovalAssumption DEF Home, IInv, TypeOK
<1>2. Moves(Home(q))
  BY <1>1, DeliveriesMove
<1>3. CASE Bind /\ Home(q) = run + 1
  <2>1. ask[q].pc # "off" \/ ask[q].out = "moved"
    OBVIOUS
  <2>2. ask[q].pc # "off"
    BY <2>1 DEF Unstarted
  <2>3. Home(q) <= run
    BY <2>2 DEF Begun
  <2> QED  BY <1>1, <1>3, <2>3
<1>4. ASSUME NEW p \in Asks, Home(p) = Home(q), EnterWrites(p) \/ LeaveWrites(p), p # q,
             ask[q].out # "moved"
      PROVE  FALSE
  <2>1. ask[p].pc \notin Finished
    BY <1>4 DEF EnterWrites, LeaveWrites, Finished
  <2>2. ask[q].pc \notin Finished
    BY <1>4 DEF Finished
  <2> QED  BY <1>4, <2>1, <2>2 DEF Alone
<1> QED  BY <1>2, <1>3, <1>4 DEF Moves

LEMMA UnstartedHolds ==
  ASSUME IInv, Unstarted, [Next]_vars
  PROVE  Unstarted'
<1>1. SUFFICES ASSUME NEW q \in Asks, ask'[q].pc = "off"
               PROVE  ask'[q].out = "none"
  BY DEF Unstarted
<1>2. Begins(q) => ask'[q].pc = "enter"
  BY DEF Begins, GoesOn, IInv, TypeOK
<1>3. ask'[q] = ask[q]
  BY <1>1, <1>2, RequestsMove DEF Steady
<1> QED  BY <1>1, <1>3 DEF Unstarted

LEMMA OnTimeHolds ==
  ASSUME OneByOne, IInv, Alone, Begun, Unstarted, OnTime, OnlyStopsWin, [Next]_vars
  PROVE  OnTime' /\ OnlyStopsWin'
<1>0. /\ ask \in [Asks -> AskRecord]
      /\ delivery \in [Runs -> [status : Status, rev : Nat]]
      /\ \A q \in Asks : Home(q) \in Runs
  BY ApprovalAssumption DEF IInv, TypeOK, AskRecord, Outs, Home
<1>1. SUFFICES ASSUME NEW q \in Asks
               PROVE  /\ ask'[q].pc = "entering" => Unmoved(q, "running")'
                      /\ ask'[q].pc = "leaving" => Unmoved(q, "waiting")'
                      /\ ask'[q].out = "moved" =>
                           delivery'[Home(q)].status \notin {"running", "waiting"}
  BY DEF OnTime, OnlyStopsWin, Home
<1>2. Decides(q)
  BY RequestsDecide
\* What has lost stays lost.
<1>3. ASSUME ask[q].out = "moved"
      PROVE  delivery'[Home(q)].status \notin {"running", "waiting"}
  <2>1. delivery[Home(q)].status \notin {"running", "waiting"}
    BY <1>3 DEF OnlyStopsWin
  <2>2. Moves(Home(q))
    BY <1>0, DeliveriesMove
  <2>3. ~(Bind /\ Home(q) = run + 1)
    <3>1. Home(q) <= run
      BY <1>3 DEF Begun, Unstarted
    <3>2. Home(q) \in Nat /\ run \in Nat
      BY <1>0 DEF Runs, IInv, TypeOK
    <3> QED  BY <3>1, <3>2
  <2>4. ASSUME NEW p \in Asks, Home(p) = Home(q), EnterWrites(p) \/ LeaveWrites(p)
        PROVE  delivery' = delivery
    BY <2>1, <2>4 DEF EnterWrites, LeaveWrites, Writes
  <2> QED  BY <2>1, <2>2, <2>3, <2>4 DEF Moves
<1>4. CASE ask'[q] = ask[q]
  <2>1. /\ ask[q].pc = "entering" => Unmoved(q, "running")
        /\ ask[q].pc = "leaving" => Unmoved(q, "waiting")
    BY DEF OnTime
  <2>2. (EnterWrites(q) \/ LeaveWrites(q)) => ask'[q].pc \notin {"entering", "leaving"}
    BY <1>0 DEF EnterWrites, LeaveWrites, Writes, GoesOn, GoesOnWith, AskRecord
  <2>3. ask[q].pc \in {"entering", "leaving"} =>
          \/ delivery'[Home(q)] = delivery[Home(q)]
          \/ delivery'[Home(q)].status \notin {"running", "waiting"}
    BY <1>3, <1>4, <2>2, OthersRest
  <2>4. ask'[q].pc = "entering" => Unmoved(q, "running")'
    BY <1>4, <2>1, <2>3 DEF Unmoved, Home
  <2>5. ask'[q].pc = "leaving" => Unmoved(q, "waiting")'
    BY <1>4, <2>1, <2>3 DEF Unmoved, Home
  <2> QED  BY <1>3, <1>4, <2>4, <2>5
<1>5. CASE ask'[q] # ask[q]
  <2>1. ask'[q].pc = "entering" => Unmoved(q, "running")'
    BY <1>2, <1>5 DEF Decides, Unmoved, Home
  <2>2. ask'[q].pc = "leaving" => Unmoved(q, "waiting")'
    BY <1>2, <1>5 DEF Decides, Unmoved, Home
  <2>3. ASSUME ask'[q].out = "moved", ask[q].out # "moved"
        PROVE  delivery'[Home(q)].status \notin {"running", "waiting"}
    BY <1>2, <2>3 DEF Decides, OnTime, Unmoved
  <2> QED  BY <1>3, <2>1, <2>2, <2>3
<1> QED  BY <1>4, <1>5

(* A callback of the bridge fails only against a stop, or because its run  *)
(* has ended or gone back to the queue, as long as the executor asks for   *)
(* one permission at a time (transition_delivery).  Two at once can both   *)
(* read the delivery running, and one of them loses to the other.          *)
THEOREM StopsAloneWin == OneByOne => (Spec => []OnlyStopsWin)
<1> DEFINE J == IInv /\ Begun /\ Unstarted /\ Alone /\ OnTime /\ OnlyStopsWin
<1>1. SUFFICES ASSUME OneByOne
               PROVE  Spec => []OnlyStopsWin
  OBVIOUS
<1>2. Init => J
  <2>1. ASSUME Init
        PROVE  Begun /\ Unstarted /\ Alone /\ OnTime /\ OnlyStopsWin
    BY <2>1 DEF Init, Begun, Unstarted, Alone, OnTime, OnlyStopsWin, Idle, Finished
  <2> QED  BY <2>1, InitIInv
<1>3. J /\ [Next]_vars => J'
  BY <1>1, StepIInv, BegunHolds, UnstartedHolds, AloneHolds, OnTimeHolds
<1>4. J => OnlyStopsWin
  OBVIOUS
<1> HIDE DEF J
<1> QED  BY <1>2, <1>3, <1>4, PTL DEF Spec

-----------------------------------------------------------------------------
(* What is shown as open.  Without agents whose requests end with their    *)
(* runtime, and without crashes, whoever leaves an inbox item or a card    *)
(* open owes its closing to somebody who is still under way.               *)

Kept == "own" \notin Events

Early == {"off", "enter", "entering", "create", "notify", "register"}

\* Nobody answers a request that has not registered.
Fresh ==
  \A q \in Asks : ask[q].pc \in Early => mail[q] = "none" /\ waiter[Of(q)] # q

\* A sender in WAITERS is unused, and its request is under way or about to be
\* woken.
Entry ==
  \A k \in Calls : waiter[k] # NoAsk =>
    /\ mail[waiter[k]] = "none"
    /\ ask[waiter[k]].pc \in Registered \cup {"tidy"} \/ close[k].pc = "wake"

LEMMA RequestsAge ==
  ASSUME IInv, [Next]_vars, NEW p \in Asks, ask'[p].pc \in Early
  PROVE  ask[p].pc \in Early
<1>0. ask \in [Asks -> AskRecord]
  BY DEF IInv, TypeOK, AskRecord, Outs
<1> USE <1>0 DEF Early, AskRecord, GoesOn, GoesOnWith, Finished
<1>1. CASE Bind \/ Finalize \/ Inactive \/ StopReads \/ StopWrites \/ StopTells
           \/ SweepBegins \/ BootExpires \/ BootRecovers \/ UNCHANGED vars
  BY <1>1 DEF Bind, Finalize, Inactive, StopReads, StopWrites, StopTells, SweepBegins,
     BootExpires, BootRecovers, vars
<1>2. CASE ExecutorEnds
  BY <1>2 DEF ExecutorEnds, Drops
<1>3. CASE Crash
  BY <1>3 DEF Crash
<1>4. ASSUME NEW q \in Asks, Request(q)
      PROVE  ask[p].pc \in Early
  <2>1. CASE EnterReads(q) \/ EnterWrites(q) \/ Creates(q) \/ Notifies(q)
    BY <2>1 DEF EnterReads, Reads, EnterWrites, Writes, Creates, Notifies
  <2>2. CASE Registers(q) \/ Marks(q) \/ Rechecks(q) \/ Tidies(q)
    BY <2>2 DEF Registers, Marks, Rechecks, Tidies
  <2>3. CASE Announces(q) \/ Receives(q) \/ Withdraws(q) \/ Withdrawn(q)
    BY <2>3 DEF Announces, Receives, Withdraws, Withdrawn
  <2>4. CASE LeaveReads(q) \/ LeaveWrites(q)
    BY <2>4 DEF LeaveReads, Reads, LeaveWrites, Writes
  <2> QED  BY <1>4, <2>1, <2>2, <2>3, <2>4 DEF Request
<1>5. ASSUME NEW q \in Asks, Begins(q)
      PROVE  ask[p].pc \in Early
  BY <1>5 DEF Begins
<1>6. ASSUME NEW k \in Calls, Resolves(k) \/ Lapses(k) \/ Expires(k) \/ SweepCancels(k)
       \/ Closing(k) \/ BootTidies(k)
      PROVE  ask[p].pc \in Early
  BY <1>6 DEF Resolves, Lapses, Expires, SweepCancels, Closing, Wakes, Counts, Restores,
     Archives, BootTidies
<1> QED
  BY <1>1, <1>2, <1>3, <1>4, <1>5, <1>6 DEF Next, Stopping, Booting

LEMMA EntryHolds ==
  ASSUME Kept, IInv, Fresh, Entry, [Next]_vars
  PROVE  Fresh' /\ Entry'
<1> USE ApprovalAssumption
<1>0. /\ ask \in [Asks -> AskRecord]
      /\ waiter \in [Calls -> Asks \cup {NoAsk}]
      /\ mail \in [Asks -> {"none", "closed"} \cup Options]
      /\ close \in [Calls -> CloseRecord]
      /\ Aimed /\ Sleeping /\ Known
      /\ \A q \in Asks : Of(q) \in Calls
      /\ NoAsk \notin Asks
  BY DEF IInv, TypeOK, AskRecord, Outs, CloseRecord, ClosePcs, CloseBys, Of
<1>a. \A p \in Asks : ask'[p].pc \in Early => ask[p].pc \in Early
  BY RequestsAge
<1>1. CASE UNCHANGED <<waiter, mail, close, ask>>
  BY <1>1 DEF Fresh, Entry, Of
<1>2. ASSUME NEW k \in Calls, Wakes(k)
      PROVE  Fresh' /\ Entry'
  <2>1. /\ waiter' = [waiter EXCEPT ![k] = NoAsk]
        /\ \A q \in Asks : q # waiter[k] => mail'[q] = mail[q]
        /\ close' = [close EXCEPT ![k].pc = "count"]
        /\ UNCHANGED ask
    BY <1>2 DEF Wakes
  <2>2. Fresh'
    BY <1>0, <2>1 DEF Fresh, Aimed, Of
  <2>3. Entry'
    BY <1>0, <2>1 DEF Entry, Aimed, Of
  <2> QED  BY <2>2, <2>3
<1>3. ASSUME NEW k \in Calls, Counts(k) \/ Restores(k) \/ Archives(k)
      PROVE  Fresh' /\ Entry'
  <2>1. /\ close[k].pc # "wake"
        /\ \A l \in Calls : l # k => close'[l] = close[l]
        /\ UNCHANGED <<ask, waiter, mail>>
    BY <1>0, <1>3 DEF Counts, Restores, Archives
  <2> QED  BY <1>0, <2>1 DEF Fresh, Entry, Of
<1>4. ASSUME NEW k \in Calls, NEW status, NEW by, Settles(k, status, by),
             UNCHANGED <<ask, waiter, mail>>
      PROVE  Fresh' /\ Entry'
  BY <1>0, <1>4 DEF Settles, Fresh, Entry, Of
<1>5. ASSUME NEW q \in Asks, Registers(q)
      PROVE  Fresh' /\ Entry'
  <2>1. CASE waiter[Of(q)] = NoAsk
    <3>1. /\ waiter' = [waiter EXCEPT ![Of(q)] = q]
          /\ ask' = [ask EXCEPT ![q].pc = "mark"]
          /\ ask[q].pc = "register"
          /\ UNCHANGED <<mail, close>>
      BY <1>5, <2>1 DEF Registers, GoesOn
    <3>2. Fresh'
      BY <1>0, <1>a, <3>1 DEF Fresh, Early, AskRecord, Of
    <3>3. Entry'
      BY <1>0, <3>1 DEF Fresh, Entry, Early, AskRecord, Aimed, Registered, Of
    <3> QED  BY <3>2, <3>3
  <2>2. CASE waiter[Of(q)] # NoAsk
    <3>1. /\ ask' = [ask EXCEPT ![q].pc = "leave", ![q].out = "duplicate"]
          /\ ask[q].pc = "register"
          /\ UNCHANGED <<mail, close, waiter>>
      BY <1>5, <2>2 DEF Registers, GoesOnWith
    <3>2. Fresh'
      BY <1>0, <1>a, <3>1 DEF Fresh, Early, AskRecord, Of
    <3>3. Entry'
      BY <1>0, <3>1 DEF Fresh, Entry, Early, AskRecord, Aimed, Registered, Of
    <3> QED  BY <3>2, <3>3
  <2> QED  BY <2>1, <2>2
<1>6. ASSUME NEW q \in Asks, Tidies(q)
      PROVE  Fresh' /\ Entry'
  <2>1. /\ waiter' = [waiter EXCEPT ![Of(q)] = NoAsk]
        /\ ask' = [ask EXCEPT ![q].pc = "leave"]
        /\ UNCHANGED <<mail, close>>
    BY <1>6 DEF Tidies, GoesOn
  <2>2. Fresh'
    BY <1>0, <1>a, <2>1 DEF Fresh, Early, AskRecord, Of
  <2>3. Entry'
    BY <1>0, <2>1 DEF Entry, AskRecord, Aimed, Of
  <2> QED  BY <2>2, <2>3
<1>7. ASSUME NEW q \in Asks, Receives(q) \/ Withdraws(q)
      PROVE  Fresh' /\ Entry'
  <2>1. /\ \A p \in Asks : p # q => ask'[p] = ask[p]
        /\ ask[q].pc = "wait" /\ ask'[q].pc \notin Early
        /\ UNCHANGED <<mail, waiter>>
        /\ \A l \in Calls : close'[l] = close[l] \/ close'[l].pc = "wake"
    <3>1. CASE Receives(q)
      BY <1>0, <3>1 DEF Receives, GoesOnWith, Early, AskRecord, memory
    <3>2. CASE Withdraws(q) /\ row[Of(q)] = Pending
      BY <1>0, <3>2 DEF Withdraws, GoesOn, Settles, Early, AskRecord, CloseRecord
    <3>3. CASE Withdraws(q) /\ row[Of(q)] # Pending
      BY <1>0, <3>3 DEF Withdraws, GoesOnWith, Early, AskRecord, CloseRecord
    <3> QED  BY <1>7, <3>1, <3>2, <3>3
  <2>2. Fresh'
    BY <1>0, <1>a, <2>1 DEF Fresh, Of
  <2>3. ASSUME NEW k \in Calls, waiter[k] = q
        PROVE  mail[q] = "none" /\ close'[k].pc = "wake"
    <3>1. mail[q] = "none" /\ Of(q) = k
      BY <1>0, <2>3 DEF Entry, Aimed
    <3>2. row[k] = Pending \/ close[k].pc = "wake"
      BY <1>0, <2>1, <3>1 DEF Sleeping
    <3>3. CASE close[k].pc = "wake"
      BY <2>1, <3>1, <3>3
    <3>4. CASE row[k] = Pending
      BY <1>0, <1>7, <3>1, <3>4 DEF Receives, Withdraws, Settles
    <3> QED  BY <3>1, <3>2, <3>3, <3>4
  <2>4. Entry'
    BY <1>0, <2>1, <2>3 DEF Entry
  <2> QED  BY <2>2, <2>4
<1>8. ASSUME NEW q \in Asks, ask'[q].pc \in Early \cup Registered \cup {"tidy"}
                               \/ ask[q].pc \notin Registered \cup {"tidy"},
             \A p \in Asks : p # q => ask'[p] = ask[p],
             UNCHANGED <<waiter, mail, close>>
      PROVE  Fresh' /\ Entry'
  <2>1. Fresh'
    BY <1>0, <1>a, <1>8 DEF Fresh, Of
  <2>2. Entry'
    BY <1>0, <1>a, <1>8 DEF Entry, Early, Registered
  <2> QED  BY <2>1, <2>2
<1>9. CASE Crash
  <2>1. /\ waiter' = [k \in Calls |-> NoAsk]
        /\ mail' = [q \in Asks |-> "none"]
    BY <1>9 DEF Crash
  <2> QED  BY <1>0, <2>1 DEF Fresh, Entry, Of
<1>10. ASSUME NEW q \in Asks, Begins(q) \/ EnterReads(q) \/ EnterWrites(q)
              \/ Creates(q) \/ Notifies(q) \/ Marks(q) \/ Rechecks(q) \/ Announces(q)
              \/ Withdrawn(q) \/ LeaveReads(q) \/ LeaveWrites(q)
       PROVE  Fresh' /\ Entry'
  <2>1. \A p \in Asks : p # q => ask'[p] = ask[p]
    BY <1>0, <1>10 DEF Begins, EnterReads, Reads, EnterWrites, Writes, Creates,
       Notifies,
       Marks, Rechecks, Announces, Withdrawn, LeaveReads, LeaveWrites, GoesOn,
          GoesOnWith
  <2>2. \/ ask'[q].pc \in Early \cup Registered \cup {"tidy"}
        \/ ask[q].pc \notin Registered \cup {"tidy"}
    BY <1>0, <1>10 DEF Begins, EnterReads, Reads, EnterWrites, Writes, Creates,
       Notifies,
       Marks, Rechecks, Announces, Withdrawn, LeaveReads, LeaveWrites, GoesOn,
          GoesOnWith,
       Registered, AskRecord
  <2>3. UNCHANGED <<waiter, mail, close>>
    BY <1>10 DEF Begins, EnterReads, Reads, EnterWrites, Writes, Creates, Notifies,
       Marks, Rechecks, Announces, Withdrawn, LeaveReads, LeaveWrites, memory
  <2> QED  BY <1>8, <2>1, <2>2, <2>3
<1>11. ASSUME NEW k \in Calls, Resolves(k) \/ Lapses(k) \/ Expires(k) \/ SweepCancels(k)
              \/ BootTidies(k)
       PROVE  Fresh' /\ Entry'
  BY <1>1, <1>4, <1>11 DEF Resolves, Lapses, Expires, SweepCancels, BootTidies, memory
<1>12. CASE Bind \/ Finalize \/ Inactive \/ StopReads \/ StopWrites \/ StopTells
            \/ SweepBegins \/ BootExpires \/ BootRecovers \/ ExecutorEnds \/ UNCHANGED vars
  BY <1>1, <1>12 DEF Bind, Finalize, Inactive, StopReads, StopWrites, StopTells,
     SweepBegins, BootExpires, BootRecovers, ExecutorEnds, Kept, vars, memory
<1> QED
  BY <1>2, <1>3, <1>5, <1>6, <1>7, <1>9, <1>10, <1>11, <1>12
  DEF Next, Stopping, Booting, Request, Closing

NoCrash == "crash" \notin Events

\* Two requests about one tool call do not overlap.
OneEach == OneByOne \/ \A p, q \in Asks : Of(p) = Of(q) => p = q

Apart ==
  \A p, q \in Asks : p # q /\ Of(p) = Of(q) =>
      ask[p].pc \in Finished \/ ask[q].pc \in Finished

LEMMA ApartHolds ==
  ASSUME OneEach, IInv, Apart, [Next]_vars
  PROVE  Apart'
<1>1. CASE \A p, q \in Asks : Of(p) = Of(q) => p = q
  BY <1>1 DEF Apart, Of
<1>2. CASE OneByOne
  <2>1. SUFFICES ASSUME NEW p \in Asks, NEW q \in Asks, p # q, Of(p) = Of(q),
                        ask'[p].pc \notin Finished, ask'[q].pc \notin Finished
                 PROVE  FALSE
    BY DEF Apart, Of
  <2>2. ASSUME NEW a \in Asks, NEW b \in Asks, a # b, Of(a) = Of(b), Begins(a),
               ask'[b].pc \notin Finished
        PROVE  FALSE
    <3>1. ask[b].pc \in Finished
      BY <1>2, <2>2 DEF Begins, OneByOne, Home, Of
    <3>2. ask'[b] = ask[b]
      BY <2>2 DEF Begins, GoesOn, IInv, TypeOK
    <3> QED  BY <2>2, <3>1, <3>2
  <2>3. ask[p].pc \notin Finished \/ Begins(p)
    BY <2>1, RequestsMove DEF Steady
  <2>4. ask[q].pc \notin Finished \/ Begins(q)
    BY <2>1, RequestsMove DEF Steady
  <2> QED  BY <2>1, <2>2, <2>3, <2>4 DEF Apart
<1> QED  BY <1>1, <1>2 DEF OneEach

LEMMA ServingHolds ==
  ASSUME NoCrash, Serving, [Next]_vars
  PROVE  Serving'
BY DEF NoCrash, Serving, Spend, NoBoot, Next, Stopping, Booting, Request, Closing,
   Bind, Finalize, Inactive, StopReads, StopWrites,
   StopTells, SweepBegins, BootExpires, BootRecovers, vars, ExecutorEnds, Crash,
   Begins, EnterReads, LeaveReads, Reads, EnterWrites, LeaveWrites, Writes, Creates,
   Notifies, Registers, Marks, Rechecks, Tidies, Announces, Receives, Withdraws,
   Withdrawn, Resolves, Lapses, Expires, SweepCancels, Wakes, Counts, Restores,
   Archives, BootTidies, others

Late == {"register", "mark", "recheck", "tidy"}

\* The item of a settled row: who settled it is still closing it, or a request
\* that may have opened it late will read the row and archive the item.
ItemOwed ==
  \A k \in Calls : inbox[k] = "open" =>
    /\ row[k] # "none"
    /\ \/ row[k] = Pending
       \/ close[k].pc # "off"
       \/ \E q \in Asks : Of(q) = k /\ ask[q].pc \in Late

\* The card of a settled row: who settled it is still closing it.
CardOwed ==
  \A k \in Calls : card[k] = "open" =>
    row[k] # "none" /\ (row[k] = Pending \/ close[k].pc # "off")

\* How a step closes.
Closes(k) ==
  /\ row[k] # "none" => row'[k] # "none"
  /\ row[k] = Pending /\ row'[k] # Pending => close'[k].pc # "off"
  /\ row[k] \notin {"none", Pending} => row'[k] = row[k]
  /\ close[k].pc # "off" /\ close'[k].pc = "off" => inbox'[k] # "open" /\ card'[k] # "open"

LEMMA StepCloses ==
  ASSUME Kept, Serving, NoCrash, IInv, [Next]_vars, NEW l \in Calls
  PROVE  Closes(l)
<1> USE ApprovalAssumption
<1>0. /\ close \in [Calls -> CloseRecord] /\ Known
      /\ row \in [Calls -> {"none", Pending} \cup Ends \cup Options]
      /\ inbox \in [Calls -> {"none", "open", "archived"}]
      /\ card \in [Calls -> {"none", "open", "closed"}]
      /\ \A q \in Asks : Of(q) \in Calls
  BY DEF IInv, TypeOK, CloseRecord, ClosePcs, CloseBys, Of
<1> USE <1>0 DEF Closes
<1>1. CASE UNCHANGED <<row, close>>
  BY <1>1
<1>2. ASSUME NEW k \in Calls, NEW status, status \notin {"none", Pending}, NEW by,
             row[k] = Pending, Settles(k, status, by)
      PROVE  Closes(l)
  BY <1>2 DEF Settles, Known, Settled
<1>3. ASSUME NEW k \in Calls, Wakes(k) \/ Counts(k) \/ Restores(k)
      PROVE  Closes(l)
  <2>1. row' = row
    BY <1>3 DEF Wakes, Counts, Restores, database
  <2>2. PICK e \in {"count", "archive", "restore"} : close' = [close EXCEPT ![k].pc = e]
    BY <1>3 DEF Wakes, Counts, Restores
  <2>3. close[l] \in CloseRecord /\ close'[l].pc \in {close[l].pc, e}
    BY <2>2 DEF CloseRecord
  <2> QED  BY <2>1, <2>2, <2>3
<1>4. ASSUME NEW k \in Calls, Archives(k)
      PROVE  Closes(l)
  BY <1>4 DEF Archives, Archived, NoClose
<1>5. ASSUME NEW q \in Asks, Creates(q)
      PROVE  Closes(l)
  BY <1>5 DEF Creates, memory, Pending
<1>6. ASSUME NEW q \in Asks, Withdraws(q)
      PROVE  Closes(l)
  BY <1>1, <1>2, <1>6 DEF Withdraws, Pending
<1>7. ASSUME NEW k \in Calls, Resolves(k) \/ Lapses(k) \/ Expires(k) \/ SweepCancels(k)
      PROVE  Closes(l)
  <2>1. \A o \in Options : o \notin {"none", Pending}
    BY DEF Pending
  <2> QED
    BY <1>1, <1>2, <1>7, <2>1 DEF Resolves, Lapses, Expires, SweepCancels, memory,
       Pending
<1>8. ASSUME NEW q \in Asks, Begins(q) \/ EnterReads(q) \/ EnterWrites(q) \/ Notifies(q)
             \/ Registers(q) \/ Marks(q) \/ Rechecks(q) \/ Tidies(q) \/ Announces(q)
             \/ Receives(q) \/ Withdrawn(q) \/ LeaveReads(q) \/ LeaveWrites(q)
      PROVE  Closes(l)
  BY <1>1, <1>8 DEF Begins, EnterReads, Reads, EnterWrites, Writes, Notifies, Registers,
     Marks, Rechecks, Tidies, Announces, Receives, Withdrawn, LeaveReads, LeaveWrites,
     database, memory
<1>9. CASE Bind \/ Finalize \/ Inactive \/ StopReads \/ StopWrites \/ StopTells
            \/ SweepBegins \/ BootRecovers \/ ExecutorEnds \/ UNCHANGED vars
  BY <1>1, <1>9 DEF Bind, Finalize, Inactive, StopReads, StopWrites, StopTells,
     SweepBegins, BootRecovers, ExecutorEnds, Kept, vars, database, memory
<1>10. ~Crash /\ ~BootExpires /\ \A k \in Calls : ~BootTidies(k)
  BY DEF Crash, Spend, NoCrash, Serving, BootExpires, BootTidies
<1> QED
  BY <1>3, <1>4, <1>5, <1>6, <1>7, <1>8, <1>9, <1>10
  DEF Next, Stopping, Booting, Request, Closing

\* Where items and cards are opened, and how a request that may have opened an
\* item late goes on.
Opens(k) ==
  /\ card'[k] = "open" =>
       \/ card[k] = "open"
       \/ \E q \in Asks : Of(q) = k /\ Announces(q) /\ waiter[k] # NoAsk
  /\ inbox'[k] = "open" =>
       \/ inbox[k] = "open"
       \/ \E q \in Asks : Of(q) = k /\ Notifies(q)

LateGoesOn(q) ==
  ask[q].pc \in Late =>
    \/ ask'[q].pc \in Late
    \/ row[Of(q)] = Pending
    \/ inbox'[Of(q)] # "open"
    \/ Registers(q) /\ waiter[Of(q)] # NoAsk

LEMMA StepOpens ==
  ASSUME Serving, NoCrash, IInv, [Next]_vars, NEW l \in Calls
  PROVE  Opens(l)
<1>0. /\ inbox \in [Calls -> {"none", "open", "archived"}]
      /\ card \in [Calls -> {"none", "open", "closed"}]
      /\ \A q \in Asks : Of(q) \in Calls
  BY ApprovalAssumption DEF IInv, TypeOK, Of
<1> USE <1>0 DEF Opens
<1>1. CASE UNCHANGED <<card, inbox>>
  BY <1>1
<1>2. ASSUME NEW q \in Asks, Announces(q)
      PROVE  Opens(l)
  <2>1. /\ inbox' = inbox
        /\ card' = [card EXCEPT ![Of(q)] = IF waiter[Of(q)] = NoAsk THEN @ ELSE "open"]
    BY <1>2 DEF Announces, database
  <2>2. CASE Of(q) = l
    BY <1>2, <2>1, <2>2
  <2>3. CASE Of(q) # l
    BY <2>1, <2>3
  <2> QED  BY <2>2, <2>3
<1>3. ASSUME NEW q \in Asks, Notifies(q)
      PROVE  Opens(l)
  <2>1. /\ card' = card
        /\ inbox' = [inbox EXCEPT ![Of(q)] = IF @ = "none" THEN "open" ELSE @]
    BY <1>3 DEF Notifies
  <2>2. CASE Of(q) = l
    BY <1>3, <2>1, <2>2
  <2>3. CASE Of(q) # l
    BY <2>1, <2>3
  <2> QED  BY <2>2, <2>3
<1>4. ASSUME NEW q \in Asks, Tidies(q)
      PROVE  Opens(l)
  BY <1>4 DEF Tidies, Archived
<1>5. ASSUME NEW k \in Calls, Archives(k)
      PROVE  Opens(l)
  BY <1>5 DEF Archives, Archived
<1>6. ASSUME NEW q \in Asks, Begins(q) \/ EnterReads(q) \/ EnterWrites(q) \/ Creates(q)
             \/ Registers(q) \/ Marks(q) \/ Rechecks(q) \/ Receives(q) \/ Withdraws(q)
             \/ Withdrawn(q) \/ LeaveReads(q) \/ LeaveWrites(q)
      PROVE  Opens(l)
  BY <1>1, <1>6 DEF Begins, EnterReads, Reads, EnterWrites, Writes, Creates, Registers,
     Marks, Rechecks, Receives, Withdraws, Withdrawn, LeaveReads, LeaveWrites, database
<1>7. ASSUME NEW k \in Calls, Resolves(k) \/ Lapses(k) \/ Expires(k) \/ SweepCancels(k)
             \/ Wakes(k) \/ Counts(k) \/ Restores(k)
      PROVE  Opens(l)
  BY <1>1, <1>7 DEF Resolves, Lapses, Expires, SweepCancels, Wakes, Counts, Restores,
     database
<1>8. CASE Bind \/ Finalize \/ Inactive \/ StopReads \/ StopWrites \/ StopTells
            \/ SweepBegins \/ BootRecovers \/ ExecutorEnds \/ UNCHANGED vars
  BY <1>1, <1>8 DEF Bind, Finalize, Inactive, StopReads, StopWrites, StopTells,
     SweepBegins, BootRecovers, ExecutorEnds, vars, database
<1>9. ~Crash /\ ~BootExpires /\ \A k \in Calls : ~BootTidies(k)
  BY DEF Crash, Spend, NoCrash, Serving, BootExpires, BootTidies
<1> QED
  BY <1>2, <1>3, <1>4, <1>5, <1>6, <1>7, <1>8, <1>9
  DEF Next, Stopping, Booting, Request, Closing

LEMMA LateRequestsGoOn ==
  ASSUME Kept, NoCrash, IInv, [Next]_vars, NEW p \in Asks
  PROVE  LateGoesOn(p)
<1>0. /\ ask \in [Asks -> AskRecord]
      /\ inbox \in [Calls -> {"none", "open", "archived"}]
      /\ \A q \in Asks : Of(q) \in Calls
  BY ApprovalAssumption DEF IInv, TypeOK, Of, AskRecord, Outs
<1> USE <1>0 DEF LateGoesOn
<1>1. CASE ask'[p] = ask[p]
  BY <1>1
<1>2. CASE Tidies(p)
  BY <1>2 DEF Tidies, Archived
<1>3. CASE Registers(p)
  BY <1>3 DEF Registers, GoesOn, Late, AskRecord
<1>4. CASE Marks(p) \/ Rechecks(p)
  BY <1>4 DEF Marks, Rechecks, GoesOn, GoesOnWith, Late, AskRecord
<1>5. ASSUME NEW q \in Asks, Begins(q) \/ Request(q)
      PROVE  ask[p].pc \in Late /\ ask'[p] # ask[p] =>
                 Tidies(p) \/ Registers(p) \/ Marks(p) \/ Rechecks(p)
  <2>1. CASE q # p
    <3>1. ask'[p] = ask[p]
      BY <1>5, <2>1 DEF Begins, Request, EnterReads, Reads, EnterWrites, Writes,
         Creates,
         Notifies, Registers, Marks, Rechecks, Tidies, Announces, Receives, Withdraws,
         Withdrawn, LeaveReads, LeaveWrites, GoesOn, GoesOnWith
    <3> QED  BY <3>1
  <2>2. CASE q = p
    BY <1>5, <2>2 DEF Begins, Request, EnterReads, EnterWrites, Creates, Notifies,
       Announces, Receives, Withdraws, Withdrawn, LeaveReads, LeaveWrites, Late
  <2> QED  BY <2>1, <2>2
<1>6. ASSUME NEW k \in Calls, Resolves(k) \/ Lapses(k) \/ Expires(k) \/ SweepCancels(k)
             \/ Closing(k) \/ BootTidies(k)
      PROVE  UNCHANGED ask
  BY <1>6 DEF Resolves, Lapses, Expires, SweepCancels, Closing, Wakes, Counts, Restores,
     Archives, BootTidies
<1>7. CASE Bind \/ Finalize \/ Inactive \/ StopReads \/ StopWrites \/ StopTells
            \/ SweepBegins \/ BootExpires \/ BootRecovers \/ ExecutorEnds \/ UNCHANGED vars
  <2>1. UNCHANGED ask
    BY <1>7 DEF Bind, Finalize, Inactive, StopReads, StopWrites, StopTells, SweepBegins,
       BootExpires, BootRecovers, ExecutorEnds, Kept, vars
  <2> QED  BY <1>1, <2>1
<1>8. ~Crash
  BY DEF Crash, Spend, NoCrash
<1> QED
  BY <1>1, <1>2, <1>3, <1>4, <1>5, <1>6, <1>7, <1>8
  DEF Next, Stopping, Booting, LateGoesOn

LEMMA ShownHolds ==
  ASSUME Kept, NoCrash, Serving, IInv, Entry, Apart, ItemOwed, CardOwed, [Next]_vars
  PROVE  ItemOwed' /\ CardOwed'
<1>0. /\ \A q \in Asks : Of(q) \in Calls
      /\ ask \in [Asks -> AskRecord]
      /\ Known /\ Aimed /\ Sleeping
  BY ApprovalAssumption DEF IInv, TypeOK, Of, AskRecord, Outs
\* A sender in WAITERS that is not about to tidy up stands for a row that is
\* pending or being closed.
<1>1. ASSUME NEW k \in Calls, waiter[k] # NoAsk, ask[waiter[k]].pc \notin Late
      PROVE  row[k] = Pending \/ close[k].pc # "off"
  <2>1. waiter[k] \in Asks /\ Of(waiter[k]) = k /\ mail[waiter[k]] = "none"
    BY <1>0, <1>1 DEF Aimed, Entry
  <2>2. ask[waiter[k]].pc \in {"announce", "wait"} \/ close[k].pc = "wake"
    BY <1>1 DEF Entry, Registered, Late
  <2> QED  BY <1>0, <2>1, <2>2 DEF Sleeping
<1>2. ASSUME NEW k \in Calls, card'[k] = "open"
      PROVE  row'[k] # "none" /\ (row'[k] = Pending \/ close'[k].pc # "off")
  <2>1. Closes(k) /\ Opens(k)
    BY StepCloses, StepOpens
  <2>2. CASE card[k] = "open"
    BY <1>2, <2>1, <2>2 DEF CardOwed, Closes
  <2>3. ASSUME NEW q \in Asks, Of(q) = k, Announces(q), waiter[k] # NoAsk
        PROVE  row'[k] # "none" /\ (row'[k] = Pending \/ close'[k].pc # "off")
    <3>1. ask[q].pc = "announce" /\ UNCHANGED <<row, close>>
      BY <2>3 DEF Announces, database
    <3>2. row[k] # "none"
      BY <1>0, <2>3, <3>1 DEF Known, Created, Registered
    <3>3. row[k] = Pending \/ close[k].pc # "off"
      <4>1. CASE ask[waiter[k]].pc \in Late
        <5>1. waiter[k] \in Asks /\ Of(waiter[k]) = k
          BY <1>0, <2>3 DEF Aimed
        <5>2. waiter[k] # q
          BY <3>1, <4>1 DEF Late
        <5> QED  BY <2>3, <3>1, <4>1, <5>1, <5>2 DEF Apart, Late, Finished
      <4> QED  BY <1>1, <2>3, <4>1
    <3> QED  BY <3>1, <3>2, <3>3
  <2> QED  BY <1>2, <2>1, <2>2, <2>3 DEF Opens
<1>3. ASSUME NEW k \in Calls, inbox'[k] = "open"
      PROVE  /\ row'[k] # "none"
             /\ \/ row'[k] = Pending
                \/ close'[k].pc # "off"
                \/ \E q \in Asks : Of(q) = k /\ ask'[q].pc \in Late
  <2>1. Closes(k) /\ Opens(k)
    BY StepCloses, StepOpens
  <2>2. CASE inbox[k] = "open" /\ (row[k] = Pending \/ close[k].pc # "off")
    BY <1>3, <2>1, <2>2 DEF ItemOwed, Closes
  <2>3. ASSUME NEW q \in Asks, Of(q) = k, Notifies(q)
        PROVE  row'[k] # "none" /\ ask'[q].pc \in Late
    BY <1>0, <2>3 DEF Notifies, GoesOn, Known, Created, Late
  <2>4. CASE inbox[k] = "open" /\ row[k] # Pending /\ close[k].pc = "off"
    <3>1. row[k] # "none"
      BY <2>4 DEF ItemOwed
    <3>2. PICK q \in Asks : Of(q) = k /\ ask[q].pc \in Late
      BY <2>4 DEF ItemOwed, Late
    <3>3. LateGoesOn(q)
      BY LateRequestsGoOn
    <3>4. CASE Registers(q) /\ waiter[k] # NoAsk
      <4>1. ask[waiter[k]].pc \in Late
        BY <1>1, <2>4, <3>4
      <4>2. waiter[k] \in Asks /\ Of(waiter[k]) = k
        BY <1>0, <3>4 DEF Aimed
      <4>3. CASE waiter[k] # q
        <5>1. ask'[waiter[k]] = ask[waiter[k]]
          BY <1>0, <3>4, <4>2, <4>3 DEF Registers, GoesOn, GoesOnWith
        <5> QED  BY <2>1, <3>1, <4>1, <4>2, <5>1 DEF Closes
      <4>4. CASE waiter[k] = q
        <5>1. ask[q].pc = "register"
          BY <3>4 DEF Registers
        <5>2. close[k].pc = "wake"
          BY <3>4, <4>4, <5>1 DEF Entry, Registered
        <5> QED  BY <2>4, <5>2
      <4> QED  BY <4>3, <4>4
    <3> QED  BY <1>3, <2>1, <2>4, <3>1, <3>2, <3>3, <3>4 DEF LateGoesOn, Closes
  <2> QED  BY <1>3, <2>1, <2>2, <2>3, <2>4 DEF Opens
<1> QED  BY <1>2, <1>3 DEF ItemOwed, CardOwed, Late, Of

(* When everybody is done or waits, no inbox item and no card asks for a   *)
(* decision that has been made, though the item is created before the      *)
(* waiter and the request is announced after it (request_and_wait,         *)
(* finish_request, resolve).                                               *)
THEOREM OnlyOpenIsShown == Kept /\ NoCrash /\ OneEach => (Spec => []OnlyPendingIsShown)
<1> DEFINE J == IInv /\ Serving /\ Fresh /\ Entry /\ Apart /\ ItemOwed /\ CardOwed
<1>1. SUFFICES ASSUME Kept, NoCrash, OneEach
               PROVE  Spec => []OnlyPendingIsShown
  OBVIOUS
<1>2. Init => J
  <2>1. ASSUME Init
        PROVE  Serving /\ Fresh /\ Entry /\ Apart /\ ItemOwed /\ CardOwed
    BY <2>1, ApprovalAssumption DEF Init, Serving, NoBoot, Fresh, Entry, Apart,
       ItemOwed, CardOwed, Late, Idle, Finished, Of
  <2> QED  BY <2>1, InitIInv
<1>3. J /\ [Next]_vars => J'
  BY <1>1, StepIInv, ServingHolds, EntryHolds, ApartHolds, ShownHolds
<1>4. J => OnlyPendingIsShown
  <2>1. ASSUME J, Quiet, NEW k \in Calls
        PROVE  /\ inbox[k] = "open" => row[k] = Pending
               /\ card[k] = "open" => row[k] = Pending
    <3>1. close[k].pc = "off" /\ \A q \in Asks : ask[q].pc \in Finished \cup {"wait"}
      BY <2>1 DEF Quiet
    <3> QED  BY <2>1, <3>1 DEF ItemOwed, CardOwed, Late, Finished
  <2> QED  BY <2>1 DEF OnlyPendingIsShown, InboxFollowsRow, CardFollowsRow
<1> HIDE DEF J
<1> QED  BY <1>2, <1>3, <1>4, PTL DEF Spec

-----------------------------------------------------------------------------
(* Why a member waits.  Where requests outlive neither their runtime       *)
(* ("own") nor an executor that ends by itself ("exit"), a pending row has *)
(* a request under way, and a member is waiting only while some row is     *)
(* pending or the one who settled it has still to restore the member.      *)

Obeys == "exit" \notin Events

\* A request left behind by its run has been told to stop.
Warned ==
  \A q \in Asks :
    ask[q].pc \notin Finished /\ (Home(q) < run \/ executor # "running") =>
        Home(q) \in told

\* Somebody asks for what is pending.
Asked ==
  boot.pc # "expire" =>
    \A k \in Calls : row[k] = Pending =>
      \E q \in Asks : Of(q) = k /\ ask[q].pc \in Registered \cup {"notify", "register"}

\* What makes the member wait, or is about to let it go on.
Owing(k) == row[k] = Pending \/ close[k].pc \in {"wake", "count", "restore"}

Owed == Serving /\ member = "waiting" => \E k \in Calls : Owing(k)

LEMMA WarnedHolds ==
  ASSUME Obeys, IInv, Begun, Warned, [Next]_vars
  PROVE  Warned'
<1>1. SUFFICES ASSUME NEW q \in Asks, ask'[q].pc \notin Finished,
                      Home(q) < run' \/ executor' # "running"
               PROVE  Home(q) \in told'
  BY DEF Warned, Home
<1>2. run \in Nat /\ Home(q) \in Nat
  BY ApprovalAssumption DEF IInv, TypeOK, Home, Runs
<1>3. told \subseteq told' /\ (run' = run \/ Bind)
  <2>1. told \subseteq told'
    BY DEF Next, Stopping, Booting, Request, Closing, Bind, Finalize, Inactive,
       StopReads,
       StopWrites, StopTells, SweepBegins, BootExpires, BootRecovers, vars,
          ExecutorEnds,
       Crash, Begins, EnterReads, LeaveReads, Reads, EnterWrites, LeaveWrites, Writes,
       Creates, Notifies, Registers, Marks, Rechecks, Tidies, Announces, Receives,
       Withdraws, Withdrawn, Resolves, Lapses, Expires, SweepCancels, Wakes, Counts,
       Restores, Archives, BootTidies, process
  <2> QED  BY <2>1, RunsGoUp
<1>4. executor' = executor \/ Bind \/ ExecutorEnds \/ Finalize \/ Crash
  BY DEF Next, Stopping, Booting, Request, Closing, Inactive, StopReads,
     StopWrites, StopTells, SweepBegins, BootExpires, BootRecovers, vars,
     Begins, EnterReads, LeaveReads, Reads, EnterWrites, LeaveWrites, Writes,
     Creates, Notifies, Registers, Marks, Rechecks, Tidies, Announces, Receives,
     Withdraws, Withdrawn, Resolves, Lapses, Expires, SweepCancels, Wakes, Counts,
     Restores, Archives, BootTidies, process
<1>5. CASE Begins(q)
  <2>1. Home(q) = run /\ executor = "running" /\ UNCHANGED <<run, executor>>
    BY <1>5 DEF Begins, process
  <2> QED  BY <1>1, <1>2, <2>1
<1>6. CASE ask[q].pc \notin Finished
  <2>0. Home(q) <= run
    BY <1>6 DEF Begun, Finished
  <2>1. CASE Bind
    BY <1>3, <1>6, <2>1 DEF Bind, Warned
  <2>2. CASE ExecutorEnds
    <3>1. run \in told /\ run' = run
      BY <2>2 DEF ExecutorEnds, Spend, Obeys
    <3>2. Home(q) < run \/ Home(q) = run
      BY <1>2, <2>0
    <3> QED  BY <1>3, <1>6, <3>1, <3>2 DEF Warned
  <2>3. CASE Finalize
    BY <1>3, <1>6, <2>3 DEF Finalize, Warned
  <2>4. CASE Crash
    BY <1>1, <1>6, <2>4 DEF Crash, IInv, TypeOK, Finished
  <2>5. CASE executor' = executor /\ run' = run
    BY <1>1, <1>3, <1>6, <2>5 DEF Warned
  <2> QED  BY <1>3, <1>4, <2>1, <2>2, <2>3, <2>4, <2>5 DEF ExecutorEnds, Finalize, Crash
<1> QED  BY <1>1, <1>5, <1>6, RequestsMove DEF Steady

\* How a request for a pending row goes on.
AskingGoesOn(q) ==
  ask[q].pc \in Registered \cup {"notify", "register"} /\ row[Of(q)] = Pending =>
    \/ ask'[q].pc \in Registered \cup {"notify", "register"}
    \/ row'[Of(q)] # Pending
    \/ boot'.pc = "expire"
    \/ Registers(q) /\ waiter[Of(q)] # NoAsk

LEMMA AskersGoOn ==
  ASSUME Kept, IInv, Entry, [Next]_vars, NEW p \in Asks
  PROVE  AskingGoesOn(p)
<1>0. /\ ask \in [Asks -> AskRecord]
      /\ row \in [Calls -> {"none", Pending} \cup Ends \cup Options]
      /\ \A q \in Asks : Of(q) \in Calls
      /\ Held /\ NoAsk \notin Asks
  BY ApprovalAssumption DEF IInv, TypeOK, Of, AskRecord, Outs
<1> USE <1>0 DEF AskingGoesOn
<1>1. CASE ask'[p] = ask[p]
  BY <1>1
<1>2. CASE Notifies(p) \/ Marks(p) \/ Announces(p)
  BY <1>2 DEF Notifies, Marks, Announces, GoesOn, Registered, AskRecord
<1>3. CASE Registers(p)
  BY <1>3 DEF Registers, GoesOn, Registered, AskRecord
<1>4. CASE Rechecks(p)
  BY <1>4 DEF Rechecks, GoesOn, Registered, AskRecord
<1>5. CASE Receives(p)
  <2>1. ASSUME row[Of(p)] = Pending
        PROVE  FALSE
    <3>1. waiter[Of(p)] = p
      BY <1>5, <2>1 DEF Receives, Held, Registered
    <3> QED  BY <1>5, <3>1 DEF Receives, Entry
  <2> QED  BY <2>1
<1>6. CASE Withdraws(p)
  BY <1>6 DEF Withdraws, Settles, Pending
<1>7. ASSUME NEW q \in Asks, Begins(q) \/ Request(q)
      PROVE  ask[p].pc \in Registered \cup {"notify", "register"} /\ ask'[p] # ask[p] =>
                 \/ Notifies(p) \/ Registers(p) \/ Marks(p) \/ Rechecks(p) \/ Announces(p)
                 \/ Receives(p) \/ Withdraws(p)
  <2>1. CASE q # p
    <3>1. ask'[p] = ask[p]
      BY <1>7, <2>1 DEF Begins, Request, EnterReads, Reads, EnterWrites, Writes,
         Creates,
         Notifies, Registers, Marks, Rechecks, Tidies, Announces, Receives, Withdraws,
         Withdrawn, LeaveReads, LeaveWrites, GoesOn, GoesOnWith
    <3> QED  BY <3>1
  <2>2. CASE q = p
    BY <1>7, <2>2 DEF Begins, Request, EnterReads, EnterWrites, Creates, Tidies,
       Withdrawn,
       LeaveReads, LeaveWrites, Registered
  <2> QED  BY <2>1, <2>2
<1>8. ASSUME NEW k \in Calls, Resolves(k) \/ Lapses(k) \/ Expires(k) \/ SweepCancels(k)
             \/ Closing(k) \/ BootTidies(k)
      PROVE  UNCHANGED ask
  BY <1>8 DEF Resolves, Lapses, Expires, SweepCancels, Closing, Wakes, Counts, Restores,
     Archives, BootTidies
<1>9. CASE Bind \/ Finalize \/ Inactive \/ StopReads \/ StopWrites \/ StopTells
            \/ SweepBegins \/ BootExpires \/ BootRecovers \/ ExecutorEnds \/ UNCHANGED vars
  <2>1. UNCHANGED ask
    BY <1>9 DEF Bind, Finalize, Inactive, StopReads, StopWrites, StopTells, SweepBegins,
       BootExpires, BootRecovers, ExecutorEnds, Kept, vars
  <2> QED  BY <1>1, <2>1
<1>10. CASE Crash
  BY <1>10 DEF Crash
<1> QED
  BY <1>1, <1>2, <1>3, <1>4, <1>5, <1>6, <1>7, <1>8, <1>9, <1>10
  DEF Next, Stopping, Booting, AskingGoesOn

\* A step settles one row.
SettlesOne ==
  \E k \in Calls : row'[k] # Pending /\ \A l \in Calls : l # k => row'[l] = row[l]

LEMMA AskedHolds ==
  ASSUME Kept, IInv, Entry, Asked, [Next]_vars
  PROVE  Asked'
<1>0. /\ ask \in [Asks -> AskRecord]
      /\ row \in [Calls -> {"none", Pending} \cup Ends \cup Options]
      /\ \A q \in Asks : Of(q) \in Calls
      /\ \A o \in Options \cup Ends : o # Pending
      /\ Known /\ Aimed
  BY ApprovalAssumption DEF IInv, TypeOK, Of, AskRecord, Outs, Ends, Pending
<1>1. SUFFICES ASSUME boot'.pc # "expire", NEW k \in Calls, row'[k] = Pending
               PROVE  \E q \in Asks :
                        Of(q) = k /\ ask'[q].pc \in Registered \cup {"notify", "register"}
  BY DEF Asked, Of
<1>2. boot.pc # "expire"
  <2>1. ~BootExpires
    BY <1>0, <1>1 DEF BootExpires, Pending
  <2>2. \/ UNCHANGED boot
        \/ BootExpires \/ BootRecovers \/ Crash
        \/ \E l \in Calls : BootTidies(l)
    BY DEF Next, Stopping, Booting, Request, Closing, Bind, Finalize, Inactive,
       StopReads,
       StopWrites, StopTells, SweepBegins, vars, ExecutorEnds,
       Begins, EnterReads, LeaveReads, Reads, EnterWrites, LeaveWrites, Writes,
       Creates, Notifies, Registers, Marks, Rechecks, Tidies, Announces, Receives,
       Withdraws, Withdrawn, Resolves, Lapses, Expires, SweepCancels, Wakes, Counts,
       Restores, Archives, others
  <2>3. ~Crash
    BY <1>1 DEF Crash
  <2> QED  BY <1>1, <2>1, <2>2, <2>3 DEF BootRecovers, BootTidies
<1>3. row' = row \/ SettlesOne \/ (\E q \in Asks : Creates(q)) \/ BootExpires
  <2>1. ASSUME NEW l \in Calls, NEW status \in Options \cup Ends, NEW by,
               Settles(l, status, by)
        PROVE  SettlesOne
    BY <1>0, <2>1 DEF Settles, SettlesOne
  <2>2. ASSUME NEW q \in Asks, Withdraws(q)
        PROVE  row' = row \/ SettlesOne
    BY <1>0, <2>1, <2>2 DEF Withdraws, Ends
  <2>3. ASSUME NEW l \in Calls, Resolves(l) \/ Expires(l) \/ SweepCancels(l)
        PROVE  row' = row \/ SettlesOne
    BY <1>0, <2>1, <2>3 DEF Resolves, Expires, SweepCancels, Ends
  <2> QED
    BY <2>2, <2>3 DEF Next, Stopping, Booting, Request, Closing, Bind, Finalize,
       Inactive,
       StopReads, StopWrites, StopTells, SweepBegins, vars, ExecutorEnds, Crash,
       Begins, EnterReads, LeaveReads, Reads, EnterWrites, LeaveWrites, Writes,
       Notifies, Registers, Marks, Rechecks, Tidies, Announces, Receives,
       Withdrawn, Lapses, Wakes, Counts,
       Restores, Archives, BootRecovers, BootTidies, database
<1>4. CASE row[k] = Pending
  <2>1. PICK q \in Asks : Of(q) = k /\ ask[q].pc \in Registered \cup {"notify", "register"}
    BY <1>2, <1>4 DEF Asked
  <2>2. CASE Registers(q) /\ waiter[k] # NoAsk
    <3>1. waiter[k] \in Asks /\ Of(waiter[k]) = k
      BY <1>0, <2>2 DEF Aimed
    <3>2. ask[waiter[k]].pc \in Registered
      <4>1. close[k].pc = "off"
        BY <1>0, <1>4 DEF Known, Settled
      <4>2. ask[waiter[k]].pc # "tidy"
        BY <1>0, <1>4, <3>1 DEF Known
      <4> QED  BY <2>2, <4>1, <4>2 DEF Entry
    <3>3. waiter[k] # q
      BY <2>2, <3>2 DEF Registers, Registered
    <3>4. ask'[waiter[k]] = ask[waiter[k]]
      BY <1>0, <2>2, <3>1, <3>3 DEF Registers, GoesOn, GoesOnWith
    <3> QED  BY <3>1, <3>2, <3>4
  <2>3. AskingGoesOn(q)
    BY AskersGoOn
  <2> QED  BY <1>1, <1>4, <2>1, <2>2, <2>3 DEF AskingGoesOn
<1>5. CASE row[k] # Pending
  <2>1. PICK q \in Asks : Creates(q)
    BY <1>0, <1>1, <1>3, <1>5 DEF BootExpires, SettlesOne
  <2>2. Of(q) = k /\ row[k] = "none"
    BY <1>0, <1>1, <1>5, <2>1 DEF Creates
  <2>3. ask'[q].pc = "notify"
    BY <1>0, <2>1, <2>2 DEF Creates, GoesOn, AskRecord
  <2> QED  BY <2>2, <2>3
<1> QED  BY <1>4, <1>5

\* A reason to wait stays one until the member is restored.
LEMMA OwingGoesOn ==
  ASSUME Kept, IInv, [Next]_vars, Serving', NEW l \in Calls, Owing(l)
  PROVE  \/ Owing(l)'
         \/ member' # "waiting"
         \/ \E k \in Calls : row'[k] = Pending
<1>0. /\ close \in [Calls -> CloseRecord] /\ Known
      /\ row \in [Calls -> {"none", Pending} \cup Ends \cup Options]
      /\ \A q \in Asks : Of(q) \in Calls
      /\ member \in {"idle"} \cup Active
  BY ApprovalAssumption DEF IInv, TypeOK, CloseRecord, ClosePcs, CloseBys, Of
<1> USE <1>0 DEF Owing
<1>1. CASE UNCHANGED <<row, close>>
  BY <1>1
<1>2. ASSUME NEW k \in Calls, NEW status, NEW by, row[k] = Pending, Settles(k, status, by)
      PROVE  Owing(l)'
  BY <1>2 DEF Settles, Known, Settled
<1>3. ASSUME NEW k \in Calls, Wakes(k)
      PROVE  Owing(l)'
  BY <1>3 DEF Wakes, database, CloseRecord
<1>4. ASSUME NEW k \in Calls, Counts(k)
      PROVE  Owing(l)' \/ \E m \in Calls : row'[m] = Pending
  BY <1>4 DEF Counts, database, CloseRecord
<1>5. ASSUME NEW k \in Calls, Restores(k)
      PROVE  member' # "waiting"
  BY <1>5 DEF Restores
<1>6. ASSUME NEW k \in Calls, Archives(k)
      PROVE  Owing(l)'
  BY <1>6 DEF Archives
<1>7. ASSUME NEW q \in Asks, Creates(q)
      PROVE  Owing(l)'
  BY <1>7 DEF Creates, memory, Pending
<1>8. ASSUME NEW q \in Asks, Withdraws(q)
      PROVE  Owing(l)'
  BY <1>1, <1>2, <1>8 DEF Withdraws
<1>9. ASSUME NEW k \in Calls, Resolves(k) \/ Lapses(k) \/ Expires(k) \/ SweepCancels(k)
      PROVE  Owing(l)'
  BY <1>1, <1>2, <1>9 DEF Resolves, Lapses, Expires, SweepCancels, memory
<1>10. ASSUME NEW q \in Asks, Begins(q) \/ EnterReads(q) \/ EnterWrites(q) \/ Notifies(q)
             \/ Registers(q) \/ Marks(q) \/ Rechecks(q) \/ Tidies(q) \/ Announces(q)
             \/ Receives(q) \/ Withdrawn(q) \/ LeaveReads(q) \/ LeaveWrites(q)
      PROVE  Owing(l)'
  BY <1>1, <1>10 DEF Begins, EnterReads, Reads, EnterWrites, Writes, Notifies,
     Registers,
     Marks, Rechecks, Tidies, Announces, Receives, Withdrawn, LeaveReads, LeaveWrites,
     database, memory
<1>11. CASE Bind \/ Finalize \/ Inactive \/ StopReads \/ StopWrites \/ StopTells
            \/ SweepBegins \/ BootRecovers \/ ExecutorEnds \/ UNCHANGED vars
  BY <1>1, <1>11 DEF Bind, Finalize, Inactive, StopReads, StopWrites, StopTells,
     SweepBegins, BootRecovers, ExecutorEnds, Kept, vars, database, memory
<1>12. ~Crash /\ ~BootExpires /\ \A k \in Calls : ~BootTidies(k)
  <2>1. boot \in [pc : {"off", "expire", "tidy"}, todo : SUBSET Calls]
    BY DEF IInv, TypeOK
  <2> QED  BY <2>1 DEF Crash, Serving, BootExpires, BootTidies
<1> QED
  BY <1>3, <1>4, <1>5, <1>6, <1>7, <1>8, <1>9, <1>10, <1>11, <1>12
  DEF Next, Stopping, Booting, Request, Closing

LEMMA OwedHolds ==
  ASSUME Kept, IInv, Owed, [Next]_vars
  PROVE  Owed'
<1>0. member \in {"idle"} \cup Active
  BY DEF IInv, TypeOK
<1>1. SUFFICES ASSUME Serving', member' = "waiting"
               PROVE  \E k \in Calls : Owing(k)'
  BY DEF Owed
<1>2. CASE member = "waiting" /\ Serving
  <2>1. PICK l \in Calls : Owing(l)
    BY <1>2 DEF Owed
  <2>2. Owing(l)' \/ \E k \in Calls : row'[k] = Pending
    BY <1>1, <2>1, OwingGoesOn
  <2> QED  BY <2>2 DEF Owing
<1>3. CASE ~Serving
  <2>1. ~Crash /\ ~BootExpires /\ \A k \in Calls : ~BootTidies(k)
    <3>1. boot \in [pc : {"off", "expire", "tidy"}, todo : SUBSET Calls]
      BY DEF IInv, TypeOK
    <3> QED  BY <1>1, <3>1 DEF Crash, Serving, BootExpires, BootTidies
  <2>2. BootRecovers
    BY <1>1, <1>3, <2>1 DEF Serving, Next, Stopping, Booting, Request, Closing, Bind,
       Finalize,
       Inactive, StopReads,
       StopWrites, StopTells, SweepBegins, vars, ExecutorEnds,
       Begins, EnterReads, LeaveReads, Reads, EnterWrites, LeaveWrites, Writes,
       Creates, Notifies, Registers, Marks, Rechecks, Tidies, Announces, Receives,
       Withdraws, Withdrawn, Resolves, Lapses, Expires, SweepCancels, Wakes, Counts,
       Restores, Archives, others
  <2> QED  BY <1>0, <1>1, <2>2 DEF BootRecovers
<1>4. CASE member # "waiting" /\ Serving
  <2>1. PICK q \in Asks : Marks(q) /\ row[Of(q)] = Pending
    BY <1>1, <1>4 DEF Serving, Next, Stopping, Booting, Request, Closing, Bind,
       Finalize,
       Inactive, StopReads, BootTidies, BootExpires, BootRecovers, Crash,
       StopWrites, StopTells, SweepBegins, vars, ExecutorEnds, Marks,
       Begins, EnterReads, LeaveReads, Reads, EnterWrites, LeaveWrites, Writes,
       Creates, Notifies, Registers, Rechecks, Tidies, Announces, Receives,
       Withdraws, Withdrawn, Resolves, Lapses, Expires, SweepCancels, Wakes, Counts,
       Restores, Archives, database
  <2>2. Of(q) \in Calls /\ row' = row
    BY <2>1, ApprovalAssumption DEF Marks, Of
  <2> QED  BY <2>1, <2>2 DEF Owing
<1> QED  BY <1>2, <1>3, <1>4

(* When everybody is done or waits, a member that shows that it waits does *)
(* wait for a request of its present run: the count that decides whether   *)
(* it goes on misses no row, however many are settled at once, and nothing *)
(* of an earlier run is left (restore_agent_if_no_pending).                *)
THEOREM MembersWaitForAReason == Kept /\ Obeys => (Spec => []WaitingHasReason)
<1> DEFINE J == IInv /\ Begun /\ Fresh /\ Entry /\ Warned /\ Asked /\ Owed
<1>1. SUFFICES ASSUME Kept, Obeys
               PROVE  Spec => []WaitingHasReason
  OBVIOUS
<1>2. Init => J
  <2>1. ASSUME Init
        PROVE  Begun /\ Fresh /\ Entry /\ Warned /\ Asked /\ Owed
    BY <2>1, ApprovalAssumption DEF Init, Begun, Fresh, Entry, Warned, Asked, Owed,
       Idle,
       Finished, Pending, Of
  <2> QED  BY <2>1, InitIInv
<1>3. J /\ [Next]_vars => J'
  BY <1>1, StepIInv, BegunHolds, EntryHolds, WarnedHolds, AskedHolds, OwedHolds
<1>4. J => WaitingHasReason
  <2>1. ASSUME J, Quiet, executor = "running", member = "waiting"
        PROVE  \E q \in Asks : Home(q) = run /\ ask[q].pc = "wait"
    <3>1. \A k \in Calls : close[k].pc = "off"
      BY <2>1 DEF Quiet
    <3>2. PICK k \in Calls : row[k] = Pending
      BY <2>1, <3>1 DEF Quiet, Owed, Owing
    <3>3. PICK q \in Asks : Of(q) = k /\ ask[q].pc \in Registered \cup {"notify", "register"}
      BY <2>1, <3>2 DEF Asked, Quiet, Serving
    <3>4. ask[q].pc = "wait" /\ Home(q) \notin told
      BY <2>1, <3>3 DEF Quiet, Finished, Registered
    <3>5. Home(q) <= run /\ ~(Home(q) < run)
      BY <2>1, <3>4 DEF Begun, Warned, Finished
    <3>6. Home(q) \in Nat /\ run \in Nat
      BY <2>1, ApprovalAssumption DEF IInv, TypeOK, Home, Runs
    <3> QED  BY <3>4, <3>5, <3>6
  <2> QED  BY <2>1 DEF WaitingHasReason
<1> HIDE DEF J
<1> QED  BY <1>2, <1>3, <1>4, PTL DEF Spec-----------------------------------------------------------------------------
(* The service implements ApprovalSpec.  What has to be carried along is    *)
(* why a request has its answer, from the moment it has one until it        *)
(* returns it: meanwhile rows are settled, runs are halted and requests     *)
(* come and go, none of which takes a reason away.                          *)

Answered == {"tidy", "leave", "leaving", "done"}

\* What request q may be told.
Grounds(q, v) ==
  \/ v \in Options /\ v = row[Of(q)]
  \/ v = "cancelled" /\ row[Of(q)] \in Ends
  \/ v = "cancelled" /\ row[Of(q)] \in Options /\ Home(q) \in told
  \/ v = "duplicate" /\ \E p \in Asks \ {q} : ask[p].pc # "off" /\ Of(p) = Of(q)
  \/ v = "moved"

Grounded ==
  \A q \in Asks :
    /\ ask[q].pc \in Answered => Grounds(q, ask[q].out)
    /\ ask[q].pc = "withdrawn" => row[Of(q)] \in Ends
    /\ mail[q] = "closed" => row[Of(q)] \in Ends
    /\ waiter[Of(q)] = q => ask[q].pc \notin Early

\* How a step moves a row.
RowMoves(k) ==
  \/ row'[k] = row[k]
  \/ row[k] = "none" /\ row'[k] = Pending /\ \E q \in Asks : Of(q) = k /\ ask[q].pc = "create"
  \/ row[k] = Pending /\ row'[k] \in Ends
  \/ row[k] = Pending /\ row'[k] \in Options /\ Serving

LEMMA RowsMove ==
  ASSUME IInv, [Next]_vars, NEW l \in Calls
  PROVE  RowMoves(l)
<1>0. /\ row \in [Calls -> {"none", Pending} \cup Ends \cup Options]
      /\ \A q \in Asks : Of(q) \in Calls
      /\ {"cancelled", "expired"} \subseteq Ends
  BY ApprovalAssumption DEF IInv, TypeOK, Of, Ends
<1> USE <1>0 DEF RowMoves
<1>1. ASSUME NEW k \in Calls, row[k] = Pending,
             NEW status, row' = [row EXCEPT ![k] = status],
             status \in Ends \/ (status \in Options /\ Serving)
      PROVE  RowMoves(l)
  BY <1>1
<1>2. CASE UNCHANGED row
  BY <1>2
<1>3. ASSUME NEW q \in Asks, Creates(q)
      PROVE  RowMoves(l)
  BY <1>3 DEF Creates
<1>4. ASSUME NEW q \in Asks, Withdraws(q)
      PROVE  RowMoves(l)
  BY <1>1, <1>2, <1>4 DEF Withdraws, Settles
<1>5. ASSUME NEW k \in Calls, Resolves(k) \/ Expires(k) \/ SweepCancels(k)
      PROVE  RowMoves(l)
  <2>1. CASE Resolves(k)
    BY <1>1, <2>1 DEF Resolves, Settles
  <2>2. CASE Expires(k)
    BY <1>1, <1>2, <2>2 DEF Expires, Settles
  <2>3. CASE SweepCancels(k)
    BY <1>1, <1>2, <2>3 DEF SweepCancels, Settles
  <2> QED  BY <1>5, <2>1, <2>2, <2>3
<1>6. CASE BootExpires
  BY <1>6 DEF BootExpires
<1>7. ASSUME NEW q \in Asks, Begins(q) \/ EnterReads(q) \/ EnterWrites(q) \/ Notifies(q)
             \/ Registers(q) \/ Marks(q) \/ Rechecks(q) \/ Tidies(q) \/ Announces(q)
             \/ Receives(q) \/ Withdrawn(q) \/ LeaveReads(q) \/ LeaveWrites(q)
      PROVE  RowMoves(l)
  BY <1>2, <1>7 DEF Begins, EnterReads, Reads, EnterWrites, Writes, Notifies, Registers,
     Marks, Rechecks, Tidies, Announces, Receives, Withdrawn, LeaveReads, LeaveWrites,
     database
<1>8. ASSUME NEW k \in Calls, Lapses(k) \/ Closing(k) \/ BootTidies(k)
      PROVE  RowMoves(l)
  BY <1>2, <1>8 DEF Lapses, Closing, Wakes, Counts, Restores, Archives, BootTidies, database
<1>9. CASE Bind \/ Finalize \/ Inactive \/ StopReads \/ StopWrites \/ StopTells \/ Crash
            \/ SweepBegins \/ BootRecovers \/ ExecutorEnds \/ UNCHANGED vars
  BY <1>2, <1>9 DEF Bind, Finalize, Inactive, StopReads, StopWrites, StopTells, Crash,
     SweepBegins, BootRecovers, ExecutorEnds, vars, database
<1> QED
  BY <1>3, <1>4, <1>5, <1>6, <1>7, <1>8, <1>9 DEF Next, Stopping, Booting, Request

LEMMA HaltedStayHalted ==
  ASSUME [Next]_vars
  PROVE  told \subseteq told'
BY DEF Next, Stopping, Booting, Request, Closing, Bind, Finalize, Inactive, StopReads,
   StopWrites, StopTells, SweepBegins, BootExpires, BootRecovers, vars, ExecutorEnds,
   Crash, Begins, EnterReads, LeaveReads, Reads, EnterWrites, LeaveWrites, Writes,
   Creates, Notifies, Registers, Marks, Rechecks, Tidies, Announces, Receives,
   Withdraws, Withdrawn, Resolves, Lapses, Expires, SweepCancels, Wakes, Counts,
   Restores, Archives, BootTidies, process

\* What the process that died has left open is expired before anything else.
LEMMA OrphansExpire ==
  ASSUME IInv, [Next]_vars, boot.pc = "expire", NEW k \in Calls, row[k] = Pending
  PROVE  (boot'.pc = "expire" /\ row'[k] = Pending) \/ row'[k] \in Ends
<1>1. boot'.pc = "expire" \/ BootExpires
  <2>1. CASE Bind \/ Finalize \/ Inactive \/ StopReads \/ StopWrites \/ StopTells
              \/ SweepBegins \/ ExecutorEnds \/ UNCHANGED vars
    BY <2>1 DEF Bind, Finalize, Inactive, StopReads, StopWrites, StopTells, SweepBegins,
       ExecutorEnds, vars, others
  <2>2. ASSUME NEW q \in Asks, Begins(q) \/ Request(q)
        PROVE  UNCHANGED boot
    BY <2>2 DEF Begins, Request, EnterReads, LeaveReads, Reads, EnterWrites, LeaveWrites,
       Writes, Creates, Notifies, Registers, Marks, Rechecks, Tidies, Announces, Receives,
       Withdraws, Withdrawn, others
  <2>3. ASSUME NEW l \in Calls, Resolves(l) \/ Lapses(l) \/ Expires(l) \/ SweepCancels(l)
               \/ Closing(l)
        PROVE  UNCHANGED boot
    BY <2>3 DEF Resolves, Lapses, Expires, SweepCancels, Closing, Wakes, Counts, Restores,
       Archives, others
  <2>4. ~BootRecovers /\ \A l \in Calls : ~BootTidies(l)
    BY DEF BootRecovers, BootTidies
  <2>5. Crash => boot'.pc = "expire"
    BY DEF Crash
  <2> QED  BY <2>1, <2>2, <2>3, <2>4, <2>5 DEF Next, Stopping, Booting
<1>2. BootExpires => row'[k] \in Ends
  BY DEF BootExpires, Ends
<1>3. RowMoves(k)
  BY RowsMove
<1> QED  BY <1>1, <1>2, <1>3 DEF RowMoves, Serving, Pending

\* A reason stays one.
LEMMA GroundsStay ==
  ASSUME IInv, [Next]_vars, NEW q \in Asks, NEW v, Grounds(q, v)
  PROVE  Grounds(q, v)'
<1>1. Of(q) \in Calls
  BY ApprovalAssumption DEF Of
<1>2. row[Of(q)] \in Ends \cup Options => row'[Of(q)] = row[Of(q)]
  BY <1>1, RowsMove, ApprovalAssumption DEF RowMoves, Pending, Ends
<1>3. \A p \in Asks : ask[p].pc # "off" => ask'[p].pc # "off"
  BY RequestsMove DEF Steady, Begins, Finished
<1>4. told \subseteq told'
  BY HaltedStayHalted
<1> QED  BY <1>2, <1>3, <1>4 DEF Grounds, Of, Home

\* Where a request gets its answer from.
Source(p) ==
  LET v == ask'[p].out  d == row[Of(p)] IN
  \/ ask[p].pc \in Answered /\ v = ask[p].out
  \/ v = "moved"
  \/ ask'[p].pc # "done" /\ d \notin {"none", Pending} /\ v = Answer(d)
  \/ ask'[p].pc # "done" /\ ask[p].pc = "wait" /\ mail[p] # "none" /\ v = Answer(mail[p])
  \/ ask'[p].pc # "done" /\ ask[p].pc = "wait" /\ d # Pending /\ Home(p) \in told /\ v = "cancelled"
  \/ ask'[p].pc # "done" /\ ask[p].pc = "withdrawn" /\ v = "cancelled"
  \/ ask'[p].pc # "done" /\ ask[p].pc = "register" /\ waiter[Of(p)] # NoAsk /\ v = "duplicate"

LEMMA AnswersHaveSource ==
  ASSUME IInv, [Next]_vars, NEW p \in Asks, ask'[p].pc \in Answered
  PROVE  Source(p)
<1>0. ask \in [Asks -> AskRecord]
  BY DEF IInv, TypeOK, AskRecord, Outs
<1> USE <1>0 DEF AskRecord, GoesOn, GoesOnWith, Answered
<1>1. CASE ask'[p] = ask[p]
  BY <1>1 DEF Source
<1>2. ASSUME NEW q \in Asks, q # p, Begins(q) \/ Request(q)
      PROVE  ask'[p] = ask[p]
  <2>1. CASE Begins(q) \/ EnterReads(q) \/ EnterWrites(q) \/ LeaveReads(q) \/ LeaveWrites(q)
    BY <1>2, <2>1 DEF Begins, EnterReads, Reads, EnterWrites, Writes, LeaveReads, LeaveWrites
  <2>2. CASE Creates(q) \/ Notifies(q) \/ Registers(q) \/ Marks(q) \/ Rechecks(q)
    BY <1>2, <2>2 DEF Creates, Notifies, Registers, Marks, Rechecks
  <2>3. CASE Tidies(q) \/ Announces(q) \/ Receives(q) \/ Withdraws(q) \/ Withdrawn(q)
    BY <1>2, <2>3 DEF Tidies, Announces, Receives, Withdraws, Withdrawn
  <2> QED  BY <1>2, <2>1, <2>2, <2>3 DEF Request
<1>3. CASE Begins(p) \/ EnterReads(p) \/ Notifies(p) \/ Marks(p) \/ Announces(p)
  BY <1>3 DEF Begins, EnterReads, Reads, Notifies, Marks, Announces
<1>4. CASE EnterWrites(p) \/ LeaveWrites(p)
  BY <1>4 DEF EnterWrites, LeaveWrites, Writes, Source
<1>5. CASE LeaveReads(p) \/ Tidies(p)
  BY <1>5 DEF LeaveReads, Reads, Tidies, Source
<1>6. CASE Creates(p)
  BY <1>6 DEF Creates, Source
<1>7. CASE Rechecks(p)
  <2>1. row[Of(p)] # "none"
    BY <1>7 DEF Rechecks, IInv, Known, Created, Registered
  <2> QED  BY <1>7, <2>1 DEF Rechecks, Source
<1>8. CASE Registers(p)
  BY <1>8 DEF Registers, Source
<1>9. CASE Receives(p)
  BY <1>9 DEF Receives, Source
<1>10. CASE Withdraws(p) \/ Withdrawn(p)
  BY <1>10 DEF Withdraws, Withdrawn, Source
<1>11. ASSUME NEW k \in Calls, Resolves(k) \/ Lapses(k) \/ Expires(k) \/ SweepCancels(k)
              \/ Closing(k) \/ BootTidies(k)
       PROVE  UNCHANGED ask
  BY <1>11 DEF Resolves, Lapses, Expires, SweepCancels, Closing, Wakes, Counts, Restores,
     Archives, BootTidies
<1>12. CASE Bind \/ Finalize \/ Inactive \/ StopReads \/ StopWrites \/ StopTells
            \/ SweepBegins \/ BootExpires \/ BootRecovers \/ UNCHANGED vars
  BY <1>1, <1>12 DEF Bind, Finalize, Inactive, StopReads, StopWrites, StopTells,
     SweepBegins, BootExpires, BootRecovers, vars
<1>13. CASE ExecutorEnds \/ Crash
  BY <1>1, <1>13 DEF ExecutorEnds, Drops, Crash
<1> QED
  BY <1>1, <1>2, <1>3, <1>4, <1>5, <1>6, <1>7, <1>8, <1>9, <1>10, <1>11, <1>12, <1>13
  DEF Next, Stopping, Booting, Request

\* What comes through the channel, and who can be found in WAITERS.
Channel(q) ==
  /\ mail'[q] = "closed" =>
       \/ mail[q] = "closed"
       \/ Of(q) \in Calls /\ row[Of(q)] \in Ends
  /\ waiter'[Of(q)] = q => waiter[Of(q)] = q \/ ask'[q].pc \notin Early
  /\ ask'[q].pc = "withdrawn" => ask[q].pc = "withdrawn" \/ row'[Of(q)] \in Ends

LEMMA ChannelMoves ==
  ASSUME IInv, [Next]_vars, NEW p \in Asks
  PROVE  Channel(p)
<1>0. /\ ask \in [Asks -> AskRecord] /\ Known /\ Aimed
      /\ row \in [Calls -> {"none", Pending} \cup Ends \cup Options]
      /\ waiter \in [Calls -> Asks \cup {NoAsk}]
      /\ \A q \in Asks : Of(q) \in Calls
  BY ApprovalAssumption DEF IInv, TypeOK, Of, AskRecord, Outs
<1> USE <1>0 DEF Channel, AskRecord, GoesOn, GoesOnWith
<1>1. CASE UNCHANGED <<mail, waiter, ask>>
  BY <1>1
<1>2. ASSUME NEW k \in Calls, Wakes(k)
      PROVE  Channel(p)
  <2>1. waiter[k] = p => Of(p) = k /\ row[k] \notin {"none", Pending}
    BY <1>2, ApprovalAssumption DEF Wakes, Aimed, Known, Settled
  <2>2. mail'[p] = "closed" =>
          mail[p] = "closed" \/ (waiter[k] = p /\ row[k] \notin Options)
    <3>1. "closed" \notin Options
      BY ApprovalAssumption
    <3>2. mail'[p] = IF p = waiter[k] THEN (IF row[k] \in Options THEN row[k] ELSE "closed")
                     ELSE mail[p]
      BY <1>2 DEF Wakes
    <3> QED  BY <3>1, <3>2
  <2>3. waiter'[Of(p)] = p => waiter[Of(p)] = p
    BY <1>2, ApprovalAssumption DEF Wakes
  <2>4. UNCHANGED ask
    BY <1>2 DEF Wakes
  <2> QED  BY <2>1, <2>2, <2>3, <2>4
<1>3. ASSUME NEW q \in Asks, Registers(q)
      PROVE  Channel(p)
  BY <1>3 DEF Registers, Early
<1>4. ASSUME NEW q \in Asks, Tidies(q)
      PROVE  Channel(p)
  BY <1>4, ApprovalAssumption DEF Tidies
<1>5. CASE Crash
  BY <1>5, ApprovalAssumption DEF Crash
<1>6. CASE ExecutorEnds
  BY <1>6 DEF ExecutorEnds, Drops
<1>7. ASSUME NEW q \in Asks, Withdraws(q)
      PROVE  Channel(p)
  BY <1>7 DEF Withdraws, Settles, Ends
<1>8. ASSUME NEW q \in Asks, Begins(q) \/ EnterReads(q) \/ EnterWrites(q) \/ Creates(q)
             \/ Notifies(q) \/ Marks(q)
      PROVE  Channel(p)
  BY <1>8 DEF Begins, EnterReads, Reads, EnterWrites, Writes, Creates, Notifies, Marks, memory
<1>9. ASSUME NEW q \in Asks, Rechecks(q) \/ Announces(q) \/ Receives(q) \/ Withdrawn(q)
             \/ LeaveReads(q) \/ LeaveWrites(q)
      PROVE  Channel(p)
  BY <1>9 DEF Rechecks, Announces, Receives, Withdrawn, LeaveReads, Reads, LeaveWrites,
     Writes, memory
<1>10. ASSUME NEW k \in Calls, Resolves(k) \/ Lapses(k) \/ Expires(k) \/ SweepCancels(k)
              \/ Counts(k) \/ Restores(k) \/ Archives(k) \/ BootTidies(k)
       PROVE  Channel(p)
  BY <1>1, <1>10 DEF Resolves, Lapses, Expires, SweepCancels, Counts, Restores, Archives,
     BootTidies, memory
<1>11. CASE Bind \/ Finalize \/ Inactive \/ StopReads \/ StopWrites \/ StopTells
            \/ SweepBegins \/ BootExpires \/ BootRecovers \/ UNCHANGED vars
  BY <1>1, <1>11 DEF Bind, Finalize, Inactive, StopReads, StopWrites, StopTells,
     SweepBegins, BootExpires, BootRecovers, vars, memory
<1> QED
  BY <1>2, <1>3, <1>4, <1>5, <1>6, <1>7, <1>8, <1>9, <1>10, <1>11
  DEF Next, Stopping, Booting, Request, Closing

\* Every source is a reason.
LEMMA SourcesAreGrounds ==
  ASSUME IInv, Grounded, NEW q \in Asks, Source(q)
  PROVE  Grounds(q, ask'[q].out)
<1>0. /\ row \in [Calls -> {"none", Pending} \cup Ends \cup Options]
      /\ mail \in [Asks -> {"none", "closed"} \cup Options]
      /\ Of(q) \in Calls
      /\ Options \cap {"none", "closed", "cancelled", "expired"} = {}
  BY ApprovalAssumption DEF IInv, TypeOK, Of, Ends
<1> DEFINE v == ask'[q].out
<1>1. ASSUME row[Of(q)] \notin {"none", Pending}, v = Answer(row[Of(q)])
      PROVE  Grounds(q, v)
  BY <1>0, <1>1 DEF Answer, Grounds
<1>2. ASSUME mail[q] # "none", v = Answer(mail[q])
      PROVE  Grounds(q, v)
  BY <1>0, <1>2 DEF Answer, Grounds, Grounded, IInv, Faithful
<1>3. ASSUME ask[q].pc = "wait", row[Of(q)] # Pending, Home(q) \in told, v = "cancelled"
      PROVE  Grounds(q, v)
  <2>1. row[Of(q)] # "none"
    BY <1>3 DEF IInv, Known, Created, Registered
  <2> QED  BY <1>0, <1>3, <2>1 DEF Grounds
<1>4. ASSUME ask[q].pc = "register", waiter[Of(q)] # NoAsk, v = "duplicate"
      PROVE  Grounds(q, v)
  <2> DEFINE p == waiter[Of(q)]
  <2>1. p \in Asks /\ Of(p) = Of(q)
    BY <1>0, <1>4 DEF IInv, Aimed
  <2>2. ask[p].pc \notin Early
    BY <2>1 DEF Grounded
  <2> QED  BY <1>4, <2>1, <2>2 DEF Grounds, Early
<1>5. CASE ask[q].pc = "withdrawn" /\ v = "cancelled"
  BY <1>5 DEF Grounded, Grounds
<1> QED  BY <1>1, <1>2, <1>3, <1>4, <1>5 DEF Source, Grounded, Grounds

LEMMA GroundedHolds ==
  ASSUME IInv, Grounded, [Next]_vars
  PROVE  Grounded'
<1>1. SUFFICES ASSUME NEW q \in Asks
               PROVE  /\ ask'[q].pc \in Answered => Grounds(q, ask[q].out)'
                      /\ ask'[q].pc = "withdrawn" => row'[Of(q)] \in Ends
                      /\ mail'[q] = "closed" => row'[Of(q)] \in Ends
                      /\ waiter'[Of(q)] = q => ask'[q].pc \notin Early
  BY DEF Grounded, Of
<1>2. Channel(q)
  BY ChannelMoves
<1>3. Of(q) \in Calls
  BY ApprovalAssumption DEF Of
<1>4. row[Of(q)] \in Ends => row'[Of(q)] \in Ends
  BY <1>3, RowsMove DEF RowMoves, Pending, Ends
<1>5. ASSUME ask'[q].pc \in Answered
      PROVE  Grounds(q, ask[q].out)'
  <2>1. Grounds(q, ask'[q].out)
    BY <1>5, AnswersHaveSource, SourcesAreGrounds
  <2>2. \A v : Grounds(q, v) => Grounds(q, v)'
    BY GroundsStay
  <2> QED  BY <2>1, <2>2 DEF Grounds
<1>6. waiter'[Of(q)] = q => ask'[q].pc \notin Early
  BY <1>2, RequestsAge DEF Channel, Grounded
<1> QED  BY <1>2, <1>4, <1>5, <1>6 DEF Channel, Grounded

\* The mapping, step by step.
LEMMA StepDecides ==
  ASSUME IInv, [Next]_vars, NEW k \in Calls
  PROVE  Service!Decides(k)
<1>1. RowMoves(k)
  BY RowsMove
<1>2. row[k] \in {"none", Pending} \cup Ends \cup Options /\ "cancelled" \in Ends
  BY DEF IInv, TypeOK, Ends
<1> QED
  BY <1>1, <1>2 DEF RowMoves, Service!Decides, Service!Ends, Ends, Pending, Of, Serving

LEMMA StepAnswers ==
  ASSUME IInv, Grounded, [Next]_vars, NEW q \in Asks
  PROVE  Service!Answers(q)
<1>1. CASE ask'[q].pc = "done" /\ ask[q].pc # "done"
  <2>1. ask[q].pc # "off"
    <3>1. ask \in [Asks -> AskRecord]
      BY DEF IInv, TypeOK, AskRecord, Outs
    <3>2. Begins(q) => ask'[q].pc = "enter"
      BY <3>1 DEF Begins, GoesOn, AskRecord
    <3> QED  BY <1>1, <3>2, RequestsMove DEF Steady, Finished
  <2>2. Grounds(q, ask'[q].out)
    BY <1>1, AnswersHaveSource, SourcesAreGrounds DEF Answered
  <2>3. Service!Fits(q, ask'[q].out)
    BY <2>2 DEF Grounds, Service!Fits, Service!Ends, Ends, Of, Home
  <2> QED  BY <1>1, <2>1, <2>3 DEF Service!Answers
<1>2. CASE ask[q].pc = "done"
  <2>1. ask'[q] = ask[q]
    BY <1>2, RequestsMove DEF Steady, Begins, Finished
  <2> QED  BY <2>1 DEF Service!Answers
<1>3. CASE ask'[q].pc # "done" /\ ask[q].pc # "done"
  BY <1>3 DEF Service!Answers
<1> QED  BY <1>1, <1>2, <1>3

LEMMA StepServes ==
  ASSUME IInv, Grounded, [Next]_vars
  PROVE  Service!Next
<1>1. \A q \in Asks : ask[q].pc # "off" => ask'[q].pc # "off"
  BY RequestsMove DEF Steady, Begins, Finished
<1>2. \A k \in Calls : boot.pc = "expire" /\ row[k] = Pending =>
        (boot'.pc = "expire" /\ row'[k] = Pending) \/ row'[k] \in Ends
  BY OrphansExpire
<1> QED
  BY <1>1, <1>2, HaltedStayHalted, StepDecides, StepAnswers
  DEF Service!Next, Service!Ends, Ends

(* The service keeps what ApprovalSpec promises, whatever the user, the    *)
(* timers, the stops, the removals and the restarts do, and however many   *)
(* requests there are about one call: what an executor is answered is the  *)
(* decision, which is asked for once, falls once and stays, and which the  *)
(* user cannot take any more for a process that has died.                  *)
THEOREM DecisionsAreKept == Spec => DecisionsKept
<1>1. Init => Service!Init
  BY DEF Init, Service!Init, NoBoot, Idle
<1>2. Init => Grounded
  BY ApprovalAssumption DEF Init, Grounded, Idle, Answered, Of
<1>3. IInv /\ Grounded /\ [Next]_vars => Grounded'
  BY GroundedHolds
<1>4. IInv /\ Grounded /\ [Next]_vars => Service!Next
  BY StepServes
<1>5. Spec => []Grounded
  BY <1>2, <1>3, Invariance, PTL DEF Spec
<1> QED  BY <1>1, <1>4, <1>5, Invariance, PTL DEF Spec, DecisionsKept, Service!Spec
==============================================================================
