-------------------------- MODULE DeliveryProjection --------------------------
(***************************************************************************)
(* What a client makes of the deliveries it is told about: the reducer of  *)
(* frontend/src/context/workspace/chatDeliveryRuntime.ts.                   *)
(*                                                                         *)
(* The server's side is the phase of a delivery as in DeliverySpec.  A     *)
(* member's queue snapshot lists its waiting, active and unanswered failed *)
(* deliveries.  The client tells four things apart: it does not know the   *)
(* delivery, it shows it as queued, it shows a running card, or it has     *)
(* seen it end.  Display fields are left out, and so is the correlation by *)
(* run or source message: a delivery is known by its id.                   *)
(***************************************************************************)
EXTENDS Naturals

CONSTANT RowIds

Shown   == {"waiting", "active"}                \* not terminal for the client
Item    == {"none", "waiting", "active", "blocked"}
Display == {"none", "ended"} \cup Shown

Items    == [RowIds -> Item]
Displays == [RowIds -> Display]

\* snapshot_from_messages over active_messages
QueueItems(P) ==
    [i \in RowIds |-> IF P[i] \in Item THEN P[i] ELSE "none"]

ObservedRaw(item) == item   \* mutant: a failed status is shown as it is

\* QUEUED_MESSAGE_STATUS_MAP: a failure is terminal for the client.
Observed(item) == IF item = "blocked" THEN "ended" ELSE item

Rank(status) == IF status = "waiting" THEN 0 ELSE IF status = "active" THEN 1 ELSE 2

\* mergeChatDelivery: an end is final, and no status is downgraded.
Merge(old, new) ==
    CASE old = "none"                    -> new
      [] old = "ended"                   -> old
      [] old \in Shown /\ Rank(new) >= Rank(old) -> new
      [] OTHER                           -> old

ReplaceKeepsGone(V, items) ==   \* mutant: what is no longer listed stays
    [i \in RowIds |-> IF items[i] = "none" THEN V[i]
                      ELSE Merge(V[i], Observed(items[i]))]

\* applyMemberQueueSnapshot: merge what is listed, end what no longer is.
ReplaceMember(V, items) ==
    [i \in RowIds |->
        IF items[i] # "none" THEN Merge(V[i], Observed(items[i]))
        ELSE IF V[i] \in Shown THEN "ended" ELSE V[i]]

\* A fresh snapshot replaces the projection, without the terminal entries.
Replace(items) ==
    [i \in RowIds |-> IF items[i] \in Shown THEN items[i] ELSE "none"]

\* A stale one is merged: nothing is removed, nothing downgraded, and an
\* ended delivery the client does not know is not added.
MergeOnly(V, items) ==
    [i \in RowIds |->
        IF items[i] = "none" \/ (V[i] = "none" /\ Observed(items[i]) = "ended")
        THEN V[i]
        ELSE Merge(V[i], Observed(items[i]))]
===============================================================================
