------------------------------- MODULE MsgBus -------------------------------
(***************************************************************************)
(* The runtime's message bus (msg_bus.rs): one bounded FIFO for operator   *)
(* commands, triggers and agent reports.  A bus is the record              *)
(*   [queue, capacity, dropped]                                            *)
(* and Push is the whole of MsgBus::push.  Trigger details, timestamps and *)
(* the ids inside triggers and reports are not read by any consumer and    *)
(* are left out.                                                           *)
(***************************************************************************)
EXTENDS Integers, Sequences

Command == {"Approve", "Deny", "Claim", "Complete", "Recompute"}

TriggerKind == {"GraphChanged", "CriticalPathChanged", "DeadlineApproaching",
                "AuthNeeded", "PhysicalBeacon", "HootlWorkAvailable"}

ReportKind == {"Claimed", "Completed"}

Manual(c, t) == [type |-> "Manual", kind |-> c, id |-> t]
Trigger(k)   == [type |-> "Trigger", kind |-> k, id |-> 0]
Agent(k)     == [type |-> "Agent", kind |-> k, id |-> 0]

BusMessage == [type : {"Manual"}, kind : Command, id : Nat]
         \cup [type : {"Trigger"}, kind : TriggerKind, id : {0}]
         \cup [type : {"Agent"}, kind : ReportKind, id : {0}]

Bus == [queue : Seq(BusMessage), capacity : Nat \ {0}, dropped : Nat]

NewBus(cap) == [queue |-> <<>>, capacity |-> cap, dropped |-> 0]

-----------------------------------------------------------------------------

\* Mutant: the loop drops the oldest message, whatever it is.
StopsAfter_anyType(b, k) == Len(b.queue) - k < b.capacity

\* The while loop of push stops after k pops: there is room again, or the front is not
\* a trigger.
StopsAfter(b, k) ==
    \/ Len(b.queue) - k < b.capacity
    \/ b.queue[k + 1].type # "Trigger"

\* The number of oldest triggers the loop drops: it goes on while it does not stop.
FrontDrops(b) ==
    CHOOSE k \in 0..Len(b.queue) :
       /\ StopsAfter(b, k)
       /\ \A j \in 0..(k - 1) : ~StopsAfter(b, j)

\* A command is always queued, at the price of a larger capacity.
PushManual(b, m) ==
    [queue    |-> Append(b.queue, m),
     capacity |-> IF Len(b.queue) >= b.capacity THEN b.capacity + 1 ELSE b.capacity,
     dropped  |-> b.dropped]

\* A trigger or a report first drops the oldest triggers at the front; when that makes
\* no room the trigger itself is dropped, and the report is queued over the capacity.
PushOther(b, m) ==
    LET k    == FrontDrops(b)
        rest == SubSeq(b.queue, k + 1, Len(b.queue))
        full == Len(rest) >= b.capacity
    IN  IF full /\ m.type = "Trigger"
        THEN [queue |-> rest, capacity |-> b.capacity, dropped |-> b.dropped + k + 1]
        ELSE [queue |-> Append(rest, m), capacity |-> b.capacity, dropped |-> b.dropped + k]

Push(b, m) == IF m.type = "Manual" THEN PushManual(b, m) ELSE PushOther(b, m)

PushIf(c, b, m) == IF c THEN Push(b, m) ELSE b

Pop(b) == [b EXCEPT !.queue = Tail(@)]
=============================================================================
