--------------------------- MODULE OrderTracker ---------------------------
(***************************************************************************)
(* Orders in services/execution/app.py: the main thread submits the slices *)
(* of one approved REBALANCE, the AsyncOrderTracker thread follows the     *)
(* accepted orders until they end, and both share the dedup keys and the   *)
(* tracking queue in Redis.  The exchange is the environment.              *)
(*                                                                         *)
(* Everything in Redis (copies of the approved message, dedup, queue,      *)
(* exec.cycle.done) and on the exchange outlives a restart of the process; *)
(* the program counters and the tracker's snapshot do not.  A slice i has  *)
(* the client order id cycle:symbol:i:side, here i itself; an order's      *)
(* exchange id is its place in orders.                                     *)
(***************************************************************************)
EXTENDS Naturals, Sequences

CONSTANTS
  Slices,     \* number of slices of the cycle's plan
  Venues,     \* exchanges, by their order ids: "int", or "text" that int() refuses
  MaxCopies,  \* bound of the model: entries of the approved message at first
  MaxOrders,  \* bound of the model: orders the exchange accepts
  MaxFaults   \* bound of the model: restarts and calls that raise

ASSUME TrackerAssumption ==
  /\ Slices \in Nat \ {0}
  /\ Venues \subseteq {"int", "text"}
  /\ MaxCopies \in Nat \ {0}
  /\ MaxOrders \in Nat
  /\ MaxFaults \in Nat

VARIABLES
  copies,     \* entries of the approved message still to be acknowledged
  cycleDone,  \* exec.cycle.done:<cycle> is set
  pc, slice,  \* the main thread and the slice it is at
  cur,        \* what place_limit returned: [oid, st]
  dedup,      \* [1..Slices -> [st, oid]]: the dedup keys
  venue,      \* the exchange that is configured
  orders,     \* its orders: Seq of [cid, st]
  queue,      \* exec.order_tracking: Seq of [oid, poll]
  reports,    \* [1..MaxOrders -> SUBSET statuses] seen in exec.reports
  expired,    \* orders whose deadline_ts has passed
  tpc,        \* the tracker thread
  snap, at,   \* its LRANGE result and its place in it
  late,       \* the orders it found past their deadline, by the clock it read
  outcome,    \* terminal status it is about to report
  seen,       \* the dedup value it has read
  gone,       \* its to_remove
  faults,     \* restarts and raised calls so far
  acked,      \* history: orders a dedup key has named as ACK or FILLED
  astray      \* history: orders a fault cut loose before they were tracked

mainVars == <<copies, cycleDone, pc, slice, cur>>
trackerVars == <<tpc, snap, at, late, outcome, seen, gone>>
world == <<venue, expired, faults>>
history == <<acked, astray>>
vars == <<copies, cycleDone, pc, slice, cur, dedup, venue, orders, queue,
          reports, expired, tpc, snap, at, late, outcome, seen, gone, faults,
          acked, astray>>

Cids == 1 .. Slices
Oids == 1 .. Len(orders)
Submitted == {"ACK", "FILLED"}             \* what stops a second PLACE
Failed == {"CANCELED", "REJECTED"}
Statuses == Submitted \cup Failed
NoOrder == [oid |-> 0, st |-> "none"]
Item == [oid : 1 .. MaxOrders, poll : {0, 1}]
Key == [oid : 0 .. MaxOrders, st : Statuses \cup {"none"}]

Init ==
  /\ copies \in 1 .. MaxCopies
  /\ cycleDone = FALSE
  /\ pc = "idle"
  /\ slice = 1
  /\ cur = NoOrder
  /\ dedup = [c \in Cids |-> NoOrder]
  /\ venue \in Venues
  /\ orders = <<>>
  /\ queue = <<>>
  /\ reports = [o \in 1 .. MaxOrders |-> {}]
  /\ expired = {}
  /\ tpc = "idle"
  /\ snap = <<>>
  /\ at = 1
  /\ late = {}
  /\ outcome = "none"
  /\ seen = NoOrder
  /\ gone = {}
  /\ faults = 0
  /\ acked = {}
  /\ astray = {}

Fault == faults < MaxFaults /\ faults' = faults + 1

-----------------------------------------------------------------------------
(* The main thread: one approved message *)

GoTo(label) ==
  /\ pc' = label
  /\ UNCHANGED <<copies, cycleDone, slice, cur>>

NextSlice ==
  /\ pc' = "slice"
  /\ slice' = slice + 1
  /\ cur' = NoOrder
  /\ UNCHANGED <<copies, cycleDone>>

\* live_cycle_guard
CycleAllowed == ~cycleDone

\* XREADGROUP or XAUTOCLAIM hands the message over. live_cycle_guard turns it
\* down when the cycle has been executed.
Take ==
  /\ pc = "idle"
  /\ copies > 0
  /\ pc' = IF CycleAllowed THEN "slice" ELSE "ack"
  /\ UNCHANGED <<copies, cycleDone, slice, cur, dedup, orders, queue, reports, world>>
  /\ UNCHANGED trackerVars /\ UNCHANGED history

\* A slice is skipped: the control mode, the price, the size or the notional
\* rules it out, or its dedup key says that it has been submitted.
SkipSlice ==
  /\ pc = "slice"
  /\ slice <= Slices
  /\ NextSlice
  /\ UNCHANGED <<dedup, orders, queue, reports, world>>
  /\ UNCHANGED trackerVars /\ UNCHANGED history

\* The loop ends: a newer cycle was approved (the message is acknowledged
\* only), the mode has become HALT, or every slice has been through.
LeaveLoop ==
  /\ pc = "slice"
  /\ \/ slice <= Slices /\ GoTo("ack")
     \/ GoTo("done")
  /\ UNCHANGED <<dedup, orders, queue, reports, world>>
  /\ UNCHANGED trackerVars /\ UNCHANGED history

\* Variant: only a filled order counts as submitted.
MayPlaceUnlessFilled == dedup[slice].st # "FILLED"

\* The dedup check of the slice loop
MayPlace == dedup[slice].st \notin Submitted

\* The dedup key allows the slice: the intent goes to exec.orders.
Intend ==
  /\ pc = "slice"
  /\ slice <= Slices
  /\ MayPlace
  /\ GoTo("place")
  /\ UNCHANGED <<dedup, orders, queue, reports, world>>
  /\ UNCHANGED trackerVars /\ UNCHANGED history

\* The order bucket is empty, or the exchange refuses the order: a REJECTED
\* report without an exchange id, and the next slice.
NotPlaced ==
  /\ pc = "place"
  /\ NextSlice
  /\ UNCHANGED <<dedup, orders, queue, reports, world>>
  /\ UNCHANGED trackerVars /\ UNCHANGED history

Accept(st) ==
  /\ Len(orders) < MaxOrders
  /\ orders' = Append(orders, [cid |-> slice, st |-> st])

\* place_limit: the exchange accepts the order, which may fill or end without a
\* fill ("canceled": cancelled, expired, refused) at once. The adapter with text
\* ids always answers "ack".
Place ==
  /\ pc = "place"
  /\ \E st \in IF venue = "text" THEN {"open"} ELSE {"open", "filled", "canceled"} :
       /\ Accept(st)
       /\ cur' = [oid |-> Len(orders) + 1,
                  st |-> CASE st = "open" -> "ACK"
                           [] st = "filled" -> "FILLED"
                           [] st = "canceled" -> "CANCELED"]
  /\ pc' = "dedup"
  /\ UNCHANGED <<copies, cycleDone, slice, dedup, queue, reports, world>>
  /\ UNCHANGED trackerVars /\ UNCHANGED history

\* The exchange accepts the order and the call raises all the same. The adapter
\* of Hyperliquid does not pass the client order id on, and no adapter looks an
\* order up by it, so nothing finds the order again.
PlaceReplyLost ==
  /\ pc = "place"
  /\ Fault
  /\ Accept("open")
  /\ astray' = astray \cup {Len(orders) + 1}
  /\ NextSlice
  /\ UNCHANGED <<dedup, queue, reports, venue, expired, acked>>
  /\ UNCHANGED trackerVars

\* The exchange accepts the order and its answer names no order id:
\* build_submit_report makes it REJECTED, the order is not tracked, and its key
\* lets the slice be placed again.
PlaceWithoutId ==
  /\ pc = "place"
  /\ Fault
  /\ Accept("open")
  /\ dedup' = [dedup EXCEPT ![slice] = [oid |-> 0, st |-> "REJECTED"]]
  /\ astray' = astray \cup {Len(orders) + 1}
  /\ NextSlice
  /\ UNCHANGED <<queue, reports, venue, expired, acked>>
  /\ UNCHANGED trackerVars

\* Variant: the order goes to the tracker before it is reported.
WriteDedupUnreported ==
  /\ pc = "dedup"
  /\ dedup' = [dedup EXCEPT ![slice] = cur]
  /\ acked' = IF cur.st \in Submitted THEN acked \cup {cur.oid} ELSE acked
  /\ GoTo("track")
  /\ UNCHANGED <<orders, queue, reports, world, astray>>
  /\ UNCHANGED trackerVars

WriteDedup ==
  /\ pc = "dedup"
  /\ dedup' = [dedup EXCEPT ![slice] = cur]
  /\ acked' = IF cur.st \in Submitted THEN acked \cup {cur.oid} ELSE acked
  /\ GoTo("report")
  /\ UNCHANGED <<orders, queue, reports, world, astray>>
  /\ UNCHANGED trackerVars

ReportSubmit ==
  /\ pc = "report"
  /\ reports' = [reports EXCEPT ![cur.oid] = @ \cup {cur.st}]
  /\ GoTo("track")
  /\ UNCHANGED <<dedup, orders, queue, world>>
  /\ UNCHANGED trackerVars /\ UNCHANGED history

\* Redis fails under the handler of place_limit's exceptions: the order is
\* reported REJECTED and the loop goes on without it.
SubmitRaises ==
  /\ pc \in {"dedup", "report"}
  /\ Fault
  /\ astray' = astray \cup {cur.oid}
  /\ NextSlice
  /\ UNCHANGED <<dedup, orders, queue, reports, venue, expired, acked>>
  /\ UNCHANGED trackerVars

\* add_order_to_track
Track ==
  /\ pc = "track"
  /\ venue = "int"
  /\ queue' = Append(queue, [oid |-> cur.oid, poll |-> 0])
  /\ NextSlice
  /\ UNCHANGED <<dedup, orders, reports, world>>
  /\ UNCHANGED trackerVars /\ UNCHANGED history

\* An exchange id that is no integer is not tracked: a REJECTED report, then
\* the dedup key.
ReportUntracked ==
  /\ pc = "track"
  /\ venue = "text"
  /\ reports' = [reports EXCEPT ![cur.oid] = @ \cup {"REJECTED"}]
  /\ GoTo("untracked")
  /\ UNCHANGED <<dedup, orders, queue, world>>
  /\ UNCHANGED trackerVars /\ UNCHANGED history

DedupUntracked ==
  /\ pc = "untracked"
  /\ dedup' = [dedup EXCEPT ![slice] = [oid |-> cur.oid, st |-> "REJECTED"]]
  /\ NextSlice
  /\ UNCHANGED <<orders, queue, reports, world>>
  /\ UNCHANGED trackerVars /\ UNCHANGED history

\* exec.done in the audit log and mark_live_cycle_done
MarkDone ==
  /\ pc = "done"
  /\ cycleDone' = TRUE
  /\ pc' = "ack"
  /\ UNCHANGED <<copies, slice, cur, dedup, orders, queue, reports, world>>
  /\ UNCHANGED trackerVars /\ UNCHANGED history

\* Anything else in the handler raises, its XACK included; retry_or_dlq adds the message again
\* or, out of retries, dead-letters it, and it is acknowledged.
HandlerRaises ==
  /\ pc \in {"slice", "place", "track", "untracked", "done", "ack"}
  /\ Fault
  /\ astray' = IF pc = "track" THEN astray \cup {cur.oid} ELSE astray
  /\ pc' = "readd"
  /\ cur' = NoOrder
  /\ UNCHANGED <<copies, cycleDone, slice, dedup, orders, queue, reports, venue, expired, acked>>
  /\ UNCHANGED trackerVars

RetryOrDlq ==
  /\ pc = "readd"
  /\ copies' \in {copies, copies + 1}
  /\ pc' = "drop"
  /\ UNCHANGED <<cycleDone, slice, cur, dedup, orders, queue, reports, world>>
  /\ UNCHANGED trackerVars /\ UNCHANGED history

Ack ==
  /\ pc \in {"ack", "drop"}
  /\ copies' = copies - 1
  /\ pc' = "idle"
  /\ slice' = 1
  /\ UNCHANGED <<cycleDone, cur, dedup, orders, queue, reports, world>>
  /\ UNCHANGED trackerVars /\ UNCHANGED history

Main ==
  \/ Take \/ SkipSlice \/ LeaveLoop \/ Intend \/ NotPlaced \/ Place
  \/ WriteDedup \/ ReportSubmit \/ Track \/ ReportUntracked \/ DedupUntracked
  \/ MarkDone \/ RetryOrDlq \/ Ack

-----------------------------------------------------------------------------
(* The tracker thread: one pass of _process_tracking_queue after the other *)

order == snap[at].oid
TimedOut == order \in late
Scanning == tpc = "item" /\ at <= Len(snap)

Pass(label) ==
  /\ tpc' = label
  /\ UNCHANGED <<snap, at, late, outcome, seen, gone>>

\* Locals of a finished pass, and of a finished item, are forgotten.
EndPass ==
  /\ tpc' = "idle"
  /\ snap' = <<>>
  /\ at' = 1
  /\ late' = {}
  /\ outcome' = "none"
  /\ seen' = NoOrder
  /\ gone' = {}

NextItem ==
  /\ tpc' = "item"
  /\ at' = at + 1
  /\ outcome' = "none"
  /\ seen' = NoOrder
  /\ UNCHANGED <<snap, late>>

\* LRANGE of the whole queue; the clock is read once for the pass.
Scan ==
  /\ tpc = "idle"
  /\ queue # <<>>
  /\ tpc' = "item"
  /\ snap' = queue
  /\ at' = 1
  /\ late' = {o \in expired : \E i \in DOMAIN queue : queue[i].oid = o}
  /\ gone' = {}
  /\ UNCHANGED <<outcome, seen, dedup, orders, queue, reports, world>>
  /\ UNCHANGED mainVars /\ UNCHANGED history

\* timeout_terminal_decision
TimeoutDecision(called, raised) ==
  IF called /\ ~raised THEN "CANCELED" ELSE "REJECTED"

\* Deadline passed. The cancel bucket is empty and nothing is cancelled, or
\* cancel_order is called: it may do its work or not, and return (its result is
\* not looked at) or raise.
Timeout ==
  /\ Scanning
  /\ TimedOut
  /\ \E called, raised \in BOOLEAN :
       /\ outcome' = TimeoutDecision(called, raised)
       /\ orders' \in {orders} \cup
            (IF called /\ orders[order].st = "open"
             THEN {[orders EXCEPT ![order].st = "canceled"]} ELSE {})
  /\ tpc' = "report"
  /\ UNCHANGED <<snap, at, late, seen, gone, dedup, queue, reports, world>>
  /\ UNCHANGED mainVars /\ UNCHANGED history

\* Polled less than a second ago, or the status bucket is empty.
NotPolled ==
  /\ Scanning
  /\ ~TimedOut
  /\ NextItem
  /\ UNCHANGED <<gone, dedup, orders, queue, reports, world>>
  /\ UNCHANGED mainVars /\ UNCHANGED history

\* LSET at the item's place in the snapshot, with a new last_poll_ts: the
\* stored text differs from the one in the snapshot from now on.
Lset == queue' = [queue EXCEPT ![at].poll = 1 - @]

\* get_order_status finds the order open, or fails.
PollOpen ==
  /\ Scanning
  /\ ~TimedOut
  /\ Lset
  /\ NextItem
  /\ UNCHANGED <<gone, dedup, orders, reports, world>>
  /\ UNCHANGED mainVars /\ UNCHANGED history

\* get_order_status finds the order filled or cancelled.
PollTerminal ==
  /\ Scanning
  /\ ~TimedOut
  /\ orders[order].st # "open"
  /\ outcome' = IF orders[order].st = "filled" THEN "FILLED" ELSE "CANCELED"
  /\ tpc' = "report"
  /\ UNCHANGED <<snap, at, late, seen, gone, dedup, orders, queue, reports, world>>
  /\ UNCHANGED mainVars /\ UNCHANGED history

\* _emit_terminal_report: the report, then the dedup key is read and written.
ReportOutcome ==
  /\ tpc = "report"
  /\ reports' = [reports EXCEPT ![order] = @ \cup {outcome}]
  /\ Pass("read")
  /\ UNCHANGED <<dedup, orders, queue, world>>
  /\ UNCHANGED mainVars /\ UNCHANGED history

ReadDedup ==
  /\ tpc = "read"
  /\ seen' = dedup[orders[order].cid]
  /\ tpc' = "write"
  /\ UNCHANGED <<snap, at, late, outcome, gone, dedup, orders, queue, reports, world>>
  /\ UNCHANGED mainVars /\ UNCHANGED history

\* A FILLED that was read is kept against CANCELED and REJECTED.
KeyToWrite ==
  IF seen.st = "FILLED" /\ outcome \in Failed THEN seen
  ELSE [oid |-> order, st |-> outcome]

\* Variant: a timed-out item is stored like a polled one.
StoreAlways == Lset

\* A polled item is stored with its new last_poll_ts, a timed-out one is not.
StoreItem == IF TimedOut THEN UNCHANGED queue ELSE Lset

WriteOutcome ==
  /\ tpc = "write"
  /\ dedup' = [dedup EXCEPT ![orders[order].cid] = KeyToWrite]
  /\ acked' = IF outcome \in Submitted THEN acked \cup {order} ELSE acked
  /\ gone' = gone \cup {snap[at]}
  /\ StoreItem
  /\ NextItem
  /\ UNCHANGED <<orders, reports, world, astray>>
  /\ UNCHANGED mainVars

\* The snapshot is through: one LREM for each value of to_remove.
EndScan ==
  /\ tpc = "item"
  /\ at > Len(snap)
  /\ Pass("remove")
  /\ UNCHANGED <<dedup, orders, queue, reports, world>>
  /\ UNCHANGED mainVars /\ UNCHANGED history

Without(s, i) == [j \in 1 .. Len(s) - 1 |-> IF j < i THEN s[j] ELSE s[j + 1]]

\* Variant: the queue is rewritten from what the pass has kept.
LremBySnapshot(value) == queue' = SelectSeq(snap, LAMBDA item : item # value)

Lrem(value) ==
  \/ /\ \A i \in DOMAIN queue : queue[i] # value
     /\ UNCHANGED queue
  \/ \E i \in DOMAIN queue :
       /\ queue[i] = value
       /\ \A j \in DOMAIN queue : queue[j] = value => i <= j
       /\ queue' = Without(queue, i)

Remove ==
  /\ tpc = "remove"
  /\ IF gone = {}
     THEN EndPass /\ UNCHANGED queue
     ELSE \E value \in gone :
            /\ Lrem(value)
            /\ gone' = gone \ {value}
            /\ UNCHANGED <<tpc, snap, at, late, outcome, seen>>
  /\ UNCHANGED <<dedup, orders, reports, world>>
  /\ UNCHANGED mainVars /\ UNCHANGED history

\* Redis fails under _emit_terminal_report. After a poll the item only gets its
\* new last_poll_ts; after a timeout the whole pass is abandoned.
TrackerRaises ==
  /\ tpc \in {"report", "read", "write"}
  /\ Fault
  /\ IF TimedOut THEN EndPass /\ UNCHANGED queue
     ELSE NextItem /\ Lset /\ UNCHANGED gone
  /\ UNCHANGED <<dedup, orders, reports, venue, expired>>
  /\ UNCHANGED mainVars /\ UNCHANGED history

Tracker ==
  \/ Scan \/ Timeout \/ NotPolled \/ PollOpen \/ PollTerminal
  \/ ReportOutcome \/ ReadDedup \/ WriteOutcome \/ EndScan \/ Remove

-----------------------------------------------------------------------------
(* The process and its environment *)

\* The process is killed and started again. A message that was taken stays
\* pending and is handed over again.
Crash ==
  /\ Fault
  /\ astray' = IF pc \in {"dedup", "report", "track"} THEN astray \cup {cur.oid}
               ELSE astray
  /\ pc' = "idle"
  /\ slice' = 1
  /\ cur' = NoOrder
  /\ EndPass
  /\ UNCHANGED <<copies, cycleDone, dedup, orders, queue, reports, venue, expired, acked>>

\* An open order fills, or the exchange or its owner cancels it.
Exchange ==
  /\ \E o \in Oids :
       /\ orders[o].st = "open"
       /\ \E st \in {"filled", "canceled"} : orders' = [orders EXCEPT ![o].st = st]
  /\ UNCHANGED <<dedup, queue, reports, world>>
  /\ UNCHANGED mainVars /\ UNCHANGED trackerVars /\ UNCHANGED history

Tracked(o) == \E i \in DOMAIN queue : queue[i].oid = o

\* The deadline of a tracked order passes.
Deadline ==
  /\ \E o \in Oids \ expired :
       /\ Tracked(o)
       /\ expired' = expired \cup {o}
  /\ UNCHANGED <<dedup, orders, queue, reports, venue, faults>>
  /\ UNCHANGED mainVars /\ UNCHANGED trackerVars /\ UNCHANGED history

Next ==
  \/ Main \/ PlaceReplyLost \/ PlaceWithoutId \/ SubmitRaises \/ HandlerRaises
  \/ Tracker \/ TrackerRaises
  \/ Crash \/ Exchange \/ Deadline

Spec == Init /\ [][Next]_vars

\* Both threads keep running and time passes; the exchange owes nothing.
FairSpec == Spec /\ WF_vars(Main) /\ WF_vars(Tracker) /\ WF_vars(Deadline)

-----------------------------------------------------------------------------
(* Properties *)

OrdersOf(c) == {o \in Oids : orders[o].cid = c}
Placing == Len(orders') > Len(orders)
InFlight(o) == cur.oid = o /\ pc \in {"dedup", "report", "track", "untracked"}

\* The tracker never reports the end of an order before the main thread has
\* reported its submission: consumers of exec.reports see ACK first.
SubmitReportedFirst ==
  \A o \in Oids : (Tracked(o) \/ (tpc = "report" /\ order = o)) => reports[o] # {}

\* A second order for a client order id is placed only when an earlier one was
\* reported CANCELED or REJECTED or its dedup key never said ACK or FILLED: a
\* redelivered message does not submit again what was acknowledged.
ReplaceOnlyAfterFailure ==
  [][Placing => \A c \in Cids :
       (OrdersOf(c) # {} /\ orders'[Len(orders')].cid = c) =>
         \E o \in OrdersOf(c) : reports[o] \cap Failed # {} \/ o \notin acked]_vars

\* An open order on the exchange is being submitted, in the tracking queue, or
\* was reported CANCELED or REJECTED, unless a fault hit between place_limit
\* and add_order_to_track. The two threads' uses of the queue lose none.
OpenOrdersWatched ==
  \A o \in Oids : orders[o].st = "open" =>
    InFlight(o) \/ Tracked(o) \/ reports[o] \cap Failed # {} \/ o \in astray

\* Every tracked order leaves the queue, with a terminal report.
TrackedOrdersEnd ==
  \A o \in 1 .. MaxOrders :
    (o \in Oids /\ Tracked(o)) ~>
      (~Tracked(o) /\ reports[o] \cap {"FILLED", "CANCELED", "REJECTED"} # {})

\* docs/services/execution.md section 7: after its ACK an order is polled until it
\* is FILLED, and reported so, or times out, and is cancelled and reported CANCELED.
\* What was ACK when submitted can only be FILLED by a poll.
OneOutcome ==
  \A o \in Oids : {"ACK", "FILLED"} \subseteq reports[o] => reports[o] \cap Failed = {}

=============================================================================
