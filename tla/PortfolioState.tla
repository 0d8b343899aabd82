--------------------------- MODULE PortfolioState ---------------------------
(***************************************************************************)
(* services/portfolio_state/app.py: one loop that reads exec.reports to    *)
(* keep the set of active order ids, reconciles the account into           *)
(* latest.state.snapshot, and asks the exchange for the status of every    *)
(* active order.                                                           *)
(*                                                                         *)
(* The stream, its group, the active set, the two hashes and the snapshot  *)
(* are in Redis and outlive the process; the program counter, the batch,   *)
(* the orders to poll and the clocks of the loop do not.  The numbers of   *)
(* the snapshot and of the backoff are left out: an order rests after a    *)
(* failed poll until its backoff has passed.  No more orders are active    *)
(* than one pass polls (MAX_ORDERS_PER_POLL, fifty).                       *)
(***************************************************************************)
EXTENDS Naturals, Sequences

CONSTANTS
  Orders,      \* exchange order ids
  MaxReports,  \* bound of the model: entries of exec.reports
  MaxFaults    \* bound of the model: restarts, lost replies, calls that raise

ASSUME PortfolioAssumption ==
  /\ MaxReports \in Nat
  /\ MaxFaults \in Nat

VARIABLES
  exch,       \* [Orders -> status]: the orders on the exchange
  log,        \* exec.reports: entry i is log[i]
  delivered,  \* the group's cursor
  pel, idle,  \* pending entries, and those idle for 30 s
  batch,      \* entries read and not yet finished with
  pc,         \* what the loop does next
  active,     \* active.exchange.oids
  mapped,     \* keys of active.exchange.oid_cycle_map
  resting,    \* orders whose backoff_ms has not passed
  asked,      \* orders this pass has still to poll
  leaving,    \* the one it is removing
  due,        \* what POLL_SECONDS and STATUS_POLL_SECONDS have made due
  latest,     \* latest.state.snapshot
  events,     \* entries forwarded to state.events
  dead,       \* entries put into dlq.exec.reports
  faults,     \* faults so far
  lastTry     \* history: how the last reconciliation ended

group == <<log, delivered, pel, idle, batch>>
tracking == <<active, mapped, resting>>
output == <<events, dead>>
health == <<latest, lastTry>>
asks == <<asked, leaving>>
vars == <<exch, log, delivered, pel, idle, batch, pc, active, mapped, resting,
          asked, leaving, due, latest, events, dead, faults, lastTry>>

\* One of the adapters' words for an order that has ended; any other word an
\* exchange has for it ("odd") is passed on as "ack".
Ended == {"filled", "canceled"}

\* An entry is the report of an order's submission or of its end, a report
\* without an integer order id, or one that fails the schema.
Report == [oid : Orders, st : {"ack", "end"}] \cup [st : {"anonymous", "bad"}]

Ids == DOMAIN log
TheEntry == CHOOSE i \in batch : \A j \in batch : i <= j
Processed(i) == i \in 1 .. delivered \ pel

TypeOK ==
  /\ exch \in [Orders -> {"none", "open", "odd"} \cup Ended]
  /\ log \in Seq(Report)
  /\ delivered \in 0 .. Len(log)
  /\ pel \subseteq 1 .. delivered
  /\ idle \subseteq pel
  /\ batch \subseteq pel
  /\ pc \in {"reports", "entry", "map", "unmap", "emit", "ack", "reconcile",
             "latest", "event", "failed", "poll", "ask", "forget"}
  /\ active \subseteq Orders
  /\ mapped \subseteq Orders
  /\ resting \subseteq Orders
  /\ asked \subseteq Orders
  /\ leaving \subseteq asked
  /\ due \subseteq {"reconcile", "poll"}
  /\ latest \in {"none", "healthy", "unhealthy"}
  /\ events \subseteq Ids
  /\ dead \subseteq Ids
  /\ faults \in 0 .. MaxFaults
  /\ lastTry \in {"none", "ok", "failed"}

\* Variant: a new process waits for its first period before it reconciles.
NothingDue == {}

\* last_snapshot_ts and last_status_ts start at zero.
DueAtStart == {"reconcile", "poll"}

Init ==
  /\ exch = [o \in Orders |-> "none"]
  /\ log = <<>>
  /\ delivered = 0
  /\ pel = {}
  /\ idle = {}
  /\ batch = {}
  /\ pc = "reports"
  /\ active = {}
  /\ mapped = {}
  /\ resting = {}
  /\ asked = {}
  /\ leaving = {}
  /\ due = DueAtStart
  /\ latest = "none"
  /\ events = {}
  /\ dead = {}
  /\ faults = 0
  /\ lastTry = "none"

Fault == faults < MaxFaults /\ faults' = faults + 1

-----------------------------------------------------------------------------
(* Reports *)

\* XAUTOCLAIM, or else XREADGROUP
Fetch ==
  IF idle # {}
  THEN /\ batch' = idle
       /\ idle' = {}
       /\ UNCHANGED <<delivered, pel>>
  ELSE /\ batch' = delivered + 1 .. Len(log)
       /\ delivered' = Len(log)
       /\ pel' = pel \cup delivered + 1 .. Len(log)
       /\ UNCHANGED idle

\* xreadgroup_json: what has been pending for 30 s, or else what is new.
ReadReports ==
  /\ pc = "reports"
  /\ Fetch
  /\ pc' = "entry"
  /\ UNCHANGED <<exch, log, tracking, asks, due, health, output, faults>>

\* The reply is lost: the entries are pending and nothing is handled.
ReadRaises ==
  /\ pc = "reports"
  /\ Fault
  /\ delivered' \in {delivered, Len(log)}
  /\ pel' = pel \cup delivered + 1 .. delivered'
  /\ pc' = "reconcile"
  /\ UNCHANGED <<exch, log, idle, batch, tracking, asks, due, health, output>>

EndOfBatch ==
  /\ pc = "entry"
  /\ batch = {}
  /\ pc' = "reconcile"
  /\ UNCHANGED <<exch, group, tracking, asks, due, health, output, faults>>

\* A report that fails require_env or the schema
DeadLetter ==
  /\ pc = "entry"
  /\ batch # {}
  /\ log[TheEntry].st = "bad"
  /\ dead' = dead \cup {TheEntry}
  /\ pc' = "ack"
  /\ UNCHANGED <<exch, group, tracking, asks, due, health, events, faults>>

\* _track_report_order, first call to Redis: SREM of an order that has ended,
\* SADD of any other; no call without an integer id.
TrackReport ==
  /\ pc = "entry"
  /\ batch # {}
  /\ \/ /\ log[TheEntry].st = "ack"
        /\ active' = active \cup {log[TheEntry].oid}
        /\ pc' = "map"
     \/ /\ log[TheEntry].st = "end"
        /\ active' = active \ {log[TheEntry].oid}
        /\ pc' = "unmap"
     \/ /\ log[TheEntry].st = "anonymous"
        /\ UNCHANGED active
        /\ pc' = "emit"
  /\ UNCHANGED <<exch, group, mapped, resting, asks, due, health, output, faults>>

\* _track_report_order, the hashes: the cycle and metadata without a backoff
MapReport ==
  /\ pc \in {"map", "unmap"}
  /\ mapped' = IF pc = "map" THEN mapped \cup {log[TheEntry].oid}
               ELSE mapped \ {log[TheEntry].oid}
  /\ resting' = resting \ {log[TheEntry].oid}
  /\ pc' = "emit"
  /\ UNCHANGED <<exch, group, active, asks, due, health, output, faults>>

\* The report's state.event
EmitEvent ==
  /\ pc = "emit"
  /\ events' = events \cup {TheEntry}
  /\ pc' = "ack"
  /\ UNCHANGED <<exch, group, tracking, asks, due, health, dead, faults>>

AckReport ==
  /\ pc = "ack"
  /\ pel' = pel \ {TheEntry}
  /\ idle' = idle \ {TheEntry}
  /\ batch' = batch \ {TheEntry}
  /\ pc' = "entry"
  /\ UNCHANGED <<exch, log, delivered, tracking, asks, due, health, output, faults>>

\* Variant: an entry whose handling raised is acknowledged.
DropOnError == pel \ {TheEntry}

KeepPending == pel

\* Anything raises: the entry stays pending and the batch goes on, or, when the
\* audit record raises too, is given up.
ReportRaises ==
  /\ pc \in {"entry", "map", "unmap", "emit", "ack"}
  /\ batch # {}
  /\ Fault
  /\ pel' = KeepPending
  /\ idle' = idle \cap pel'
  /\ batch' \in {batch \ {TheEntry}, {}}
  /\ pc' = "entry"
  /\ UNCHANGED <<exch, log, delivered, tracking, asks, due, health, output>>

-----------------------------------------------------------------------------
(* Reconciliation *)

ReconcileDue == "reconcile" \in due

SkipReconcile ==
  /\ pc = "reconcile"
  /\ ~ReconcileDue
  /\ pc' = "poll"
  /\ UNCHANGED <<exch, group, tracking, asks, due, health, output, faults>>

\* get_account_state and get_all_mids answer; the snapshot goes to state.snapshot.
Reconcile ==
  /\ pc = "reconcile"
  /\ ReconcileDue
  /\ due' = due \ {"reconcile"}
  /\ pc' = "latest"
  /\ UNCHANGED <<exch, group, tracking, asks, health, output, faults>>

SetLatest ==
  /\ pc = "latest"
  /\ latest' = "healthy"
  /\ pc' = "event"
  /\ UNCHANGED <<exch, group, tracking, asks, due, lastTry, output, faults>>

\* The reconcile event, and note_ok
ReconcileEvent ==
  /\ pc = "event"
  /\ lastTry' = "ok"
  /\ pc' = "poll"
  /\ UNCHANGED <<exch, group, tracking, asks, due, latest, output, faults>>

\* The exchange or Redis raises, even after the healthy snapshot is out.
ReconcileRaises ==
  /\ \/ pc = "reconcile" /\ ReconcileDue
     \/ pc \in {"latest", "event"}
  /\ Fault
  /\ due' = due \ {"reconcile"}
  /\ lastTry' = "failed"
  /\ pc' = "failed"
  /\ UNCHANGED <<exch, group, tracking, asks, latest, output>>

\* _unhealthy_state_snapshot. An exception here ends the process (Crash).
SetUnhealthy ==
  /\ pc = "failed"
  /\ latest' = "unhealthy"
  /\ pc' = "poll"
  /\ UNCHANGED <<exch, group, tracking, asks, due, lastTry, output, faults>>

-----------------------------------------------------------------------------
(* Order status *)

SkipPoll ==
  /\ pc = "poll"
  /\ "poll" \notin due
  /\ pc' = "reports"
  /\ UNCHANGED <<exch, group, tracking, asks, due, health, output, faults>>

\* _select_orders_to_poll
SelectOrders ==
  /\ pc = "poll"
  /\ "poll" \in due
  /\ due' = due \ {"poll"}
  /\ asked' = active \ resting
  /\ pc' = "ask"
  /\ UNCHANGED <<exch, group, tracking, leaving, health, output, faults>>

EndOfPoll ==
  /\ pc = "ask"
  /\ asked = {}
  /\ pc' = "reports"
  /\ UNCHANGED <<exch, group, tracking, asks, due, health, output, faults>>

\* Variant: only a fill counts as an end.
OnlyFilled == {"filled"}

\* _terminal_status
Terminal == Ended

\* SREM, before the two HDELs
UnsetFirst(o) == active' = active \ {o} /\ UNCHANGED mapped

\* get_order_status answers and its event is out. An order that is still open
\* gets metadata without a backoff, one that has ended leaves the active set.
AskOrder ==
  /\ pc = "ask"
  /\ \E o \in asked :
       IF exch[o] \in Terminal
       THEN /\ leaving' = {o}
            /\ UnsetFirst(o)
            /\ pc' = "forget"
            /\ UNCHANGED <<asked, resting>>
       ELSE /\ asked' = asked \ {o}
            /\ resting' = resting \ {o}
            /\ UNCHANGED <<pc, leaving, active, mapped>>
  /\ UNCHANGED <<exch, group, due, health, output, faults>>

\* The rest of the removal
Forget ==
  /\ pc = "forget"
  /\ active' = active \ leaving
  /\ mapped' = mapped \ leaving
  /\ resting' = resting \ leaving
  /\ asked' = asked \ leaving
  /\ leaving' = {}
  /\ pc' = "ask"
  /\ UNCHANGED <<exch, group, due, health, output, faults>>

\* Variant: an order whose poll failed is given up.
GiveUp(o) == active' = active \ {o}

KeepAsking(o) == UNCHANGED active

\* The exchange or Redis raises: the backoff doubles and the pass goes on, or,
\* when that cannot be stored or recorded either, is given up.
AskRaises ==
  /\ pc \in {"ask", "forget"}
  /\ Fault
  /\ \E o \in IF pc = "ask" THEN asked ELSE leaving :
       /\ KeepAsking(o)
       /\ resting' \in {resting, resting \cup {o}}
       /\ asked' \in {asked \ {o}, {}}
  /\ leaving' = {}
  /\ pc' = "ask"
  /\ UNCHANGED <<exch, group, mapped, due, health, output>>

Loop ==
  \/ ReadReports \/ EndOfBatch \/ DeadLetter \/ TrackReport \/ MapReport
  \/ EmitEvent \/ AckReport
  \/ SkipReconcile \/ Reconcile \/ SetLatest \/ ReconcileEvent \/ SetUnhealthy
  \/ SkipPoll \/ SelectOrders \/ EndOfPoll \/ AskOrder \/ Forget

Raises == ReadRaises \/ ReportRaises \/ ReconcileRaises \/ AskRaises

-----------------------------------------------------------------------------
(* The process, the clocks and the environment *)

service == <<pc, asked, leaving, due>>

Crash ==
  /\ Fault
  /\ batch' = {}
  /\ pc' = "reports"
  /\ asked' = {}
  /\ leaving' = {}
  /\ due' = DueAtStart
  /\ UNCHANGED <<exch, log, delivered, pel, idle, tracking, health, output>>

\* A period of the loop has passed.
Period(p) ==
  /\ p \notin due
  /\ due' = due \cup {p}
  /\ UNCHANGED <<exch, group, pc, asked, leaving, tracking, health, output, faults>>

\* A pending entry has been idle for 30 s.
Idle(i) ==
  /\ i \in pel \ (idle \cup batch)
  /\ idle' = idle \cup {i}
  /\ UNCHANGED <<exch, log, delivered, pel, batch, service, tracking, health,
                 output, faults>>

\* The backoff of an order has passed.
Rested(o) ==
  /\ o \in resting
  /\ resting' = resting \ {o}
  /\ UNCHANGED <<exch, group, service, active, mapped, health, output, faults>>

\* latest.state.snapshot has not been written for 60 s.
Expire ==
  /\ latest' = "none"
  /\ UNCHANGED <<exch, group, service, tracking, lastTry, output, faults>>

\* The exchange accepts an order; an open one ends.
Exchange ==
  /\ \E o \in Orders :
       \/ exch[o] = "none" /\ exch' = [exch EXCEPT ![o] = "open"]
       \/ /\ exch[o] \in {"none", "open"}
          /\ \E st \in {"odd"} \cup Ended : exch' = [exch EXCEPT ![o] = st]
  /\ UNCHANGED <<group, service, tracking, health, output, faults>>

\* services/execution: the first report of an order is that of its submission
\* or, when it ended at once, of its end. A timeout is reported as an end even
\* when the order is still open.
Publish ==
  /\ Len(log) < MaxReports
  /\ \E r \in Report :
       /\ r.st \in {"ack", "end"} =>
            exch[r.oid] # "none" /\ (r.st = "ack" => \A i \in Ids : log[i].st \in {"ack", "end"} => log[i].oid # r.oid)
       /\ log' = Append(log, r)
  /\ UNCHANGED <<exch, delivered, pel, idle, batch, service, tracking, health,
                 output, faults>>

Next ==
  \/ Loop \/ Raises \/ Crash \/ Expire \/ Exchange \/ Publish
  \/ \E p \in {"reconcile", "poll"} : Period(p)
  \/ \E i \in Ids : Idle(i)
  \/ \E o \in Orders : Rested(o)

Spec == Init /\ [][Next]_vars

\* The loop keeps running and time passes; the exchange and execution owe
\* nothing.
FairSpec ==
  /\ Spec
  /\ WF_vars(Loop)
  /\ \A p \in {"reconcile", "poll"} : WF_vars(Period(p))
  /\ \A i \in 1 .. MaxReports : WF_vars(Idle(i))
  /\ \A o \in Orders : WF_vars(Rested(o))

-----------------------------------------------------------------------------
(* Properties *)

Reported(o, st, ids) == \E i \in ids : log[i].st = st /\ log[i].oid = o

\* Every acknowledged entry of exec.reports was forwarded to state.events or
\* dead-lettered, whatever raised and whenever the process was restarted.
EventsForwarded == \A i \in Ids : Processed(i) => i \in events \cup dead

\* An order that is open on the exchange stays in the active set once its
\* submission has been processed, unless execution has reported its end.
OpenOrdersFollowed ==
  \A o \in Orders :
    (exch[o] = "open" /\ Reported(o, "ack", {i \in Ids : Processed(i)})
      /\ ~Reported(o, "end", Ids)) => o \in active

\* An active order has its cycle in the map, so that its events carry the cycle
\* that placed it, or its report is still to be handled (again).
ActiveOrdersMapped ==
  \A o \in active : o \in mapped \/ Reported(o, "ack", pel)

\* After a reconciliation that failed, latest.state.snapshot does not say
\* healthy when the loop goes on, even if the failure came after the healthy
\* snapshot was stored or the process died before it could be replaced.
FailureShows == pc \in {"poll", "ask", "forget"} /\ lastTry = "failed" => latest # "healthy"

\* An order that has ended leaves the active set for good, although its reports
\* may be handled late and out of order and put it back.
EndedOrdersLeave ==
  \A o \in Orders : exch[o] \in Ended ~> [](o \notin active)

=============================================================================
