----------------------- MODULE PortfolioState_proofs -----------------------
(***************************************************************************)
(* Theorems about the portfolio loop, for every set of orders and every    *)
(* bound: its types, that acknowledged reports were forwarded, that open   *)
(* orders are followed and carry their cycle, and that a reconciliation    *)
(* that failed shows in the snapshot.                                      *)
(***************************************************************************)
EXTENDS PortfolioState, TLAPS, WellFoundedInduction

\* A step that works on an entry has one, of the kind its step is for; only the
\* removal of an order has an order to remove.
InHand ==
  /\ pc \in {"map", "unmap", "emit", "ack"} => batch # {}
  /\ pc = "map" => log[TheEntry].st = "ack"
  /\ pc = "unmap" => log[TheEntry].st = "end"
  /\ pc # "forget" => leaving = {}

\* TheEntry is an entry of the batch.
LEMMA TheEntryInBatch ==
  ASSUME TypeOK, batch # {}
  PROVE  TheEntry \in batch
  <1>1. batch \subseteq Nat
    BY DEF TypeOK
  <1>2. PICK m \in batch : \A y \in batch : ~(<<y, m>> \in OpToRel(<, Nat))
    BY <1>1, WFMin, NatLessThanWellFounded, Zenon
  <1>3. ASSUME NEW y \in batch
        PROVE  m <= y
    <2>1. m \in Nat /\ y \in Nat
      BY <1>1
    <2>2. y < m => <<y, m>> \in OpToRel(<, Nat)
      BY <2>1, SMT DEF OpToRel
    <2>3. ~(y < m)
      BY <1>2, <2>2
    <2>4. QED
      BY <2>1, <2>3
  <1>4. QED
    BY <1>3, Zenon DEF TheEntry

\* What the entry in hand is.
LEMMA TheEntryFacts ==
  ASSUME TypeOK, batch # {}
  PROVE  /\ TheEntry \in batch /\ TheEntry \in pel /\ TheEntry \in Ids
         /\ log[TheEntry] \in Report
  <1>1. TheEntry \in batch
    BY TheEntryInBatch
  <1> HIDE DEF TheEntry
  <1>2. QED
    BY <1>1 DEF TypeOK, Ids

\* The entry in hand stays the same while the batch does, published or not.
LEMMA TheEntryKept ==
  ASSUME TypeOK, UNCHANGED batch
  PROVE  /\ TheEntry' = TheEntry
         /\ batch # {} /\ (UNCHANGED log \/ Publish) => log'[TheEntry'] = log[TheEntry]
  <1>1. TheEntry' = TheEntry
    BY DEF TheEntry
  <1>2. ASSUME batch # {}, Publish
        PROVE  log'[TheEntry] = log[TheEntry]
    <2>1. TheEntry \in Ids /\ log \in Seq(Report)
      BY <1>2, TheEntryFacts DEF TypeOK
    <2>2. PICK r \in Report : log' = Append(log, r)
      BY <1>2 DEF Publish
    <2>3. QED
      BY <2>1, <2>2 DEF Ids
  <1>3. QED
    BY <1>1, <1>2

-----------------------------------------------------------------------------
(* Types *)

LEMMA TypeStep ==
  ASSUME TypeOK, InHand, [Next]_vars
  PROVE  TypeOK' /\ InHand'
  <1> USE PortfolioAssumption DEF TypeOK, InHand
  <1>1. CASE ReadReports
    <2>1. /\ delivered' \in 0 .. Len(log)
          /\ pel' \subseteq 1 .. delivered'
          /\ idle' \subseteq pel'
          /\ batch' \subseteq pel'
      <3>1. CASE idle # {}
        BY <1>1, <3>1 DEF ReadReports, Fetch
      <3>2. CASE idle = {}
        <4>1. /\ delivered' = Len(log) /\ idle' = idle
              /\ batch' = delivered + 1 .. Len(log) /\ pel' = pel \cup batch'
          BY <1>1, <3>2 DEF ReadReports, Fetch
        <4>2. delivered \in Nat /\ Len(log) \in Nat /\ delivered <= Len(log)
          OBVIOUS
        <4>3. batch' \subseteq 1 .. Len(log) /\ 1 .. delivered \subseteq 1 .. Len(log)
          BY <4>1, <4>2
        <4>4. pel' \subseteq 1 .. delivered' /\ batch' \subseteq pel' /\ idle' \subseteq pel'
          BY <4>1, <4>3
        <4>5. QED
          BY <4>1, <4>2, <4>4
      <3>3. QED
        BY <3>1, <3>2
    <2>2. QED
      BY <1>1, <2>1 DEF ReadReports, Ids, tracking, asks, health, output
  <1>2. CASE EndOfBatch
    BY <1>2 DEF EndOfBatch, Ids, group, tracking, asks, health, output
  <1>3. CASE DeadLetter
    BY <1>3, TheEntryFacts DEF DeadLetter, Ids, group, tracking, asks, health, output
  <1>4. CASE TrackReport
    <2>1. log[TheEntry] \in Report
      BY <1>4, TheEntryFacts DEF TrackReport
    <2>2. active' \subseteq Orders
      BY <1>4, <2>1 DEF TrackReport, Report
    <2>3. QED
      BY <1>4, <2>2, TheEntryKept DEF TrackReport, Ids, group, asks, health, output
  <1>5. CASE MapReport
    <2>1. log[TheEntry] \in Report /\ log[TheEntry].st \in {"ack", "end"}
      BY <1>5, TheEntryFacts DEF MapReport
    <2>2. log[TheEntry].oid \in Orders
      BY <2>1 DEF Report
    <2>3. mapped' \subseteq Orders /\ resting' \subseteq Orders
      BY <1>5, <2>2 DEF MapReport
    <2>4. QED
      BY <1>5, <2>3 DEF MapReport, Ids, group, asks, health, output
  <1>6. CASE EmitEvent
    BY <1>6, TheEntryFacts DEF EmitEvent, Ids, group, tracking, asks, health
  <1>7. CASE AckReport
    BY <1>7 DEF AckReport, Ids, tracking, asks, health, output
  <1>8. CASE SkipReconcile \/ Reconcile \/ SetLatest \/ ReconcileEvent \/ SetUnhealthy
    BY <1>8 DEF SkipReconcile, Reconcile, SetLatest, ReconcileEvent, SetUnhealthy, Ids,
      group, tracking, asks, health, output
  <1>9. CASE SkipPoll \/ SelectOrders \/ EndOfPoll
    BY <1>9 DEF SkipPoll, SelectOrders, EndOfPoll, Ids, group, tracking, asks, health,
      output
  <1>10. CASE AskOrder
    BY <1>10 DEF AskOrder, UnsetFirst, Ids, group, health, output
  <1>11. CASE Forget
    BY <1>11 DEF Forget, Ids, group, health, output
  <1>12. CASE ReadRaises
    BY <1>12 DEF ReadRaises, Fault, Ids, tracking, asks, health, output
  <1>13. CASE ReportRaises
    BY <1>13 DEF ReportRaises, KeepPending, Fault, Ids, tracking, asks, health, output
  <1>14. CASE ReconcileRaises
    BY <1>14 DEF ReconcileRaises, Fault, Ids, group, tracking, asks, output
  <1>15. CASE AskRaises
    BY <1>15 DEF AskRaises, KeepAsking, Fault, Ids, group, health, output
  <1>16. CASE Crash
    BY <1>16 DEF Crash, Fault, DueAtStart, Ids, tracking, health, output
  <1>17. CASE \E p \in {"reconcile", "poll"} : Period(p)
    BY <1>17, TheEntryKept DEF Period, Ids, group, tracking, health, output
  <1>18. CASE \E i \in Ids : Idle(i)
    BY <1>18, TheEntryKept DEF Idle, Ids, service, tracking, health, output
  <1>19. CASE \E o \in Orders : Rested(o)
    BY <1>19, TheEntryKept DEF Rested, Ids, group, service, health, output
  <1>20. CASE Expire
    BY <1>20, TheEntryKept DEF Expire, Ids, group, service, tracking, output
  <1>21. CASE Exchange
    BY <1>21, TheEntryKept DEF Exchange, Ended, Ids, group, service, tracking, health, output
  <1>22. CASE Publish
    <2>1. /\ log' \in Seq(Report)
          /\ Len(log') = Len(log) + 1
          /\ Ids \subseteq Ids'
      BY <1>22 DEF Publish, Ids
    <2>2. TypeOK'
      BY <1>22, <2>1 DEF Publish, service, tracking, health, output
    <2>3. UNCHANGED <<batch, pc, leaving>>
      BY <1>22 DEF Publish, service
    <2>4. batch # {} => log'[TheEntry'] = log[TheEntry]
      BY <1>22, <2>3, TheEntryKept
    <2>5. QED
      BY <2>2, <2>3, <2>4
  <1>23. CASE UNCHANGED vars
    BY <1>23, TheEntryKept DEF vars, Ids
  <1>24. QED
    BY <1>1, <1>2, <1>3, <1>4, <1>5, <1>6, <1>7, <1>8, <1>9, <1>10, <1>11, <1>12,
       <1>13, <1>14, <1>15, <1>16, <1>17, <1>18, <1>19, <1>20, <1>21, <1>22, <1>23
    DEF Next, Loop, Raises

LEMMA TypeInit == Init => TypeOK /\ InHand
  BY PortfolioAssumption DEF Init, TypeOK, InHand, DueAtStart, Ids

\* The variables keep their types: pending entries were delivered, the batch is
\* pending, and what is forwarded or dead-lettered was published.
THEOREM TypeCorrect == Spec => []TypeOK
  <1>1. TypeOK /\ InHand /\ [Next]_vars => TypeOK' /\ InHand'
    BY TypeStep
  <1>2. QED
    BY <1>1, TypeInit, PTL DEF Spec

-----------------------------------------------------------------------------
(* Forwarding *)

\* An entry is forwarded or dead-lettered before it is acknowledged.
AckForwards == pc = "ack" => TheEntry \in events \cup dead

LEMMA ForwardStep ==
  ASSUME TypeOK, InHand, AckForwards, EventsForwarded, [Next]_vars
  PROVE  AckForwards' /\ EventsForwarded'
  <1> USE DEF AckForwards, EventsForwarded, Processed
  <1>1. CASE ReadReports
    <2>1. /\ delivered' = Len(log) \/ delivered' = delivered
          /\ pel' = pel \cup delivered + 1 .. delivered'
          /\ UNCHANGED <<log, events, dead>> /\ pc' = "entry"
      BY <1>1 DEF ReadReports, Fetch, output, TypeOK
    <2>2. QED
      BY <2>1 DEF TypeOK, Ids
  <1>2. CASE ReadRaises
    BY <1>2 DEF ReadRaises, output, TypeOK, Ids
  <1>3. CASE DeadLetter \/ EmitEvent
    <2>1. UNCHANGED <<log, delivered, pel, batch>> /\ TheEntry' = TheEntry
      BY <1>3, TheEntryKept DEF DeadLetter, EmitEvent, group
    <2>2. QED
      BY <1>3, <2>1 DEF DeadLetter, EmitEvent, Ids
  <1>4. CASE AckReport
    BY <1>4 DEF AckReport, output, Ids
  <1>5. CASE ReportRaises
    BY <1>5 DEF ReportRaises, KeepPending, output, Ids
  <1>6. CASE Publish
    <2>1. UNCHANGED <<pc, batch, delivered, pel, events, dead>> /\ TheEntry' = TheEntry
      BY <1>6, TheEntryKept DEF Publish, service, output
    <2>2. \A i \in Ids' : i \notin Ids => i = Len(log) + 1
      BY <1>6 DEF Publish, Ids, TypeOK
    <2>3. \A i \in Ids' : i \notin Ids => i \notin 1 .. delivered
      BY <2>2 DEF TypeOK
    <2>4. QED
      BY <2>1, <2>3
  <1>7. CASE /\ UNCHANGED <<log, delivered, pel, batch, events, dead>>
             /\ pc' # "ack" \/ UNCHANGED pc
    BY <1>7, TheEntryKept DEF Ids
  <1>8. CASE EndOfBatch \/ TrackReport \/ MapReport \/ SkipReconcile \/ Reconcile
             \/ SetLatest \/ ReconcileEvent \/ SetUnhealthy \/ SkipPoll \/ SelectOrders
             \/ EndOfPoll \/ AskOrder \/ Forget \/ ReconcileRaises \/ AskRaises
    BY <1>7, <1>8 DEF EndOfBatch, TrackReport, MapReport, SkipReconcile, Reconcile,
      SetLatest, ReconcileEvent, SetUnhealthy, SkipPoll, SelectOrders, EndOfPoll,
      AskOrder, Forget, ReconcileRaises, AskRaises, group, output
  <1>9. CASE Crash
    BY <1>9 DEF Crash, output, Ids
  <1>10. CASE \/ \E p \in {"reconcile", "poll"} : Period(p)
              \/ \E i \in Ids : Idle(i)
              \/ \E o \in Orders : Rested(o)
              \/ Expire \/ Exchange \/ UNCHANGED vars
    BY <1>7, <1>10 DEF Period, Idle, Rested, Expire, Exchange, vars, group, service, output
  <1>11. QED
    BY <1>1, <1>2, <1>3, <1>4, <1>5, <1>6, <1>8, <1>9, <1>10 DEF Next, Loop, Raises

\* Every acknowledged report of an order was forwarded to state.events or
\* dead-lettered, whatever raises and whenever the process is restarted.
THEOREM EventsAlwaysForwarded == Spec => []EventsForwarded
  <1> DEFINE I == TypeOK /\ InHand /\ AckForwards /\ EventsForwarded
  <1>1. Init => I
    BY TypeInit DEF Init, AckForwards, EventsForwarded, Ids
  <1>2. I /\ [Next]_vars => I'
    BY TypeStep, ForwardStep
  <1>3. I => EventsForwarded
    OBVIOUS
  <1> HIDE DEF I
  <1>4. QED
    BY <1>1, <1>2, <1>3, PTL DEF Spec

-----------------------------------------------------------------------------
(* Health *)

\* A healthy snapshot after a failure is about to be replaced: a reconciliation
\* is in progress, or due before the loop can pass it.
RepairAhead ==
  lastTry = "failed" /\ latest = "healthy" =>
    \/ pc \in {"latest", "event", "failed"}
    \/ /\ "reconcile" \in due
       /\ pc \in {"reports", "entry", "map", "unmap", "emit", "ack", "reconcile"}

LEMMA RepairStep ==
  ASSUME RepairAhead, [Next]_vars
  PROVE  RepairAhead'
  <1> USE DEF RepairAhead
  <1>1. CASE SkipReconcile \/ Reconcile \/ SetLatest \/ ReconcileEvent \/ SetUnhealthy
    BY <1>1 DEF SkipReconcile, ReconcileDue, Reconcile, SetLatest, ReconcileEvent,
      SetUnhealthy, health
  <1>2. CASE ReadReports \/ EndOfBatch \/ DeadLetter \/ TrackReport \/ MapReport
             \/ EmitEvent \/ AckReport \/ ReadRaises \/ ReportRaises
    BY <1>2 DEF ReadReports, EndOfBatch, DeadLetter, TrackReport, MapReport, EmitEvent,
      AckReport, ReadRaises, ReportRaises, health
  <1>3. CASE SkipPoll \/ SelectOrders \/ EndOfPoll \/ AskOrder \/ Forget \/ AskRaises
    BY <1>3 DEF SkipPoll, SelectOrders, EndOfPoll, AskOrder, Forget, AskRaises, health
  <1>4. CASE ReconcileRaises \/ Crash
    BY <1>4 DEF ReconcileRaises, Crash, DueAtStart, health
  <1>5. CASE \/ \E p \in {"reconcile", "poll"} : Period(p)
             \/ \E i \in Ids : Idle(i)
             \/ \E o \in Orders : Rested(o)
             \/ Expire \/ Exchange \/ Publish \/ UNCHANGED vars
    BY <1>5 DEF Period, Idle, Rested, Expire, Exchange, Publish, vars, service, health
  <1>6. QED
    BY <1>1, <1>2, <1>3, <1>4, <1>5 DEF Next, Loop, Raises

\* After a reconciliation that failed, latest.state.snapshot does not say
\* healthy when the loop goes on: a restart has it due at once.
THEOREM FailureAlwaysShows == Spec => []FailureShows
  <1>1. Init => RepairAhead
    BY DEF Init, RepairAhead
  <1>2. RepairAhead /\ [Next]_vars => RepairAhead'
    BY RepairStep
  <1>3. RepairAhead => FailureShows
    BY DEF RepairAhead, FailureShows
  <1>4. QED
    BY <1>1, <1>2, <1>3, PTL DEF Spec

-----------------------------------------------------------------------------
(* Open orders *)

Acked(o) == Reported(o, "ack", Ids)
AckDone(o) == Reported(o, "ack", {i \in Ids : Processed(i)})
Over(o) == Reported(o, "end", Ids)
Kept(o) == exch[o] = "open" /\ ~Over(o) => o \in active

\* The loop is past the first step of the report of o's submission.
Handling(o) ==
  pc \in {"map", "emit", "ack"} /\ log[TheEntry].st = "ack" /\ log[TheEntry].oid = o

\* What makes OpenOrdersFollowed inductive: reports are about orders that were
\* placed, only ended orders are being removed, and an open order is in the
\* active set from the first step of its report on.
FollowSafe ==
  /\ \A o \in leaving : exch[o] \in Ended
  /\ \A o \in Orders : Acked(o) => exch[o] # "none"
  /\ \A o \in Orders : Handling(o) \/ AckDone(o) => Kept(o)

LEMMA FollowSafeEnough == FollowSafe => OpenOrdersFollowed
  BY DEF FollowSafe, OpenOrdersFollowed, AckDone, Over, Kept

\* A report that is being handled has been published.
LEMMA HandledIsAcked ==
  ASSUME TypeOK, InHand
  PROVE  /\ \A o : Handling(o) => Acked(o)
         /\ \A o : AckDone(o) => Acked(o)
  <1>1. ASSUME NEW o, Handling(o)
        PROVE  Acked(o)
    <2>1. TheEntry \in Ids
      BY <1>1, TheEntryFacts DEF Handling, InHand
    <2>2. QED
      BY <1>1, <2>1 DEF Handling, Acked, Reported
  <1>2. QED
    BY <1>1 DEF AckDone, Acked, Reported

\* The entries say the same after a step that does not publish.
LEMMA SameReports ==
  ASSUME UNCHANGED log
  PROVE  \A o : Acked(o)' = Acked(o) /\ Over(o)' = Over(o)
  BY DEF Acked, Over, Reported, Ids

\* A step after which no order is newly handled or acknowledged, none is newly
\* open, and none that is open has left the active set, keeps FollowSafe.
LEMMA AsideFollows ==
  ASSUME FollowSafe, UNCHANGED log,
         \A o \in leaving' : exch'[o] \in Ended,
         \A o \in Orders : Handling(o)' \/ AckDone(o)' => Handling(o) \/ AckDone(o),
         \A o : Handling(o) \/ AckDone(o) => Acked(o),
         \A o \in Orders : exch[o] # "none" =>
           exch'[o] # "none" /\ (exch'[o] = "open" => exch[o] = "open"),
         \A o \in Orders : o \in active /\ exch'[o] = "open" => o \in active'
  PROVE  FollowSafe'
  <1>1. \A o : Acked(o)' = Acked(o) /\ Over(o)' = Over(o)
    BY SameReports
  <1>2. \A o \in Orders : Acked(o)' => exch'[o] # "none"
    BY <1>1 DEF FollowSafe
  <1>3. ASSUME NEW o \in Orders, Handling(o)' \/ AckDone(o)'
        PROVE  Kept(o)'
    <2>1. (Handling(o) \/ AckDone(o)) /\ Acked(o)
      BY <1>3
    <2>2. Kept(o) /\ exch[o] # "none"
      BY <2>1 DEF FollowSafe
    <2>3. QED
      BY <1>1, <2>2 DEF Kept
  <1>4. QED
    BY <1>2, <1>3 DEF FollowSafe

\* A step that neither reads nor acknowledges leaves what is handled and done.
LEMMA SameHandling ==
  ASSUME TypeOK, InHand, UNCHANGED <<log, delivered, pel>>,
         pc' \in {"map", "emit", "ack"} => UNCHANGED <<pc, batch>>
  PROVE  \A o \in Orders : Handling(o)' \/ AckDone(o)' => Handling(o) \/ AckDone(o)
  <1>1. \A o : AckDone(o)' => AckDone(o)
    BY DEF AckDone, Reported, Processed, Ids
  <1>2. ASSUME NEW o, Handling(o)'
        PROVE  Handling(o)
    <2>1. pc' \in {"map", "emit", "ack"}
      BY <1>2 DEF Handling
    <2>2. TheEntry' = TheEntry
      BY <2>1, TheEntryKept
    <2>3. QED
      BY <1>2, <2>1, <2>2 DEF Handling
  <1>3. QED
    BY <1>1, <1>2

\* The reports: the first step puts an order into the active set or takes one out
\* whose end was reported; the others go on with the entry or finish it.
LEMMA ReportsFollow ==
  ASSUME TypeOK, InHand, FollowSafe,
         ReadReports \/ ReadRaises \/ DeadLetter \/ TrackReport \/ MapReport
           \/ EmitEvent \/ AckReport \/ ReportRaises \/ Crash
  PROVE  FollowSafe'
  <1>1. UNCHANGED <<log, exch>> /\ \A o \in leaving' : exch'[o] \in Ended
    BY DEF ReadReports, ReadRaises, DeadLetter, TrackReport, MapReport, EmitEvent,
      AckReport, ReportRaises, Crash, group, asks, FollowSafe
  <1>2. \A o : Handling(o) \/ AckDone(o) => Acked(o)
    BY HandledIsAcked
  <1>3. \A o \in Orders : exch[o] # "none" =>
          exch'[o] # "none" /\ (exch'[o] = "open" => exch[o] = "open")
    BY <1>1
  <1>4. CASE TrackReport
    <2>1. UNCHANGED <<delivered, pel, batch>> /\ batch # {} /\ TheEntry' = TheEntry
      BY <1>4, TheEntryKept DEF TrackReport, group
    <2>2. \A o : Acked(o)' = Acked(o) /\ Over(o)' = Over(o)
      BY <1>1, SameReports
    <2>3. ASSUME NEW o \in Orders, Handling(o)'
          PROVE  Kept(o)'
      BY <1>1, <1>4, <2>1, <2>3 DEF TrackReport, Handling, Kept
    <2>4. ASSUME NEW o \in Orders, AckDone(o)'
          PROVE  Kept(o)'
      <3>1. AckDone(o)
        BY <1>1, <2>1, <2>4 DEF AckDone, Reported, Processed, Ids
      <3>2. Kept(o)
        BY <3>1 DEF FollowSafe
      <3>3. o \in active => o \in active' \/ Over(o)
        <4>1. TheEntry \in Ids
          BY <2>1, TheEntryFacts
        <4>2. QED
          BY <1>4, <4>1 DEF TrackReport, Over, Reported
      <3>4. QED
        BY <1>1, <2>2, <3>2, <3>3 DEF Kept
    <2>5. QED
      BY <1>1, <2>2, <2>3, <2>4 DEF FollowSafe
  <1>5. CASE MapReport \/ EmitEvent \/ DeadLetter
    <2>1. UNCHANGED <<delivered, pel, batch, active>> /\ TheEntry' = TheEntry
      BY <1>5, TheEntryKept DEF MapReport, EmitEvent, DeadLetter, group, tracking
    <2>2. \A o : AckDone(o)' => AckDone(o)
      BY <1>1, <2>1 DEF AckDone, Reported, Processed, Ids
    <2>3. \A o : Handling(o)' => Handling(o)
      BY <1>1, <1>5, <2>1 DEF Handling, InHand, MapReport, EmitEvent, DeadLetter
    <2>4. QED
      BY <1>1, <1>2, <1>3, <2>1, <2>2, <2>3, AsideFollows
  <1>6. CASE AckReport
    <2>1. pc' = "entry" /\ UNCHANGED <<delivered, active>> /\ pel' = pel \ {TheEntry}
      BY <1>6 DEF AckReport, tracking
    <2>2. ASSUME NEW o, AckDone(o)'
          PROVE  AckDone(o) \/ Handling(o)
      BY <1>1, <1>6, <2>1, <2>2 DEF AckReport, AckDone, Handling, Reported, Processed, Ids
    <2>3. \A o : ~Handling(o)'
      BY <2>1 DEF Handling
    <2>4. QED
      BY <1>1, <1>2, <1>3, <2>1, <2>2, <2>3, AsideFollows
  <1>7. CASE ReadReports \/ ReadRaises \/ ReportRaises \/ Crash
    <2>1. pc' \in {"entry", "reports", "reconcile"} /\ UNCHANGED active
      BY <1>7 DEF ReadReports, ReadRaises, ReportRaises, Crash, tracking
    <2>2. \A i : Processed(i)' => Processed(i)
      BY <1>7 DEF ReadReports, Fetch, ReadRaises, ReportRaises, KeepPending, Crash,
        Processed, TypeOK
    <2>3. \A o : AckDone(o)' => AckDone(o)
      BY <1>1, <2>2 DEF AckDone, Reported, Ids
    <2>4. \A o : ~Handling(o)'
      BY <2>1 DEF Handling
    <2>5. QED
      BY <1>1, <1>2, <1>3, <2>1, <2>3, <2>4, AsideFollows
  <1>8. QED
    BY <1>4, <1>5, <1>6, <1>7

LEMMA FollowStep ==
  ASSUME TypeOK, InHand, FollowSafe, [Next]_vars
  PROVE  FollowSafe'
  <1>1. \A o : Handling(o) \/ AckDone(o) => Acked(o)
    BY HandledIsAcked
  <1>2. CASE EndOfBatch \/ SkipReconcile \/ Reconcile \/ SetLatest \/ ReconcileEvent
             \/ SetUnhealthy \/ SkipPoll \/ SelectOrders \/ EndOfPoll \/ AskOrder
             \/ Forget \/ ReconcileRaises \/ AskRaises
    <2>1. UNCHANGED <<log, delivered, pel, exch>> /\ pc' \notin {"map", "emit", "ack"}
      BY <1>2 DEF EndOfBatch, SkipReconcile, Reconcile, SetLatest, ReconcileEvent,
        SetUnhealthy, SkipPoll, SelectOrders, EndOfPoll, AskOrder, Forget,
        ReconcileRaises, AskRaises, group
    <2>2. \A o \in leaving' : exch'[o] \in Ended
      BY <1>2, <2>1 DEF EndOfBatch, SkipReconcile, Reconcile, SetLatest, ReconcileEvent,
        SetUnhealthy, SkipPoll, SelectOrders, EndOfPoll, AskOrder, Forget, Terminal,
        ReconcileRaises, AskRaises, asks, FollowSafe
    <2>3. \A o \in Orders : o \in active /\ exch'[o] = "open" => o \in active'
      BY <1>2, <2>1 DEF EndOfBatch, SkipReconcile, Reconcile, SetLatest, ReconcileEvent,
        SetUnhealthy, SkipPoll, SelectOrders, EndOfPoll, AskOrder, Forget, Terminal,
        UnsetFirst, KeepAsking, Ended, ReconcileRaises, AskRaises, tracking, FollowSafe
    <2>4. QED
      BY <1>1, <2>1, <2>2, <2>3, SameHandling, AsideFollows
  <1>3. CASE \/ \E p \in {"reconcile", "poll"} : Period(p)
             \/ \E i \in Ids : Idle(i)
             \/ \E o \in Orders : Rested(o)
             \/ Expire \/ UNCHANGED vars
    <2>1. UNCHANGED <<log, delivered, pel, exch, pc, batch, leaving, active>>
      BY <1>3 DEF Period, Idle, Rested, Expire, vars, group, service, tracking
    <2>2. \A o \in leaving' : exch'[o] \in Ended
      BY <2>1 DEF FollowSafe
    <2>3. QED
      BY <1>1, <2>1, <2>2, SameHandling, AsideFollows
  <1>4. CASE Exchange
    <2>1. UNCHANGED <<log, delivered, pel, pc, batch, leaving, active>>
      BY <1>4 DEF Exchange, group, service, tracking
    <2>2. \A o \in Orders :
            /\ exch[o] \in Ended => exch'[o] \in Ended
            /\ exch[o] # "none" => exch'[o] # "none" /\ (exch'[o] = "open" => exch[o] = "open")
      BY <1>4 DEF Exchange, TypeOK, Ended
    <2>3. leaving \subseteq Orders
      BY DEF TypeOK
    <2>4. \A o \in leaving' : exch'[o] \in Ended
      BY <2>1, <2>2, <2>3 DEF FollowSafe
    <2>5. QED
      BY <1>1, <2>1, <2>2, <2>4, SameHandling, AsideFollows
  <1>5. CASE Publish
    <2>1. UNCHANGED <<exch, delivered, pel, pc, batch, leaving, active>>
      BY <1>5 DEF Publish, service, tracking
    <2>2. PICK r \in Report :
            /\ log' = Append(log, r)
            /\ r.st \in {"ack", "end"} => exch[r.oid] # "none"
      BY <1>5 DEF Publish
    <2>3. /\ Ids' = Ids \cup {Len(log) + 1}
          /\ log'[Len(log) + 1] = r
          /\ \A i \in Ids : log'[i] = log[i]
          /\ Len(log) + 1 \notin 1 .. delivered
      BY <2>2 DEF Ids, TypeOK
    <2>4. \A o : Over(o) => Over(o)'
      BY <2>3 DEF Over, Reported
    <2>5. \A o : AckDone(o)' => AckDone(o)
      BY <2>1, <2>3 DEF AckDone, Reported, Processed
    <2>6. \A o : Acked(o)' => Acked(o) \/ exch[o] # "none"
      BY <2>2, <2>3 DEF Acked, Reported
    <2>7. ASSUME NEW o, Handling(o)'
          PROVE  Handling(o)
      BY <1>5, <2>1, <2>7, TheEntryKept DEF Handling, InHand
    <2>8. \A o \in Orders : Kept(o) => Kept(o)'
      BY <2>1, <2>4 DEF Kept
    <2>9. QED
      BY <2>1, <2>5, <2>6, <2>7, <2>8 DEF FollowSafe
  <1>6. QED
    BY <1>2, <1>3, <1>4, <1>5, ReportsFollow DEF Next, Loop, Raises

\* An order that is open on the exchange stays in the active set once the report
\* of its submission has been processed, unless its end was reported.
THEOREM OpenOrdersAlwaysFollowed == Spec => []OpenOrdersFollowed
  <1> DEFINE I == TypeOK /\ InHand /\ FollowSafe
  <1>1. Init => I
    BY TypeInit DEF Init, FollowSafe, Handling, AckDone, Acked, Reported, Ids
  <1>2. I /\ [Next]_vars => I'
    BY TypeStep, FollowStep
  <1>3. I => OpenOrdersFollowed
    BY FollowSafeEnough
  <1> HIDE DEF I
  <1>4. QED
    BY <1>1, <1>2, <1>3, PTL DEF Spec

-----------------------------------------------------------------------------
(* The map *)

\* The report in hand: an order that has ended is out of the set before it is out
\* of the map, one that was accepted is in the map before its report goes on.
MapSafe ==
  /\ pc = "unmap" => log[TheEntry].oid \notin active
  /\ pc \in {"emit", "ack"} /\ log[TheEntry].st = "ack" => log[TheEntry].oid \in mapped

\* A step that leaves the entries and the report in hand alone, and takes an order
\* out of the map only if it is out of the set.
LEMMA AsideMaps ==
  ASSUME TypeOK, InHand, MapSafe, ActiveOrdersMapped, UNCHANGED log, pel \subseteq pel',
         \/ pc' \notin {"unmap", "emit", "ack"}
         \/ UNCHANGED <<pc, batch, mapped, active>>,
         active' \subseteq active,
         \A o \in active' : o \in mapped => o \in mapped'
  PROVE  MapSafe' /\ ActiveOrdersMapped'
  <1>1. MapSafe'
    <2>1. CASE pc' \notin {"unmap", "emit", "ack"}
      BY <2>1 DEF MapSafe
    <2>2. CASE UNCHANGED <<pc, batch, mapped, active>>
      BY <2>2, TheEntryKept DEF MapSafe
    <2>3. QED
      BY <2>1, <2>2
  <1>2. ActiveOrdersMapped'
    BY DEF ActiveOrdersMapped, Reported
  <1>3. QED
    BY <1>1, <1>2

LEMMA MapStep ==
  ASSUME TypeOK, InHand, MapSafe, ActiveOrdersMapped, [Next]_vars
  PROVE  MapSafe' /\ ActiveOrdersMapped'
  <1>1. CASE TrackReport
    <2>1. UNCHANGED <<log, pel, batch, mapped>> /\ batch # {} /\ TheEntry' = TheEntry
      BY <1>1, TheEntryKept DEF TrackReport, group
    <2>2. MapSafe'
      BY <1>1, <2>1 DEF TrackReport, MapSafe
    <2>3. ASSUME NEW o \in active', o \notin mapped'
          PROVE  Reported(o, "ack", pel)
      <3>1. CASE o \in active
        BY <2>1, <2>3, <3>1 DEF ActiveOrdersMapped
      <3>2. CASE o \notin active
        <4>1. TheEntry \in pel
          BY <2>1, TheEntryFacts
        <4>2. QED
          BY <1>1, <2>3, <3>2, <4>1 DEF TrackReport, Reported
      <3>3. QED
        BY <3>1, <3>2
    <2>4. QED
      BY <2>1, <2>2, <2>3 DEF ActiveOrdersMapped, Reported
  <1>2. CASE MapReport
    <2>1. UNCHANGED <<log, pel, batch, active>> /\ TheEntry' = TheEntry
      BY <1>2, TheEntryKept DEF MapReport, group
    <2>2. MapSafe'
      BY <1>2, <2>1 DEF MapReport, MapSafe, InHand
    <2>3. \A o \in active : o \in mapped => o \in mapped'
      BY <1>2 DEF MapReport, MapSafe
    <2>4. ActiveOrdersMapped'
      BY <2>1, <2>3 DEF ActiveOrdersMapped, Reported
    <2>5. QED
      BY <2>2, <2>4
  <1>3. CASE EmitEvent \/ DeadLetter
    <2>1. UNCHANGED <<log, pel, batch, active, mapped>> /\ TheEntry' = TheEntry
      BY <1>3, TheEntryKept DEF EmitEvent, DeadLetter, group, tracking
    <2>2. QED
      BY <1>3, <2>1 DEF EmitEvent, DeadLetter, MapSafe, ActiveOrdersMapped, Reported
  <1>4. CASE AckReport
    <2>1. /\ pc = "ack" /\ pc' = "entry"
          /\ UNCHANGED <<log, active, mapped>> /\ pel' = pel \ {TheEntry}
      BY <1>4 DEF AckReport, tracking
    <2>2. ASSUME NEW o \in active, o \notin mapped
          PROVE  Reported(o, "ack", pel \ {TheEntry})
      <3>1. PICK i \in pel : log[i].st = "ack" /\ log[i].oid = o
        BY <2>2 DEF ActiveOrdersMapped, Reported
      <3>2. i # TheEntry
        BY <2>1, <2>2, <3>1 DEF MapSafe
      <3>3. QED
        BY <3>1, <3>2 DEF Reported
    <2>3. MapSafe'
      BY <2>1 DEF MapSafe
    <2>4. QED
      BY <2>1, <2>2, <2>3 DEF ActiveOrdersMapped, Reported
  <1>5. CASE ReadReports \/ ReadRaises \/ ReportRaises \/ Crash
    <2>1. /\ UNCHANGED <<log, active, mapped>>
          /\ pc' \in {"entry", "reports", "reconcile"}
          /\ pel \subseteq pel'
      BY <1>5 DEF ReadReports, Fetch, ReadRaises, ReportRaises, KeepPending, Crash, tracking
    <2>2. QED
      BY <2>1, AsideMaps
  <1>6. CASE EndOfBatch \/ SkipReconcile \/ Reconcile \/ SetLatest \/ ReconcileEvent
             \/ SetUnhealthy \/ SkipPoll \/ SelectOrders \/ EndOfPoll \/ AskOrder
             \/ Forget \/ ReconcileRaises \/ AskRaises
    <2>1. /\ UNCHANGED <<log, pel>>
          /\ pc' \notin {"unmap", "emit", "ack"}
      BY <1>6 DEF EndOfBatch, SkipReconcile, Reconcile, SetLatest, ReconcileEvent,
        SetUnhealthy, SkipPoll, SelectOrders, EndOfPoll, AskOrder, Forget,
        ReconcileRaises, AskRaises, group
    <2>2. /\ active' \subseteq active
          /\ \A o \in active' : o \in mapped => o \in mapped'
      BY <1>6 DEF EndOfBatch, SkipReconcile, Reconcile, SetLatest, ReconcileEvent,
        SetUnhealthy, SkipPoll, SelectOrders, EndOfPoll, AskOrder, Forget, UnsetFirst,
        KeepAsking, ReconcileRaises, AskRaises, tracking
    <2>3. QED
      BY <2>1, <2>2, AsideMaps
  <1>7. CASE \/ \E p \in {"reconcile", "poll"} : Period(p)
             \/ \E i \in Ids : Idle(i)
             \/ \E o \in Orders : Rested(o)
             \/ Expire \/ Exchange \/ UNCHANGED vars
    <2>1. UNCHANGED <<log, pel, pc, batch, active, mapped>>
      BY <1>7 DEF Period, Idle, Rested, Expire, Exchange, vars, group, service, tracking
    <2>2. QED
      BY <2>1, AsideMaps
  <1>8. CASE Publish
    <2>1. UNCHANGED <<pel, pc, batch, active, mapped>> /\ log \in Seq(Report)
      BY <1>8 DEF Publish, service, tracking, TypeOK
    <2>2. PICK r \in Report : log' = Append(log, r)
      BY <1>8 DEF Publish
    <2>3. \A i \in pel : log'[i] = log[i]
      <3>1. pel \subseteq 1 .. Len(log)
        BY DEF TypeOK
      <3>2. QED
        BY <2>1, <2>2, <3>1
    <2>4. MapSafe'
      BY <1>8, <2>1, TheEntryKept DEF MapSafe, InHand
    <2>5. QED
      BY <2>1, <2>3, <2>4 DEF ActiveOrdersMapped, Reported
  <1>9. QED
    BY <1>1, <1>2, <1>3, <1>4, <1>5, <1>6, <1>7, <1>8 DEF Next, Loop, Raises

\* An active order has its cycle in the map, or a report that is still to be
\* handled puts it there.
THEOREM ActiveOrdersAlwaysMapped == Spec => []ActiveOrdersMapped
  <1> DEFINE I == TypeOK /\ InHand /\ MapSafe /\ ActiveOrdersMapped
  <1>1. Init => I
    BY TypeInit DEF Init, MapSafe, ActiveOrdersMapped
  <1>2. I /\ [Next]_vars => I'
    BY TypeStep, MapStep
  <1>3. I => ActiveOrdersMapped
    OBVIOUS
  <1> HIDE DEF I
  <1>4. QED
    BY <1>1, <1>2, <1>3, PTL DEF Spec

=============================================================================
