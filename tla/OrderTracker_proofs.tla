----------------------- MODULE OrderTracker_proofs -----------------------
(***************************************************************************)
(* Theorems about the two threads of the execution service, for every plan *)
(* and every bound: their types, that a submission is reported before its  *)
(* end, that no open order falls between the threads, and that a slice is  *)
(* placed again only after a failure.                                      *)
(***************************************************************************)
EXTENDS OrderTracker, SequenceTheorems, TLAPS

Order == [cid : Cids, st : {"open", "filled", "canceled"}]
MainLabels == {"idle", "slice", "place", "dedup", "report", "track", "untracked",
               "done", "ack", "readd", "drop"}
TrackerLabels == {"idle", "item", "report", "read", "write", "remove"}
Ends == {"FILLED", "CANCELED", "REJECTED"}

TypeOK ==
  /\ copies \in Nat
  /\ pc # "idle" => copies > 0
  /\ cycleDone \in BOOLEAN
  /\ pc \in MainLabels
  /\ slice \in 1 .. Slices + 1
  /\ cur \in Key
  /\ dedup \in [Cids -> Key]
  /\ venue \in Venues
  /\ orders \in Seq(Order)
  /\ Len(orders) <= MaxOrders
  /\ queue \in Seq(Item)
  /\ reports \in [1 .. MaxOrders -> SUBSET Statuses]
  /\ expired \subseteq Oids
  /\ tpc \in TrackerLabels
  /\ snap \in Seq(Item)
  /\ at \in 1 .. Len(snap) + 1
  /\ tpc \in {"report", "read", "write"} => at <= Len(snap)
  /\ late \subseteq Oids
  /\ outcome \in Ends \cup {"none"}
  /\ seen \in Key
  /\ gone \subseteq Item
  /\ faults \in 0 .. MaxFaults
  /\ acked \subseteq Oids
  /\ astray \subseteq Oids

\* An order was reported CANCELED or REJECTED, or was never acknowledged.
MayRepeat(o) == reports[o] \cap Failed # {} \/ o \notin acked

\* What add_order_to_track has been given is reported, and acknowledged unless
\* it has failed.
Handed(o) ==
  /\ o \in Oids
  /\ reports[o] # {}
  /\ o \in acked \/ reports[o] \cap Failed # {}

\* The order in the main thread's hands.
CurrentOk ==
  /\ pc \in {"place", "dedup", "report", "track", "untracked"} => slice \in Cids
  /\ pc \in {"dedup", "report", "track", "untracked"} =>
       /\ cur.oid \in Oids
       /\ orders[cur.oid].cid = slice
       /\ cur.st \in {"ACK", "FILLED", "CANCELED"}
  /\ pc \in {"dedup", "report"} => reports[cur.oid] = {}
  /\ pc = "dedup" => cur.oid \notin acked
  /\ pc = "report" => cur.oid \in acked \/ cur.st \in Failed
  /\ pc \in {"track", "untracked"} => Handed(cur.oid)
  /\ pc = "untracked" => "REJECTED" \in reports[cur.oid]

ItemsHanded ==
  /\ \A i \in DOMAIN queue : Handed(queue[i].oid)
  /\ \A i \in DOMAIN snap : Handed(snap[i].oid)

\* The order is off the exchange or was reported so.
Ended(o) == orders[o].st # "open" \/ reports[o] \cap Failed # {}

\* What the tracker is about to report, has reported, and is about to remove.
OutcomeOk ==
  /\ tpc \in {"report", "read", "write"} =>
       /\ outcome \in Ends
       /\ outcome = "FILLED" => orders[order].st = "filled"
  /\ tpc \in {"read", "write"} => outcome \in reports[order]
  /\ \A item \in gone : item.oid \in Oids /\ Ended(item.oid)

\* A key that lets its slice be placed, and the main thread past the check of
\* the key, have an order that may be repeated, if there is one at all.
Repeatable(c) == OrdersOf(c) # {} => \E o \in OrdersOf(c) : MayRepeat(o)
KeysSafe ==
  /\ \A c \in Cids : dedup[c].st \notin Submitted => Repeatable(c)
  /\ pc = "place" => Repeatable(slice)

\* Nothing is reported of an order before the exchange has it.
UnplacedUnreported == \A o \in 1 .. MaxOrders : o \notin Oids => reports[o] = {}

\* The inductive invariant.
IInv ==
  /\ TypeOK /\ CurrentOk /\ ItemsHanded /\ OutcomeOk /\ KeysSafe /\ UnplacedUnreported
  /\ OpenOrdersWatched

-----------------------------------------------------------------------------
(* The operators of the model *)

\* What the snapshot's current place names.
LEMMA OrderFacts ==
  ASSUME TypeOK, ItemsHanded, at <= Len(snap)
  PROVE  /\ order \in Oids /\ order \in 1 .. MaxOrders
         /\ Handed(order)
         /\ snap[at] \in Item
         /\ orders[order] \in Order
  <1>1. at \in DOMAIN snap /\ snap[at] \in Item
    BY DEF TypeOK
  <1>2. Handed(order)
    BY <1>1 DEF ItemsHanded, order
  <1>3. order \in Oids /\ order \in 1 .. MaxOrders
    BY <1>1, <1>2, TrackerAssumption DEF Handed, Oids, TypeOK, TrackerAssumption
  <1>4. orders[order] \in Order
    BY <1>3 DEF Oids, TypeOK
  <1>5. QED
    BY <1>1, <1>2, <1>3, <1>4

\* LSET changes no exchange id in the queue, wherever the snapshot's place is
\* by now.
LEMMA LsetFacts ==
  ASSUME TypeOK, Lset
  PROVE  /\ queue' \in Seq(Item)
         /\ DOMAIN queue' = DOMAIN queue
         /\ \A i \in DOMAIN queue : queue'[i].oid = queue[i].oid
  <1>1. CASE at \in DOMAIN queue
    <2>1. queue[at] \in Item
      BY <1>1 DEF TypeOK
    <2>2. [queue[at] EXCEPT !.poll = 1 - @] \in Item
      BY <2>1 DEF Item
    <2>3. queue' = [queue EXCEPT ![at] = [queue[at] EXCEPT !.poll = 1 - @]]
      BY DEF Lset
    <2>4. queue' \in Seq(Item) /\ DOMAIN queue' = DOMAIN queue
      BY <1>1, <2>2, <2>3, ExceptSeq DEF TypeOK
    <2>5. [queue[at] EXCEPT !.poll = 1 - @].oid = queue[at].oid
      BY <2>1 DEF Item
    <2>6. QED
      BY <1>1, <2>3, <2>4, <2>5
  <1>2. CASE at \notin DOMAIN queue
    <2>1. queue' = queue
      BY <1>2, ElementOfSeq, LenProperties DEF Lset, TypeOK
    <2>2. QED
      BY <2>1 DEF TypeOK
  <1>3. QED
    BY <1>1, <1>2

\* LREM takes no other value out of the queue than the one it is given.
LEMMA LremFacts ==
  ASSUME TypeOK, NEW value, Lrem(value)
  PROVE  /\ queue' \in Seq(Item)
         /\ \A i \in DOMAIN queue' : \E j \in DOMAIN queue : queue'[i] = queue[j]
         /\ \A j \in DOMAIN queue :
              queue[j] = value \/ \E i \in DOMAIN queue' : queue'[i] = queue[j]
  <1>1. CASE UNCHANGED queue
    BY <1>1 DEF TypeOK
  <1>2. CASE \E i \in DOMAIN queue : queue[i] = value /\ queue' = Without(queue, i)
    <2>1. PICK i \in DOMAIN queue : queue[i] = value /\ queue' = Without(queue, i)
      BY <1>2
    <2> DEFINE n == Len(queue) - 1
    <2>2. Len(queue) \in Nat /\ DOMAIN queue = 1 .. Len(queue)
      BY LenProperties DEF TypeOK
    <2>3. i \in 1 .. Len(queue) /\ n \in Nat /\ n + 1 = Len(queue)
      BY <2>1, <2>2
    <2>4. \A j \in 1 .. n : j \in DOMAIN queue /\ j + 1 \in DOMAIN queue
      BY <2>2, <2>3
    <2>5. /\ DOMAIN queue' = 1 .. n
          /\ \A j \in 1 .. n : queue'[j] = IF j < i THEN queue[j] ELSE queue[j + 1]
      BY <2>1 DEF Without
    <2>6. \A j \in 1 .. n : queue'[j] \in Item
      BY <2>4, <2>5, ElementOfSeq DEF TypeOK
    <2>7. queue' = [j \in 1 .. n |-> queue'[j]]
      BY <2>1 DEF Without
    <2>8. queue' \in Seq(Item)
      BY <2>3, <2>6, <2>7, IsASeq
    <2>9. ASSUME NEW j \in DOMAIN queue
          PROVE  queue[j] = value \/ \E k \in DOMAIN queue' : queue'[k] = queue[j]
      <3>1. CASE j < i
        <4>1. j \in 1 .. n
          BY <2>2, <2>3, <3>1
        <4>2. QED
          BY <2>5, <3>1, <4>1
      <3>2. CASE j = i
        BY <2>1, <3>2
      <3>3. CASE j > i
        <4>1. j - 1 \in 1 .. n /\ ~(j - 1 < i) /\ (j - 1) + 1 = j
          BY <2>2, <2>3, <3>3
        <4>2. QED
          BY <2>5, <4>1
      <3>4. QED
        BY <2>2, <2>3, <3>1, <3>2, <3>3
    <2>10. QED
      BY <2>4, <2>5, <2>8, <2>9
  <1>3. QED
    BY <1>1, <1>2 DEF Lrem

-----------------------------------------------------------------------------
(* Type correctness *)

\* The initial state satisfies the invariant.
LEMMA InitIInv == Init => IInv
  <1> SUFFICES ASSUME Init PROVE IInv
    OBVIOUS
  <1>1. Len(orders) = 0 /\ Len(snap) = 0 /\ Oids = {}
    BY DEF Init, Oids
  <1>2. NoOrder \in Key
    BY TrackerAssumption DEF NoOrder, Key, TrackerAssumption
  <1>a. dedup \in [Cids -> Key] /\ reports \in [1 .. MaxOrders -> SUBSET Statuses]
    BY <1>2 DEF Init
  <1>b. /\ copies \in Nat /\ slice \in 1 .. Slices + 1 /\ faults \in 0 .. MaxFaults
        /\ orders \in Seq(Order) /\ queue \in Seq(Item) /\ snap \in Seq(Item)
        /\ at \in 1 .. Len(snap) + 1 /\ Len(orders) <= MaxOrders
    BY <1>1, TrackerAssumption DEF Init, TrackerAssumption
  <1>3. TypeOK
    BY <1>1, <1>2, <1>a, <1>b DEF Init, TypeOK, MainLabels, TrackerLabels
  <1>4. CurrentOk /\ ItemsHanded /\ OutcomeOk
    BY <1>1 DEF Init, CurrentOk, ItemsHanded, OutcomeOk
  <1>5. KeysSafe /\ OpenOrdersWatched
    BY <1>1 DEF Init, KeysSafe, Repeatable, OrdersOf, OpenOrdersWatched
  <1>c. UnplacedUnreported
    BY DEF Init, UnplacedUnreported
  <1>6. QED
    BY <1>3, <1>4, <1>5, <1>c DEF IInv

\* An accepted order is well typed and goes behind the others.
LEMMA AcceptFacts ==
  ASSUME TypeOK, NEW st \in {"open", "filled", "canceled"}, slice \in Cids, Accept(st)
  PROVE  /\ orders' \in Seq(Order)
         /\ Len(orders') = Len(orders) + 1
         /\ Len(orders') <= MaxOrders
         /\ Oids \subseteq Oids'
         /\ Len(orders) + 1 \in Oids' /\ Len(orders) + 1 \notin Oids
         /\ Len(orders) + 1 \in 1 .. MaxOrders
         /\ \A o \in Oids : orders'[o] = orders[o]
         /\ orders'[Len(orders) + 1] = [cid |-> slice, st |-> st]
  <1>1. [cid |-> slice, st |-> st] \in Order
    BY DEF Order
  <1>2. Len(orders) \in Nat
    BY DEF TypeOK
  <1>3. QED
    BY <1>1, <1>2, TrackerAssumption, AppendProperties
       DEF Accept, TypeOK, Oids, TrackerAssumption

\* An order that changes its state keeps its client order id.
LEMMA ExceptFacts ==
  ASSUME TypeOK, NEW o \in Oids, NEW st \in {"open", "filled", "canceled"},
         orders' = [orders EXCEPT ![o].st = st]
  PROVE  /\ orders' \in Seq(Order)
         /\ Len(orders') = Len(orders)
         /\ Oids' = Oids
         /\ \A p \in Oids : orders'[p].cid = orders[p].cid
         /\ \A p \in Oids : p # o => orders'[p] = orders[p]
         /\ orders'[o].st = st
  <1>1. orders[o] \in Order /\ Oids = DOMAIN orders
    BY DEF TypeOK, Oids
  <1>2. /\ [orders[o] EXCEPT !.st = st] \in Order
        /\ [orders[o] EXCEPT !.st = st].cid = orders[o].cid
        /\ [orders[o] EXCEPT !.st = st].st = st
    BY <1>1 DEF Order
  <1>3. orders' = [orders EXCEPT ![o] = [orders[o] EXCEPT !.st = st]]
    OBVIOUS
  <1>4. /\ orders' \in Seq(Order) /\ Len(orders') = Len(orders)
        /\ orders'[o] = [orders[o] EXCEPT !.st = st]
        /\ \A p \in Oids : p # o => orders'[p] = orders[p]
    <2> DEFINE n == [orders[o] EXCEPT !.st = st]
    <2>1. orders \in Seq(Order) /\ o \in DOMAIN orders /\ n \in Order
      BY <1>1, <1>2 DEF TypeOK
    <2>2. orders' = [orders EXCEPT ![o] = n]
      BY <1>3
    <2> HIDE DEF n
    <2>3. /\ orders' \in Seq(Order) /\ Len(orders') = Len(orders)
          /\ orders'[o] = n
          /\ \A p \in DOMAIN orders : p # o => orders'[p] = orders[p]
      BY ONLY <2>1, <2>2, ExceptSeq
    <2>4. QED
      BY <1>1, <2>3 DEF n
  <1>5. QED
    BY <1>1, <1>2, <1>4 DEF Oids

\* Every step keeps the types.
LEMMA NextTypeOK ==
  TypeOK /\ CurrentOk /\ ItemsHanded /\ OutcomeOk /\ [Next]_vars => TypeOK'
  <1> SUFFICES ASSUME TypeOK, CurrentOk, ItemsHanded, OutcomeOk, [Next]_vars PROVE TypeOK'
    OBVIOUS
  <1> USE DEF mainVars, trackerVars, world, history, MainLabels, TrackerLabels
  <1>0. /\ Slices \in Nat \ {0} /\ MaxOrders \in Nat /\ MaxFaults \in Nat
        /\ Len(orders) \in Nat /\ Len(snap) \in Nat /\ copies \in Nat
        /\ slice \in Nat /\ at \in Nat
        /\ NoOrder \in Key
    BY TrackerAssumption DEF TypeOK, TrackerAssumption, NoOrder, Key
  <1>a. ASSUME NextSlice, slice \in Cids
        PROVE  /\ slice' \in 1 .. Slices + 1 /\ cur' \in Key
               /\ pc' \in MainLabels /\ copies' \in Nat /\ cycleDone' \in BOOLEAN
               /\ copies' = copies
    BY <1>a, <1>0 DEF NextSlice, Cids, TypeOK
  <1>b. ASSUME EndPass
        PROVE  /\ tpc' = "idle" /\ snap' \in Seq(Item) /\ at' \in 1 .. Len(snap') + 1
               /\ late' \subseteq Oids /\ outcome' = "none" /\ seen' \in Key
               /\ gone' \subseteq Item
    BY <1>b, <1>0 DEF EndPass
  <1>c. ASSUME NextItem, at <= Len(snap)
        PROVE  /\ tpc' = "item" /\ snap' = snap /\ at' \in 1 .. Len(snap') + 1
               /\ late' = late /\ outcome' = "none" /\ seen' \in Key
    BY <1>c, <1>0 DEF NextItem
  <1>d. ASSUME Fault PROVE faults' \in 0 .. MaxFaults
    BY <1>d, <1>0 DEF Fault, TypeOK
  <1>1. CASE Take \/ SkipSlice \/ LeaveLoop \/ Intend
    <2>1. CASE Take
      BY <2>1 DEF Take, TypeOK, Oids
    <2>2. CASE SkipSlice
      <3>1. slice \in Cids
        BY <2>2, <1>0 DEF SkipSlice, Cids, TypeOK
      <3>2. QED
        BY <2>2, <3>1, <1>a DEF SkipSlice, TypeOK, Oids
    <2>3. CASE LeaveLoop
      BY <2>3 DEF LeaveLoop, GoTo, TypeOK, Oids
    <2>4. CASE Intend
      BY <2>4 DEF Intend, GoTo, TypeOK, Oids
    <2>5. QED
      BY <1>1, <2>1, <2>2, <2>3, <2>4
  <1>2. CASE NotPlaced
    BY <1>2, <1>a DEF NotPlaced, CurrentOk, TypeOK, Oids
  <1>3. CASE Place
    <2>1. slice \in Cids
      BY <1>3 DEF Place, CurrentOk
    <2>2. PICK st \in {"open", "filled", "canceled"} :
            /\ Accept(st)
            /\ cur' = [oid |-> Len(orders) + 1,
                       st |-> CASE st = "open" -> "ACK"
                                [] st = "filled" -> "FILLED"
                                [] st = "canceled" -> "CANCELED"]
      BY <1>3 DEF Place
    <2>3. cur' \in Key
      BY <2>1, <2>2, AcceptFacts, <1>0 DEF Key, Statuses, Submitted, Failed
    <2>4. QED
      BY <1>3, <2>1, <2>2, <2>3, AcceptFacts DEF Place, TypeOK
  <1>4. CASE PlaceReplyLost \/ PlaceWithoutId
    <2>1. slice \in Cids /\ Accept("open") /\ NextSlice /\ Fault
      BY <1>4 DEF PlaceReplyLost, PlaceWithoutId, CurrentOk
    <2>2. [oid |-> 0, st |-> "REJECTED"] \in Key
      BY <1>0 DEF Key, Statuses, Failed
    <2>3. dedup' \in [Cids -> Key] /\ astray' \subseteq Oids'
      BY <1>4, <2>1, <2>2, AcceptFacts DEF PlaceReplyLost, PlaceWithoutId, TypeOK
    <2>4. QED
      BY <1>4, <2>1, <2>3, <1>a, <1>d, AcceptFacts
         DEF PlaceReplyLost, PlaceWithoutId, TypeOK
  <1>5. CASE WriteDedup
    BY <1>5 DEF WriteDedup, GoTo, CurrentOk, TypeOK, Oids
  <1>6. CASE ReportSubmit \/ ReportUntracked
    <2>1. cur.oid \in 1 .. MaxOrders /\ cur.st \in Statuses
      BY <1>6, <1>0 DEF ReportSubmit, ReportUntracked, CurrentOk, Oids, TypeOK, Statuses,
                 Submitted, Failed
    <2>a. \A st \in Statuses : reports[cur.oid] \cup {st} \in SUBSET Statuses
      BY <2>1 DEF TypeOK
    <2>b. "REJECTED" \in Statuses
      BY DEF Statuses, Failed
    <2>2. reports' \in [1 .. MaxOrders -> SUBSET Statuses]
      BY <1>6, <2>1, <2>a, <2>b DEF ReportSubmit, ReportUntracked, TypeOK
    <2>3. QED
      BY <1>6, <2>2 DEF ReportSubmit, ReportUntracked, GoTo, TypeOK, Oids
  <1>7. CASE SubmitRaises
    BY <1>7, <1>a, <1>d DEF SubmitRaises, CurrentOk, TypeOK, Oids
  <1>8. CASE Track
    <2>1. cur.oid \in 1 .. MaxOrders /\ slice \in Cids
      BY <1>8, <1>0 DEF Track, CurrentOk, Oids, TypeOK
    <2>2. [oid |-> cur.oid, poll |-> 0] \in Item
      BY <2>1 DEF Item
    <2>3. queue' \in Seq(Item)
      BY <1>8, <2>2 DEF Track, TypeOK
    <2>4. QED
      BY <1>8, <2>1, <2>3, <1>a DEF Track, TypeOK, Oids
  <1>9. CASE DedupUntracked
    <2>1. slice \in Cids /\ cur.oid \in 0 .. MaxOrders
      BY <1>9 DEF DedupUntracked, CurrentOk, TypeOK, Key
    <2>2. [oid |-> cur.oid, st |-> "REJECTED"] \in Key
      BY <2>1 DEF Key, Statuses, Failed
    <2>3. QED
      BY <1>9, <2>1, <2>2, <1>a DEF DedupUntracked, TypeOK, Oids
  <1>10. CASE MarkDone \/ RetryOrDlq \/ Ack
    <2>1. CASE MarkDone
      BY <2>1 DEF MarkDone, TypeOK, Oids
    <2>2. CASE RetryOrDlq
      BY <2>2, <1>0 DEF RetryOrDlq, TypeOK, Oids
    <2>3. CASE Ack
      BY <2>3, <1>0 DEF Ack, TypeOK, Oids
    <2>4. QED
      BY <1>10, <2>1, <2>2, <2>3
  <1>11. CASE HandlerRaises
    BY <1>11, <1>0, <1>d DEF HandlerRaises, CurrentOk, TypeOK, Oids
  <1>12. CASE Scan
    <2>1. snap' \in Seq(Item) /\ at' \in 1 .. Len(snap') + 1
      BY <1>12 DEF Scan, TypeOK
    <2>2. late' \subseteq Oids
      BY <1>12 DEF Scan, TypeOK
    <2>3. QED
      BY <1>12, <2>1, <2>2 DEF Scan, TypeOK, Oids
  <1>13. CASE Timeout
    <2>1. PICK called \in BOOLEAN, raised \in BOOLEAN :
            /\ outcome' = TimeoutDecision(called, raised)
            /\ orders' \in {orders} \cup
                 (IF called /\ orders[order].st = "open"
                  THEN {[orders EXCEPT ![order].st = "canceled"]} ELSE {})
      BY <1>13 DEF Timeout
    <2>2. orders' = orders \/ orders' = [orders EXCEPT ![order].st = "canceled"]
      BY <2>1
    <2>3. order \in Oids
      BY <1>13 DEF Timeout, TimedOut, TypeOK
    <2>4. orders' \in Seq(Order) /\ Len(orders') = Len(orders) /\ Oids' = Oids
      BY <2>2, <2>3, ExceptFacts DEF TypeOK, Oids
    <2>5. outcome' \in Ends
      BY <2>1 DEF TimeoutDecision, Ends
    <2>6. QED
      BY <1>13, <2>4, <2>5 DEF Timeout, Scanning, TypeOK
  <1>14. CASE NotPolled
    BY <1>14, <1>c DEF NotPolled, Scanning, TypeOK, Oids
  <1>15. CASE PollOpen
    BY <1>15, <1>c, LsetFacts DEF PollOpen, Scanning, TypeOK, Oids
  <1>16. CASE PollTerminal
    BY <1>16 DEF PollTerminal, Scanning, TypeOK, Oids, Ends
  <1>17. CASE ReportOutcome
    <2>1. order \in 1 .. MaxOrders
      BY <1>17, OrderFacts DEF ReportOutcome, TypeOK
    <2>2. outcome \in Statuses
      BY <1>17 DEF ReportOutcome, OutcomeOk, Ends, Statuses, Submitted, Failed
    <2>3. reports[order] \cup {outcome} \in SUBSET Statuses
      BY <2>1, <2>2 DEF TypeOK
    <2>4. reports' \in [1 .. MaxOrders -> SUBSET Statuses]
      BY <1>17, <2>1, <2>3 DEF ReportOutcome, TypeOK
    <2>5. QED
      BY <1>17, <2>4 DEF ReportOutcome, Pass, TypeOK, Oids
  <1>18. CASE ReadDedup
    <2>1. orders[order] \in Order
      BY <1>18, OrderFacts DEF ReadDedup, TypeOK
    <2>2. seen' \in Key
      BY <1>18, <2>1 DEF ReadDedup, TypeOK, Order
    <2>3. QED
      BY <1>18, <2>2 DEF ReadDedup, TypeOK, Oids
  <1>19. CASE WriteOutcome
    <2>1. /\ at <= Len(snap)
          /\ order \in Oids /\ order \in 1 .. MaxOrders
          /\ orders[order] \in Order /\ snap[at] \in Item
      BY <1>19, OrderFacts DEF WriteOutcome, TypeOK
    <2>a. outcome \in Ends
      BY <1>19 DEF WriteOutcome, OutcomeOk
    <2>2. KeyToWrite \in Key
      BY <2>1, <2>a, <1>0 DEF KeyToWrite, Key, Ends, Statuses, Submitted,
                               Failed, TypeOK
    <2>3. dedup' \in [Cids -> Key] /\ gone' \subseteq Item /\ acked' \subseteq Oids
      BY <1>19, <2>1, <2>2 DEF WriteOutcome, Order, TypeOK
    <2>4. queue' \in Seq(Item)
      BY <1>19, LsetFacts DEF WriteOutcome, StoreItem, TypeOK
    <2>5. QED
      BY <1>19, <2>1, <2>3, <2>4, <1>c DEF WriteOutcome, TypeOK, Oids
  <1>20. CASE EndScan
    BY <1>20 DEF EndScan, Pass, TypeOK, Oids
  <1>21. CASE Remove
    <2>1. queue' \in Seq(Item)
      BY <1>21, LremFacts DEF Remove, TypeOK
    <2>2. CASE gone = {}
      BY <1>21, <2>1, <2>2, <1>b DEF Remove, TypeOK, Oids
    <2>3. CASE gone # {}
      BY <1>21, <2>1, <2>3 DEF Remove, TypeOK, Oids
    <2>4. QED
      BY <2>2, <2>3
  <1>22. CASE TrackerRaises
    <2>1. at <= Len(snap)
      BY <1>22 DEF TrackerRaises, TypeOK
    <2>2. CASE TimedOut
      BY <1>22, <2>2, <1>b, <1>d DEF TrackerRaises, TypeOK, Oids
    <2>3. CASE ~TimedOut
      BY <1>22, <2>1, <2>3, <1>c, <1>d, LsetFacts DEF TrackerRaises, TypeOK, Oids
    <2>4. QED
      BY <2>2, <2>3
  <1>23. CASE Crash
    <2>1. astray' \subseteq Oids
      BY <1>23 DEF Crash, CurrentOk, TypeOK
    <2>2. QED
      BY <1>23, <2>1, <1>0, <1>b, <1>d DEF Crash, TypeOK, Oids
  <1>24. CASE Exchange
    <2>1. PICK o \in Oids, st \in {"filled", "canceled"} :
            orders' = [orders EXCEPT ![o].st = st]
      BY <1>24 DEF Exchange
    <2>2. orders' \in Seq(Order) /\ Len(orders') = Len(orders) /\ Oids' = Oids
      BY <2>1, ExceptFacts
    <2>3. QED
      BY <1>24, <2>2 DEF Exchange, TypeOK
  <1>25. CASE Deadline
    BY <1>25 DEF Deadline, TypeOK, Oids
  <1>26. CASE UNCHANGED vars
    BY <1>26 DEF vars, TypeOK, Oids
  <1>27. QED
    BY <1>1, <1>2, <1>3, <1>4, <1>5, <1>6, <1>7, <1>8, <1>9, <1>10, <1>11, <1>12,
       <1>13, <1>14, <1>15, <1>16, <1>17, <1>18, <1>19, <1>20, <1>21, <1>22, <1>23,
       <1>24, <1>25, <1>26
       DEF Next, Main, Tracker

-----------------------------------------------------------------------------
(* What no step takes back *)

\* Orders stay, with their client order ids and the way they ended; so do
\* reports and acknowledgements. Only the tracker acknowledges an order that
\* the main thread has handed over.
Forward ==
  /\ Oids \subseteq Oids'
  /\ \A o \in Oids :
       /\ orders'[o].cid = orders[o].cid
       /\ orders[o].st # "open" => orders'[o].st = orders[o].st
       /\ reports[o] \subseteq reports'[o]
  /\ acked \subseteq acked'

\* No step goes back on it.
LEMMA NextForward == IInv /\ [Next]_vars => Forward
  <1> SUFFICES ASSUME IInv, [Next]_vars PROVE Forward
    OBVIOUS
  <1> USE DEF mainVars, trackerVars, world, history
  <1>0. TypeOK /\ CurrentOk /\ ItemsHanded
    BY DEF IInv
  <1>a. ASSUME UNCHANGED <<orders, reports>>, acked \subseteq acked' PROVE Forward
    BY <1>a DEF Forward, Oids
  <1>b. ASSUME NEW o \in Oids, NEW st \in {"open", "filled", "canceled"},
               orders[o].st = "open", orders' = [orders EXCEPT ![o].st = st],
               UNCHANGED <<reports, acked>>
        PROVE  Forward
    BY <1>b, <1>0, ExceptFacts DEF Forward
  <1>c. ASSUME NEW st \in {"open", "filled", "canceled"}, slice \in Cids, Accept(st),
               UNCHANGED <<reports, acked>>
        PROVE  Forward
    BY <1>c, <1>0, AcceptFacts DEF Forward
  <1>d. ASSUME NEW o \in Oids, NEW new, reports' = [reports EXCEPT ![o] = @ \cup {new}],
               UNCHANGED <<orders, acked>>
        PROVE  Forward
    <2>1. o \in 1 .. MaxOrders /\ Oids \subseteq 1 .. MaxOrders
      BY <1>0, TrackerAssumption DEF TypeOK, Oids, TrackerAssumption
    <2>2. QED
      BY <1>d, <1>0, <2>1 DEF Forward, TypeOK, Oids
  <1>1. CASE Take \/ SkipSlice \/ LeaveLoop \/ Intend \/ NotPlaced \/ MarkDone \/ RetryOrDlq
             \/ Ack \/ Track \/ DedupUntracked \/ WriteDedup
    BY <1>1, <1>a DEF Take, SkipSlice, LeaveLoop, Intend, NotPlaced, MarkDone, RetryOrDlq,
                      Ack, Track, DedupUntracked, WriteDedup
  <1>2. CASE Place \/ PlaceReplyLost \/ PlaceWithoutId
    <2>1. slice \in Cids
      BY <1>2, <1>0 DEF Place, PlaceReplyLost, PlaceWithoutId, CurrentOk
    <2>2. \E st \in {"open", "filled", "canceled"} : Accept(st)
      BY <1>2 DEF Place, PlaceReplyLost, PlaceWithoutId
    <2>3. UNCHANGED <<reports, acked>>
      BY <1>2 DEF Place, PlaceReplyLost, PlaceWithoutId
    <2>4. QED
      BY <2>1, <2>2, <2>3, <1>c
  <1>3. CASE ReportSubmit \/ ReportUntracked
    <2>1. cur.oid \in Oids
      BY <1>3, <1>0 DEF ReportSubmit, ReportUntracked, CurrentOk
    <2>2. QED
      BY <1>3, <2>1, <1>d DEF ReportSubmit, ReportUntracked
  <1>4. CASE SubmitRaises \/ HandlerRaises \/ TrackerRaises \/ Crash \/ Deadline
    BY <1>4, <1>a DEF SubmitRaises, HandlerRaises, TrackerRaises, Crash, Deadline
  <1>5. CASE Scan \/ NotPolled \/ PollOpen \/ PollTerminal \/ ReadDedup \/ EndScan \/ Remove
    BY <1>5, <1>a DEF Scan, NotPolled, PollOpen, PollTerminal, ReadDedup, EndScan, Remove
  <1>6. CASE Timeout
    <2>1. order \in Oids
      BY <1>6, <1>0 DEF Timeout, TimedOut, TypeOK
    <2>2. \/ UNCHANGED orders
          \/ orders[order].st = "open" /\ orders' = [orders EXCEPT ![order].st = "canceled"]
      BY <1>6 DEF Timeout
    <2>3. UNCHANGED <<reports, acked>>
      BY <1>6 DEF Timeout
    <2>4. QED
      BY <2>1, <2>2, <2>3, <1>a, <1>b
  <1>7. CASE ReportOutcome
    <2>1. order \in Oids
      BY <1>7, <1>0, OrderFacts DEF ReportOutcome, TypeOK
    <2>2. QED
      BY <1>7, <2>1, <1>d DEF ReportOutcome
  <1>8. CASE WriteOutcome
    BY <1>8, <1>a DEF WriteOutcome
  <1>9. CASE Exchange
    BY <1>9, <1>b DEF Exchange
  <1>10. CASE UNCHANGED vars
    BY <1>10, <1>a DEF vars
  <1>11. QED
    BY <1>1, <1>2, <1>3, <1>4, <1>5, <1>6, <1>7, <1>8, <1>9, <1>10 DEF Next, Main, Tracker

\* What has been handed over stays handed over, what has ended stays ended.
LEMMA HandedStays ==
  ASSUME Forward, NEW o
  PROVE  /\ Handed(o) => Handed(o)'
         /\ o \in Oids /\ Ended(o) => Ended(o)'
  BY DEF Forward, Handed, Ended

\* The queue only gets what the main thread adds, the snapshot what is queued.
LEMMA NextItemsHanded == IInv /\ [Next]_vars => ItemsHanded'
  <1> SUFFICES ASSUME IInv, [Next]_vars PROVE ItemsHanded'
    OBVIOUS
  <1> USE DEF mainVars, trackerVars, world, history
  <1>0. TypeOK /\ CurrentOk /\ ItemsHanded /\ Forward
    BY NextForward DEF IInv
  <1>a. ASSUME \A i \in DOMAIN queue' :
                 \/ \E j \in DOMAIN queue : queue'[i].oid = queue[j].oid
                 \/ Handed(queue'[i].oid),
               snap' \in {snap, queue, <<>>}
        PROVE  ItemsHanded'
    <2>1. \A i \in DOMAIN queue' : Handed(queue'[i].oid)
      BY <1>a, <1>0 DEF ItemsHanded
    <2>2. \A i \in DOMAIN snap' : Handed(snap'[i].oid)
      BY <1>a, <1>0 DEF ItemsHanded
    <2>3. QED
      BY <2>1, <2>2, <1>0, HandedStays DEF ItemsHanded
  <1>b. ASSUME UNCHANGED queue, snap' \in {snap, queue, <<>>} PROVE ItemsHanded'
    BY <1>a, <1>b
  <1>c. ASSUME Lset, snap' = snap PROVE ItemsHanded'
    BY <1>0, <1>a, <1>c, LsetFacts
  <1>1. CASE Take \/ SkipSlice \/ LeaveLoop \/ Intend \/ NotPlaced \/ MarkDone \/ RetryOrDlq
             \/ Ack \/ DedupUntracked \/ WriteDedup \/ ReportSubmit \/ ReportUntracked \/ Place
    BY <1>1, <1>b DEF Take, SkipSlice, LeaveLoop, Intend, NotPlaced, MarkDone, RetryOrDlq,
                      Ack, DedupUntracked, WriteDedup, ReportSubmit, ReportUntracked, Place
  <1>2. CASE PlaceReplyLost \/ PlaceWithoutId \/ SubmitRaises \/ HandlerRaises \/ Exchange
             \/ Deadline
    BY <1>2, <1>b DEF PlaceReplyLost, PlaceWithoutId, SubmitRaises, HandlerRaises, Exchange,
                      Deadline
  <1>3. CASE Track
    <2>1. Handed(cur.oid)
      BY <1>3, <1>0 DEF Track, CurrentOk
    <2>2. /\ queue' = Append(queue, [oid |-> cur.oid, poll |-> 0])
          /\ snap' = snap
      BY <1>3 DEF Track
    <2>3. \A i \in DOMAIN queue' : i \in DOMAIN queue \/ i = Len(queue) + 1
      BY <2>2, <1>0 DEF TypeOK
    <2>4. QED
      BY <2>1, <2>2, <2>3, <1>0, <1>a DEF TypeOK
  <1>4. CASE Scan \/ Timeout \/ NotPolled \/ PollTerminal \/ ReportOutcome \/ ReadDedup
             \/ EndScan
    BY <1>4, <1>b DEF Scan, Timeout, NotPolled, PollTerminal, ReportOutcome, ReadDedup,
                      EndScan, NextItem, Pass
  <1>5. CASE PollOpen
    BY <1>5, <1>c DEF PollOpen, NextItem
  <1>6. CASE WriteOutcome
    BY <1>6, <1>b, <1>c DEF WriteOutcome, StoreItem, NextItem
  <1>7. CASE Remove
    <2>1. snap' \in {snap, <<>>}
      BY <1>7 DEF Remove, EndPass
    <2>2. UNCHANGED queue \/ \E value \in gone : Lrem(value)
      BY <1>7 DEF Remove
    <2>3. \A i \in DOMAIN queue' : \E j \in DOMAIN queue : queue'[i].oid = queue[j].oid
      BY <2>2, <1>0, LremFacts
    <2>4. QED
      BY <2>1, <2>3, <1>a
  <1>8. CASE TrackerRaises
    BY <1>8, <1>b, <1>c DEF TrackerRaises, EndPass, NextItem
  <1>9. CASE Crash
    BY <1>9, <1>b DEF Crash, EndPass
  <1>10. CASE UNCHANGED vars
    BY <1>10, <1>b DEF vars
  <1>11. QED
    BY <1>1, <1>2, <1>3, <1>4, <1>5, <1>6, <1>7, <1>8, <1>9, <1>10 DEF Next, Main, Tracker

\* Reports are about orders the exchange has.
LEMMA NextUnplacedUnreported == IInv /\ [Next]_vars => UnplacedUnreported'
  <1> SUFFICES ASSUME IInv, [Next]_vars PROVE UnplacedUnreported'
    OBVIOUS
  <1> USE DEF mainVars, trackerVars, world, history
  <1>0. TypeOK /\ CurrentOk /\ ItemsHanded /\ UnplacedUnreported /\ Oids \subseteq Oids'
    BY NextForward DEF IInv, Forward
  <1>a. ASSUME UNCHANGED reports PROVE UnplacedUnreported'
    BY <1>0, <1>a DEF UnplacedUnreported
  <1>b. ASSUME NEW o \in Oids, NEW new, reports' = [reports EXCEPT ![o] = @ \cup {new}]
        PROVE  UnplacedUnreported'
    BY <1>0, <1>b DEF UnplacedUnreported, TypeOK
  <1>1. CASE Take \/ SkipSlice \/ LeaveLoop \/ Intend \/ NotPlaced \/ MarkDone \/ RetryOrDlq
             \/ Ack \/ Track \/ DedupUntracked \/ WriteDedup \/ Place
    BY <1>1, <1>a DEF Take, SkipSlice, LeaveLoop, Intend, NotPlaced, MarkDone, RetryOrDlq,
                      Ack, Track, DedupUntracked, WriteDedup, Place
  <1>2. CASE PlaceReplyLost \/ PlaceWithoutId \/ SubmitRaises \/ HandlerRaises
             \/ TrackerRaises \/ Crash \/ Exchange \/ Deadline
    BY <1>2, <1>a DEF PlaceReplyLost, PlaceWithoutId, SubmitRaises, HandlerRaises,
                      TrackerRaises, Crash, Exchange, Deadline
  <1>3. CASE Scan \/ Timeout \/ NotPolled \/ PollOpen \/ PollTerminal \/ ReadDedup
             \/ WriteOutcome \/ EndScan \/ Remove
    BY <1>3, <1>a DEF Scan, Timeout, NotPolled, PollOpen, PollTerminal, ReadDedup,
                      WriteOutcome, EndScan, Remove
  <1>4. CASE ReportSubmit \/ ReportUntracked
    BY <1>4, <1>0, <1>b DEF ReportSubmit, ReportUntracked, CurrentOk
  <1>5. CASE ReportOutcome
    BY <1>5, <1>0, <1>b, OrderFacts DEF ReportOutcome, TypeOK
  <1>6. CASE UNCHANGED vars
    BY <1>6, <1>a DEF vars
  <1>7. QED
    BY <1>1, <1>2, <1>3, <1>4, <1>5, <1>6 DEF Next, Main, Tracker

\* The order in the main thread's hands is untouched by the tracker, which
\* reports and acknowledges only what has been handed over.
LEMMA NextCurrentOk == IInv /\ [Next]_vars => CurrentOk'
  <1> SUFFICES ASSUME IInv, [Next]_vars PROVE CurrentOk'
    OBVIOUS
  <1> USE DEF mainVars, trackerVars, world, history
  <1>0. /\ TypeOK /\ CurrentOk /\ ItemsHanded /\ UnplacedUnreported /\ Forward
        /\ TypeOK'
    BY NextForward, NextTypeOK DEF IInv
  <1>a. ASSUME pc' \in {"idle", "slice", "done", "ack", "readd", "drop"} PROVE CurrentOk'
    BY <1>a DEF CurrentOk
  <1>b. ASSUME UNCHANGED mainVars,
               \A o \in Oids : reports[o] = {} =>
                 reports'[o] = {} /\ (o \notin acked => o \notin acked')
        PROVE  CurrentOk'
    <2>1. Handed(cur.oid) => Handed(cur.oid)'
      BY <1>0, HandedStays, <1>b
    <2>2. \A o \in Oids : /\ o \in Oids' /\ orders'[o].cid = orders[o].cid
                          /\ reports[o] \subseteq reports'[o]
      BY <1>0 DEF Forward
    <2>3. acked \subseteq acked'
      BY <1>0 DEF Forward
    <2>4. QED
      BY <1>0, <1>b, <2>1, <2>2, <2>3 DEF CurrentOk
  <1>c. ASSUME UNCHANGED mainVars, UNCHANGED <<reports, acked>> PROVE CurrentOk'
    BY <1>b, <1>c
  <1>1. CASE Take \/ SkipSlice \/ LeaveLoop \/ NotPlaced \/ MarkDone \/ RetryOrDlq
             \/ Ack \/ Track \/ DedupUntracked \/ PlaceReplyLost \/ PlaceWithoutId
             \/ SubmitRaises \/ HandlerRaises \/ Crash
    BY <1>1, <1>a DEF Take, SkipSlice, LeaveLoop, NotPlaced, MarkDone, RetryOrDlq, Ack,
                      Track, DedupUntracked, PlaceReplyLost, PlaceWithoutId, SubmitRaises,
                      HandlerRaises, Crash, NextSlice, GoTo
  <1>2. CASE Intend
    BY <1>2, <1>0 DEF Intend, GoTo, CurrentOk, TypeOK, Cids
  <1>3. CASE Place
    <2>1. PICK st \in {"open", "filled", "canceled"} :
            /\ Accept(st)
            /\ cur' = [oid |-> Len(orders) + 1,
                       st |-> CASE st = "open" -> "ACK"
                                [] st = "filled" -> "FILLED"
                                [] st = "canceled" -> "CANCELED"]
      BY <1>3 DEF Place
    <2>2. slice \in Cids /\ slice' = slice /\ pc' = "dedup" /\ UNCHANGED <<reports, acked>>
      BY <1>3, <1>0 DEF Place, CurrentOk
    <2>3. /\ cur'.oid = Len(orders) + 1
          /\ cur'.oid \in Oids' /\ cur'.oid \notin Oids /\ cur'.oid \in 1 .. MaxOrders
          /\ orders'[cur'.oid].cid = slice
      BY <1>0, <2>1, <2>2, AcceptFacts
    <2>4. cur'.st \in {"ACK", "FILLED", "CANCELED"}
      BY <2>1
    <2>5. reports[cur'.oid] = {} /\ cur'.oid \notin acked
      BY <1>0, <2>3 DEF UnplacedUnreported, TypeOK
    <2>6. QED
      BY <2>2, <2>3, <2>4, <2>5 DEF CurrentOk
  <1>4. CASE WriteDedup
    BY <1>4, <1>0 DEF WriteDedup, GoTo, CurrentOk, Submitted, Failed, Oids
  <1>5. CASE ReportSubmit
    <2>1. /\ pc' = "track" /\ UNCHANGED <<slice, cur, orders, acked>>
          /\ reports' = [reports EXCEPT ![cur.oid] = @ \cup {cur.st}]
      BY <1>5 DEF ReportSubmit, GoTo
    <2>2. /\ slice \in Cids /\ cur.oid \in Oids /\ orders[cur.oid].cid = slice
          /\ cur.st \in {"ACK", "FILLED", "CANCELED"}
          /\ cur.oid \in acked \/ cur.st \in Failed
      BY <1>5, <1>0 DEF ReportSubmit, CurrentOk
    <2>3. cur.st \in reports'[cur.oid]
      BY <1>0, <2>1, <2>2, TrackerAssumption DEF TypeOK, Oids, TrackerAssumption
    <2>4. QED
      BY <2>1, <2>2, <2>3 DEF CurrentOk, Handed, Oids
  <1>6. CASE ReportUntracked
    <2>1. /\ pc' = "untracked" /\ UNCHANGED <<slice, cur, orders, acked>>
          /\ reports' = [reports EXCEPT ![cur.oid] = @ \cup {"REJECTED"}]
      BY <1>6 DEF ReportUntracked, GoTo
    <2>2. /\ slice \in Cids /\ cur.oid \in Oids /\ orders[cur.oid].cid = slice
          /\ cur.st \in {"ACK", "FILLED", "CANCELED"} /\ Handed(cur.oid)
      BY <1>6, <1>0 DEF ReportUntracked, CurrentOk
    <2>3. "REJECTED" \in reports'[cur.oid]
      BY <1>0, <2>1, <2>2, TrackerAssumption DEF TypeOK, Oids, TrackerAssumption
    <2>4. QED
      BY <1>0, <2>1, <2>2, <2>3, HandedStays DEF CurrentOk, Oids
  <1>7. CASE Scan \/ Timeout \/ NotPolled \/ PollOpen \/ PollTerminal \/ ReadDedup
             \/ EndScan \/ Remove \/ TrackerRaises \/ Exchange \/ Deadline
    BY <1>7, <1>c DEF Scan, Timeout, NotPolled, PollOpen, PollTerminal, ReadDedup,
                      EndScan, Remove, TrackerRaises, Exchange, Deadline
  <1>8. CASE ReportOutcome
    <2>1. order \in Oids /\ reports[order] # {}
      BY <1>8, <1>0, OrderFacts DEF ReportOutcome, TypeOK, Handed
    <2>2. \A o \in Oids : reports[o] = {} => reports'[o] = {}
      BY <1>8, <1>0, <2>1 DEF ReportOutcome, TypeOK
    <2>3. QED
      BY <1>8, <2>2, <1>b DEF ReportOutcome
  <1>9. CASE WriteOutcome
    <2>1. order \in Oids /\ reports[order] # {}
      BY <1>9, <1>0, OrderFacts DEF WriteOutcome, TypeOK, Handed
    <2>2. QED
      BY <1>9, <2>1, <1>b DEF WriteOutcome
  <1>10. CASE UNCHANGED vars
    BY <1>10, <1>c DEF vars
  <1>11. QED
    BY <1>1, <1>2, <1>3, <1>4, <1>5, <1>6, <1>7, <1>8, <1>9, <1>10 DEF Next, Main, Tracker

\* The tracker reports what it has seen and removes only what has ended.
LEMMA NextOutcomeOk == IInv /\ [Next]_vars => OutcomeOk'
  <1> SUFFICES ASSUME IInv, [Next]_vars PROVE OutcomeOk'
    OBVIOUS
  <1> USE DEF mainVars, trackerVars, world, history
  <1>0. TypeOK /\ ItemsHanded /\ OutcomeOk /\ Forward
    BY NextForward DEF IInv
  <1>g. \A item \in gone : item.oid \in Oids' /\ Ended(item.oid)'
    BY <1>0, HandedStays DEF OutcomeOk, Forward
  <1>a. ASSUME tpc' \in {"idle", "item", "remove"}, gone' \subseteq gone PROVE OutcomeOk'
    BY <1>a, <1>g DEF OutcomeOk
  <1>b. ASSUME UNCHANGED trackerVars PROVE OutcomeOk'
    <2>1. CASE tpc \in {"report", "read", "write"}
      <3>1. order \in Oids /\ order' = order
        BY <1>0, <1>b, <2>1, OrderFacts DEF TypeOK, order
      <3>2. /\ reports[order] \subseteq reports'[order]
            /\ orders[order].st = "filled" => orders'[order].st = "filled"
        BY <1>0, <3>1 DEF Forward
      <3>3. QED
        BY <1>0, <1>b, <1>g, <3>1, <3>2 DEF OutcomeOk
    <2>2. CASE tpc \notin {"report", "read", "write"}
      BY <1>b, <1>g, <2>2 DEF OutcomeOk
    <2>3. QED
      BY <2>1, <2>2
  <1>1. CASE Main
    BY <1>1, <1>b DEF Main, Take, SkipSlice, LeaveLoop, Intend, NotPlaced, Place, WriteDedup,
                      ReportSubmit, Track, ReportUntracked, DedupUntracked, MarkDone,
                      RetryOrDlq, Ack
  <1>2. CASE PlaceReplyLost \/ PlaceWithoutId \/ SubmitRaises \/ HandlerRaises \/ Exchange
             \/ Deadline
    BY <1>2, <1>b DEF PlaceReplyLost, PlaceWithoutId, SubmitRaises, HandlerRaises, Exchange,
                      Deadline
  <1>3. CASE Scan \/ NotPolled \/ PollOpen \/ EndScan \/ Remove \/ TrackerRaises \/ Crash
    BY <1>3, <1>a DEF Scan, NotPolled, PollOpen, EndScan, Remove, TrackerRaises, Crash,
                      NextItem, EndPass, Pass
  <1>4. CASE Timeout
    <2>1. outcome' \in {"CANCELED", "REJECTED"} /\ tpc' = "report" /\ gone' = gone
      BY <1>4 DEF Timeout, TimeoutDecision
    <2>2. QED
      BY <2>1, <1>g DEF OutcomeOk, Ends
  <1>5. CASE PollTerminal
    <2>1. /\ outcome' = IF orders[order].st = "filled" THEN "FILLED" ELSE "CANCELED"
          /\ tpc' = "report" /\ gone' = gone /\ order' = order /\ orders' = orders
      BY <1>5 DEF PollTerminal, order
    <2>2. QED
      BY <2>1, <1>g DEF OutcomeOk, Ends
  <1>6. CASE ReportOutcome
    <2>1. order \in Oids /\ order \in 1 .. MaxOrders /\ order' = order
      BY <1>6, <1>0, OrderFacts DEF ReportOutcome, Pass, TypeOK, order
    <2>2. outcome \in reports'[order]
      BY <1>6, <1>0, <2>1 DEF ReportOutcome, TypeOK
    <2>3. QED
      BY <1>6, <1>0, <1>g, <2>1, <2>2 DEF ReportOutcome, Pass, OutcomeOk
  <1>7. CASE ReadDedup
    <2>1. order' = order
      BY <1>7 DEF ReadDedup, order
    <2>2. QED
      BY <1>7, <1>0, <1>g, <2>1 DEF ReadDedup, OutcomeOk
  <1>8. CASE WriteOutcome
    <2>1. order \in Oids /\ snap[at].oid = order
      BY <1>8, <1>0, OrderFacts DEF WriteOutcome, TypeOK, order
    <2>a. /\ outcome \in Ends /\ outcome \in reports[order]
          /\ outcome = "FILLED" => orders[order].st = "filled"
      BY <1>8, <1>0 DEF WriteOutcome, OutcomeOk
    <2>2. Ended(order)
      BY <2>a DEF Ended, Ends, Failed
    <2>3. \A o \in Oids : Ended(o) => o \in Oids' /\ Ended(o)'
      BY <1>0, HandedStays DEF Forward
    <2>4. ASSUME NEW item, item = snap[at] PROVE item.oid \in Oids' /\ Ended(item.oid)'
      BY <2>1, <2>2, <2>3, <2>4
    <2>5. \A item \in gone' : item.oid \in Oids' /\ Ended(item.oid)'
      BY <1>8, <1>g, <2>4 DEF WriteOutcome
    <2>6. QED
      BY <1>8, <2>5 DEF WriteOutcome, NextItem, OutcomeOk
  <1>9. CASE UNCHANGED vars
    BY <1>9, <1>b DEF vars
  <1>10. QED
    BY <1>1, <1>2, <1>3, <1>4, <1>5, <1>6, <1>7, <1>8, <1>9 DEF Next, Tracker

-----------------------------------------------------------------------------
(* No open order falls between the threads *)

\* A tracked order stays in the queue until an item of it is removed.
LEMMA TrackedStays ==
  ASSUME IInv, [Next]_vars, NEW o, Tracked(o)
  PROVE  Tracked(o)' \/ (o \in Oids /\ Ended(o))
  <1> USE DEF mainVars, trackerVars, world, history
  <1>0. TypeOK /\ OutcomeOk
    BY DEF IInv
  <1>1. CASE UNCHANGED queue
    BY <1>1 DEF Tracked
  <1>2. CASE Lset
    BY <1>0, <1>2, LsetFacts DEF Tracked
  <1>3. CASE Track
    <2>1. queue' = Append(queue, [oid |-> cur.oid, poll |-> 0])
      BY <1>3 DEF Track
    <2>2. \A i \in DOMAIN queue : i \in DOMAIN queue' /\ queue'[i] = queue[i]
      BY <1>0, <2>1 DEF TypeOK
    <2>3. QED
      BY <2>2 DEF Tracked
  <1>4. CASE Remove
    <2>1. CASE gone = {}
      BY <1>1, <1>4, <2>1 DEF Remove
    <2>2. CASE \E value \in gone : Lrem(value)
      <3>1. PICK value \in gone : Lrem(value)
        BY <2>2
      <3>2. PICK i \in DOMAIN queue : queue[i].oid = o
        BY DEF Tracked
      <3>3. CASE queue[i] = value
        BY <1>0, <3>1, <3>2, <3>3 DEF OutcomeOk
      <3>4. CASE \E j \in DOMAIN queue' : queue'[j] = queue[i]
        BY <3>2, <3>4 DEF Tracked
      <3>5. QED
        BY <1>0, <3>1, <3>2, <3>3, <3>4, LremFacts
    <2>3. QED
      BY <1>4, <2>1, <2>2 DEF Remove
  <1>5. CASE Main /\ ~Track
    BY <1>5, <1>1 DEF Main, Take, SkipSlice, LeaveLoop, Intend, NotPlaced, Place, WriteDedup,
                      ReportSubmit, ReportUntracked, DedupUntracked, MarkDone, RetryOrDlq, Ack
  <1>6. CASE PlaceReplyLost \/ PlaceWithoutId \/ SubmitRaises \/ HandlerRaises \/ Exchange
             \/ Deadline \/ Crash
    BY <1>6, <1>1 DEF PlaceReplyLost, PlaceWithoutId, SubmitRaises, HandlerRaises, Exchange,
                      Deadline, Crash
  <1>7. CASE Tracker /\ ~Remove
    BY <1>7, <1>1, <1>2 DEF Tracker, Scan, Timeout, NotPolled, PollOpen, PollTerminal,
                            ReportOutcome, ReadDedup, WriteOutcome, StoreItem, EndScan
  <1>8. CASE TrackerRaises
    BY <1>8, <1>1, <1>2 DEF TrackerRaises
  <1>9. CASE UNCHANGED vars
    BY <1>9, <1>1 DEF vars
  <1>10. QED
    BY <1>3, <1>4, <1>5, <1>6, <1>7, <1>8, <1>9 DEF Next

\* The main thread lets go of an order only into the queue, a report or a fault.
LEMMA InFlightStays ==
  ASSUME IInv, [Next]_vars, NEW o \in Oids, InFlight(o)
  PROVE  \/ InFlight(o)' \/ Tracked(o)'
         \/ reports'[o] \cap Failed # {} \/ o \in astray'
  <1> USE DEF mainVars, trackerVars, world, history, InFlight
  <1>0. TypeOK /\ CurrentOk /\ Forward
    BY NextForward DEF IInv
  <1>1. CASE UNCHANGED <<pc, cur>>
    BY <1>1
  <1>2. CASE WriteDedup \/ ReportSubmit \/ ReportUntracked
    BY <1>2 DEF WriteDedup, ReportSubmit, ReportUntracked, GoTo
  <1>3. CASE SubmitRaises \/ Crash \/ HandlerRaises \/ DedupUntracked
    <2>1. pc # "untracked" => o \in astray'
      BY <1>3 DEF SubmitRaises, Crash, HandlerRaises, DedupUntracked
    <2>2. pc = "untracked" => "REJECTED" \in reports[o]
      BY <1>0 DEF CurrentOk
    <2>3. QED
      BY <1>0, <2>1, <2>2 DEF Forward, Failed
  <1>4. CASE Track
    <2>1. queue' = Append(queue, [oid |-> cur.oid, poll |-> 0])
      BY <1>4 DEF Track
    <2>2. Len(queue) + 1 \in DOMAIN queue' /\ queue'[Len(queue) + 1].oid = o
      BY <1>0, <2>1 DEF TypeOK
    <2>3. QED
      BY <2>2 DEF Tracked
  <1>5. CASE Take \/ SkipSlice \/ LeaveLoop \/ Intend \/ NotPlaced \/ Place \/ MarkDone
             \/ RetryOrDlq \/ Ack \/ PlaceReplyLost \/ PlaceWithoutId
    BY <1>5 DEF Take, SkipSlice, LeaveLoop, Intend, NotPlaced, Place, MarkDone, RetryOrDlq,
                Ack, PlaceReplyLost, PlaceWithoutId
  <1>6. CASE Tracker \/ TrackerRaises \/ Exchange \/ Deadline
    BY <1>6, <1>1 DEF Tracker, Scan, Timeout, NotPolled, PollOpen, PollTerminal,
                      ReportOutcome, ReadDedup, WriteOutcome, EndScan, Remove,
                      TrackerRaises, Exchange, Deadline
  <1>7. CASE UNCHANGED vars
    BY <1>7, <1>1 DEF vars
  <1>8. QED
    BY <1>2, <1>3, <1>4, <1>5, <1>6, <1>7 DEF Next, Main

\* A new order is in the main thread's hands, or a fault took it.
LEMMA NewOrder ==
  ASSUME IInv, [Next]_vars, NEW o \in Oids', o \notin Oids
  PROVE  /\ Place \/ PlaceReplyLost \/ PlaceWithoutId
         /\ orders'[o].cid = slice /\ o = Len(orders')
         /\ InFlight(o)' \/ o \in astray'
  <1> USE DEF mainVars, trackerVars, world, history
  <1>0. TypeOK /\ CurrentOk
    BY DEF IInv
  <1>1. CASE Len(orders') = Len(orders)
    BY <1>1 DEF Oids
  <1>2. CASE Place \/ PlaceReplyLost \/ PlaceWithoutId
    <2>1. slice \in Cids
      BY <1>2, <1>0 DEF Place, PlaceReplyLost, PlaceWithoutId, CurrentOk
    <2>2. PICK st \in {"open", "filled", "canceled"} : Accept(st)
      BY <1>2 DEF Place, PlaceReplyLost, PlaceWithoutId
    <2>3. o = Len(orders) + 1 /\ o = Len(orders') /\ orders'[o].cid = slice
      BY <1>0, <2>1, <2>2, AcceptFacts DEF Oids, TypeOK
    <2>4. CASE Place
      <3>1. cur'.oid = Len(orders) + 1 /\ pc' = "dedup"
        BY <2>4 DEF Place
      <3>2. QED
        BY <1>2, <2>3, <3>1 DEF InFlight
    <2>5. CASE PlaceReplyLost \/ PlaceWithoutId
      BY <1>2, <2>3, <2>5 DEF PlaceReplyLost, PlaceWithoutId
    <2>6. QED
      BY <1>2, <2>4, <2>5
  <1>3. CASE Main /\ ~Place
    BY <1>1, <1>3 DEF Main, Take, SkipSlice, LeaveLoop, Intend, NotPlaced, WriteDedup,
                ReportSubmit, Track, ReportUntracked, DedupUntracked, MarkDone, RetryOrDlq, Ack
  <1>4. CASE SubmitRaises \/ HandlerRaises \/ TrackerRaises \/ Crash \/ Deadline
    BY <1>1, <1>4 DEF SubmitRaises, HandlerRaises, TrackerRaises, Crash, Deadline
  <1>5. CASE Tracker /\ ~Timeout
    BY <1>1, <1>5 DEF Tracker, Scan, NotPolled, PollOpen, PollTerminal, ReportOutcome,
                      ReadDedup, WriteOutcome, EndScan, Remove
  <1>6. CASE Timeout
    <2>1. order \in Oids
      BY <1>6, <1>0 DEF Timeout, TimedOut, TypeOK
    <2>2. orders' = orders \/ orders' = [orders EXCEPT ![order].st = "canceled"]
      BY <1>6 DEF Timeout
    <2>3. QED
      BY <1>0, <1>1, <2>1, <2>2, ExceptFacts
  <1>7. CASE Exchange
    BY <1>0, <1>1, <1>7, ExceptFacts DEF Exchange
  <1>8. CASE UNCHANGED vars
    BY <1>1, <1>8 DEF vars
  <1>9. QED
    BY <1>2, <1>3, <1>4, <1>5, <1>6, <1>7, <1>8 DEF Next

\* Every open order stays watched, whatever the two threads do with the queue.
LEMMA NextOpenOrdersWatched == IInv /\ [Next]_vars => OpenOrdersWatched'
  <1> SUFFICES ASSUME IInv, [Next]_vars, NEW o \in Oids', orders'[o].st = "open"
               PROVE  \/ InFlight(o)' \/ Tracked(o)'
                      \/ reports'[o] \cap Failed # {} \/ o \in astray'
    BY DEF OpenOrdersWatched
  <1>1. CASE o \notin Oids
    BY <1>1, NewOrder
  <1>2. CASE o \in Oids
    <2>1. Forward /\ OpenOrdersWatched
      BY NextForward DEF IInv
    <2>2. orders[o].st = "open" /\ reports[o] \subseteq reports'[o]
      BY <1>2, <2>1 DEF Forward
    <2>3. CASE InFlight(o)
      BY <1>2, <2>3, InFlightStays
    <2>4. CASE Tracked(o)
      BY <1>2, <2>2, <2>4, TrackedStays DEF Ended
    <2>5. CASE reports[o] \cap Failed # {}
      BY <2>2, <2>5
    <2>6. CASE o \in astray
      <3>1. astray \subseteq astray'
        BY DEF mainVars, trackerVars, world, history, vars, Next, Main, Take, SkipSlice, LeaveLoop,
           Intend, NotPlaced, Place, WriteDedup, ReportSubmit, Track, ReportUntracked,
           DedupUntracked, MarkDone, RetryOrDlq, Ack, PlaceReplyLost, PlaceWithoutId,
           SubmitRaises, HandlerRaises, Tracker, Scan, Timeout, NotPolled, PollOpen,
           PollTerminal, ReportOutcome, ReadDedup, WriteOutcome, EndScan, Remove,
           TrackerRaises, Crash, Exchange, Deadline
      <3>2. QED
        BY <2>6, <3>1
    <2>7. QED
      BY <1>2, <2>1, <2>2, <2>3, <2>4, <2>5, <2>6 DEF OpenOrdersWatched
  <1>3. QED
    BY <1>1, <1>2

-----------------------------------------------------------------------------
(* What was acknowledged is not submitted again *)

\* A slice stays repeatable as long as it gets no order and none of its orders
\* loses its reason to be repeated.
LEMMA RepeatableStays ==
  ASSUME Forward, Oids' = Oids, NEW c, Repeatable(c),
         \A o \in Oids : orders[o].cid = c /\ MayRepeat(o) => MayRepeat(o)'
  PROVE  Repeatable(c)'
  BY DEF Forward, Repeatable, OrdersOf

\* The keys and the main thread past the check keep what they promise.
LEMMA NextKeysSafe == IInv /\ [Next]_vars => KeysSafe'
  <1> SUFFICES ASSUME IInv, [Next]_vars PROVE KeysSafe'
    OBVIOUS
  <1> USE DEF mainVars, trackerVars, world, history
  <1>0. /\ TypeOK /\ CurrentOk /\ ItemsHanded /\ OutcomeOk /\ KeysSafe /\ Forward
        /\ TypeOK' /\ CurrentOk'
    BY NextForward, NextTypeOK, NextCurrentOk DEF IInv
  <1>1. ASSUME Oids' # Oids PROVE KeysSafe'
    <2>1. PICK o \in Oids' : o \notin Oids
      BY <1>0, <1>1 DEF Forward
    <2>2. /\ Place \/ PlaceReplyLost \/ PlaceWithoutId
          /\ orders'[o].cid = slice /\ o = Len(orders')
      BY <2>1, NewOrder
    <2>3. PICK st : slice \in Cids /\ Accept(st) /\ st \in {"open", "filled", "canceled"}
      BY <2>2, <1>0 DEF Place, PlaceReplyLost, PlaceWithoutId, CurrentOk
    <2>4. \A p \in Oids' : p \in Oids \/ p = o
      <3>1. Len(orders') = Len(orders) + 1 /\ Len(orders) \in Nat
        BY <1>0, <2>3, AcceptFacts DEF TypeOK
      <3>2. QED
        BY <2>2, <3>1 DEF Oids
    <2>5. pc' # "place" /\ UNCHANGED <<reports, acked>>
      BY <2>2 DEF Place, PlaceReplyLost, PlaceWithoutId, NextSlice
    <2>a. \A p \in Oids : /\ p \in Oids' /\ orders'[p].cid = orders[p].cid
                          /\ MayRepeat(p) => MayRepeat(p)'
      BY <1>0, <2>5 DEF Forward, MayRepeat
    <2>6. ASSUME NEW c \in Cids, c = slice PROVE Repeatable(c)'
      <3>1. o \in OrdersOf(c)'
        BY <2>1, <2>2, <2>6 DEF OrdersOf
      <3>2. MayRepeat(o)'
        BY <1>0, <2>1, <2>5 DEF MayRepeat, TypeOK
      <3>3. QED
        BY <3>1, <3>2 DEF Repeatable
    <2>7. ASSUME NEW c \in Cids, c # slice, Repeatable(c) PROVE Repeatable(c)'
      <3>1. \A p \in OrdersOf(c)' : p \in OrdersOf(c)
        BY <2>2, <2>4, <2>7, <2>a DEF OrdersOf
      <3>2. \A p \in OrdersOf(c) : p \in OrdersOf(c)' /\ (MayRepeat(p) => MayRepeat(p)')
        BY <2>a DEF OrdersOf
      <3>3. QED
        BY <2>7, <3>1, <3>2 DEF Repeatable
    <2>8. \A c \in Cids : c # slice => dedup'[c] = dedup[c]
      BY <1>0, <2>2 DEF Place, PlaceReplyLost, PlaceWithoutId, TypeOK
    <2>9. QED
      BY <1>0, <2>5, <2>6, <2>7, <2>8 DEF KeysSafe
  <1>a. ASSUME Oids' = Oids, UNCHANGED <<dedup, acked>>, pc' # "place" \/ UNCHANGED <<pc, slice>>
        PROVE  KeysSafe'
    <2>1. \A o \in Oids : MayRepeat(o) => MayRepeat(o)'
      BY <1>0, <1>a DEF Forward, MayRepeat
    <2>2. \A c : Repeatable(c) => Repeatable(c)'
      BY <1>0, <1>a, <2>1, RepeatableStays
    <2>3. QED
      BY <1>0, <1>a, <2>2 DEF KeysSafe
  <1> SUFFICES ASSUME Oids' = Oids PROVE KeysSafe'
    BY <1>1
  <1>2. CASE Take \/ SkipSlice \/ LeaveLoop \/ NotPlaced \/ MarkDone \/ RetryOrDlq \/ Ack
             \/ Track \/ ReportSubmit \/ ReportUntracked \/ SubmitRaises \/ HandlerRaises
             \/ Crash
    BY <1>2, <1>a DEF Take, SkipSlice, LeaveLoop, NotPlaced, MarkDone, RetryOrDlq, Ack,
                Track, ReportSubmit, ReportUntracked, SubmitRaises, HandlerRaises, Crash,
                NextSlice, GoTo
  <1>3. CASE Scan \/ Timeout \/ NotPolled \/ PollOpen \/ PollTerminal \/ ReportOutcome
             \/ ReadDedup \/ EndScan \/ Remove \/ TrackerRaises \/ Exchange \/ Deadline
    BY <1>3, <1>a DEF Scan, Timeout, NotPolled, PollOpen, PollTerminal, ReportOutcome,
                ReadDedup, EndScan, Remove, TrackerRaises, Exchange, Deadline
  <1>4. CASE Place \/ PlaceReplyLost \/ PlaceWithoutId
    <2>1. slice \in Cids /\ \E st \in {"open", "filled", "canceled"} : Accept(st)
      BY <1>4, <1>0 DEF Place, PlaceReplyLost, PlaceWithoutId, CurrentOk
    <2>2. QED
      BY <1>0, <2>1, AcceptFacts
  <1>5. CASE Intend
    <2>1. /\ UNCHANGED <<dedup, acked, slice, orders, reports>>
          /\ dedup[slice].st \notin Submitted
          /\ slice \in Cids
      BY <1>5, <1>0 DEF Intend, GoTo, MayPlace, Cids, TypeOK
    <2>2. \A c : Repeatable(c) => Repeatable(c)'
      BY <2>1 DEF Repeatable, MayRepeat, OrdersOf, Oids
    <2>3. Repeatable(slice)'
      BY <1>0, <2>1 DEF KeysSafe, Repeatable, MayRepeat, OrdersOf, Oids
    <2>4. QED
      BY <1>0, <2>1, <2>2, <2>3 DEF KeysSafe
  <1>6. CASE WriteDedup
    <2>1. /\ UNCHANGED <<slice, cur, orders, reports>> /\ pc' = "report"
          /\ dedup' = [dedup EXCEPT ![slice] = cur]
          /\ acked' = IF cur.st \in Submitted THEN acked \cup {cur.oid} ELSE acked
      BY <1>6 DEF WriteDedup, GoTo
    <2>2. /\ slice \in Cids /\ cur.oid \in Oids /\ orders[cur.oid].cid = slice
          /\ cur.oid \notin acked
      BY <1>6, <1>0 DEF WriteDedup, CurrentOk
    <2>3. ASSUME NEW c \in Cids, c # slice, Repeatable(c) PROVE Repeatable(c)'
      BY <2>1, <2>2, <2>3 DEF Repeatable, MayRepeat, OrdersOf, Oids
    <2>4. ASSUME cur.st \notin Submitted, NEW c \in Cids, c = slice PROVE Repeatable(c)'
      BY <2>1, <2>2, <2>4 DEF Repeatable, MayRepeat, OrdersOf, Oids
    <2>5. \A c \in Cids : dedup'[c] = IF c = slice THEN cur ELSE dedup[c]
      BY <1>0, <2>1 DEF TypeOK
    <2>6. QED
      BY <1>0, <2>1, <2>3, <2>4, <2>5 DEF KeysSafe
  <1>7. CASE DedupUntracked
    <2>1. /\ UNCHANGED <<orders, reports, acked>> /\ pc' = "slice"
          /\ dedup' = [dedup EXCEPT ![slice] = [oid |-> cur.oid, st |-> "REJECTED"]]
      BY <1>7 DEF DedupUntracked, NextSlice
    <2>2. /\ slice \in Cids /\ cur.oid \in Oids /\ orders[cur.oid].cid = slice
          /\ "REJECTED" \in reports[cur.oid]
      BY <1>7, <1>0 DEF DedupUntracked, CurrentOk
    <2>3. ASSUME NEW c \in Cids, Repeatable(c) PROVE Repeatable(c)'
      BY <2>1, <2>3 DEF Repeatable, MayRepeat, OrdersOf, Oids
    <2>4. Repeatable(slice)
      BY <2>2 DEF Repeatable, MayRepeat, OrdersOf, Failed
    <2>5. \A c \in Cids : c # slice => dedup'[c] = dedup[c]
      BY <1>0, <2>1 DEF TypeOK
    <2>6. QED
      BY <1>0, <2>1, <2>3, <2>4, <2>5 DEF KeysSafe
  <1>8. CASE WriteOutcome
    <2>1. /\ order \in Oids /\ orders[order] \in Order /\ orders[order].cid \in Cids
          /\ order \in acked \/ reports[order] \cap Failed # {}
      BY <1>8, <1>0, OrderFacts DEF WriteOutcome, TypeOK, Handed, Order
    <2>2. /\ outcome \in Ends /\ outcome \in reports[order]
      BY <1>8, <1>0 DEF WriteOutcome, OutcomeOk
    <2>3. /\ UNCHANGED <<orders, reports, pc, slice>>
          /\ dedup' = [dedup EXCEPT ![orders[order].cid] = KeyToWrite]
          /\ acked' = IF outcome \in Submitted THEN acked \cup {order} ELSE acked
      BY <1>8 DEF WriteOutcome
    <2>4. \A o \in Oids : MayRepeat(o) => MayRepeat(o)'
      BY <2>1, <2>3 DEF MayRepeat
    <2>5. \A c : Repeatable(c) => Repeatable(c)'
      BY <1>0, <2>4, RepeatableStays
    <2>6. ASSUME KeyToWrite.st \notin Submitted PROVE Repeatable(orders[order].cid)
      <3>1. outcome \in Failed
        BY <2>2, <2>6 DEF KeyToWrite, Submitted, Failed, Ends
      <3>2. MayRepeat(order)
        BY <2>2, <3>1 DEF MayRepeat
      <3>3. QED
        BY <2>1, <3>2 DEF Repeatable, OrdersOf
    <2>7. \A c \in Cids : dedup'[c] = IF c = orders[order].cid THEN KeyToWrite ELSE dedup[c]
      BY <1>0, <2>3 DEF TypeOK
    <2>8. QED
      BY <1>0, <2>3, <2>5, <2>6, <2>7 DEF KeysSafe
  <1>9. CASE UNCHANGED vars
    BY <1>9, <1>a DEF vars
  <1>10. QED
    BY <1>2, <1>3, <1>4, <1>5, <1>6, <1>7, <1>8, <1>9 DEF Next, Main, Tracker

-----------------------------------------------------------------------------
(* The theorems *)

\* The invariant holds in every reachable state.
LEMMA Invariant == Spec => []IInv
  <1>1. IInv /\ [Next]_vars => IInv'
    BY NextTypeOK, NextCurrentOk, NextItemsHanded, NextOutcomeOk, NextKeysSafe,
       NextUnplacedUnreported, NextOpenOrdersWatched DEF IInv
  <1>2. QED
    BY <1>1, InitIInv, PTL DEF Spec

\* Every reachable state of the execution service's order handling is well
\* typed: both threads name orders the exchange has, the queue holds items
\* only, and the main thread never acknowledges a message it has not taken.
THEOREM TypeCorrect == Spec => []TypeOK
  BY Invariant, PTL DEF IInv

\* Whatever the tracker is about to report has been reported as submitted.
THEOREM SubmissionComesFirst == Spec => []SubmitReportedFirst
  <1>1. IInv => SubmitReportedFirst
    BY OrderFacts DEF IInv, TypeOK, ItemsHanded, Handed, SubmitReportedFirst, Tracked
  <1>2. QED
    BY <1>1, Invariant, PTL

\* No open order is lost between place_limit, the queue and the tracker.
THEOREM OpenOrdersAlwaysWatched == Spec => []OpenOrdersWatched
  BY Invariant, PTL DEF IInv

\* No redelivery, no race on the dedup key between the two threads and no
\* restart submits again what was acknowledged and has not failed.
THEOREM OnlyFailuresAreRepeated == Spec => ReplaceOnlyAfterFailure
  <1>1. ASSUME IInv, [Next]_vars, Placing, NEW c \in Cids,
               OrdersOf(c) # {}, orders'[Len(orders')].cid = c
        PROVE  \E o \in OrdersOf(c) : reports[o] \cap Failed # {} \/ o \notin acked
    <2>1. TypeOK /\ TypeOK' /\ KeysSafe
      BY <1>1, NextTypeOK DEF IInv
    <2>2. Len(orders') \in Oids' /\ Len(orders') \notin Oids
      BY <1>1, <2>1 DEF Placing, Oids, TypeOK
    <2>3. (Place \/ PlaceReplyLost \/ PlaceWithoutId) /\ slice = c
      BY <1>1, <2>2, NewOrder
    <2>4. Repeatable(c)
      BY <2>1, <2>3 DEF KeysSafe, Place, PlaceReplyLost, PlaceWithoutId
    <2>5. QED
      BY <1>1, <2>4 DEF Repeatable, MayRepeat
  <1>2. IInv /\ [Next]_vars =>
          [Placing => \A c \in Cids :
             (OrdersOf(c) # {} /\ orders'[Len(orders')].cid = c) =>
               \E o \in OrdersOf(c) : reports[o] \cap Failed # {} \/ o \notin acked]_vars
    BY <1>1
  <1>3. QED
    BY <1>2, Invariant, PTL DEF Spec, ReplaceOnlyAfterFailure

=============================================================================
