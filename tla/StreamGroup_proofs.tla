------------------------ MODULE StreamGroup_proofs ------------------------
(***************************************************************************)
(* Theorems about the bus, for every set of messages and every bound: its  *)
(* types, that no message is lost, that dead letters have used up their    *)
(* retries, and that every step is a step of the delivery contract.        *)
(***************************************************************************)
EXTENDS StreamGroup, FiniteSetTheorems, TLAPS

\* The entry being acknowledged is no longer needed: its message is settled
\* or has just been added again behind the group's cursor.
AckSafe ==
  pc = "ack" =>
    \A i \in batch : IsCurrent(i) =>
      \/ log[i].msg \in Settled
      \/ \E k \in DOMAIN log : k > delivered /\ log[k].msg = log[i].msg

\* The retry count an entry carries is paid for by failed runs.
RetriesPaid ==
  /\ \A i \in DOMAIN log : log[i].rc <= failed[log[i].msg]
  /\ pc = "requeue" =>
       \A i \in batch : IsCurrent(i) => log[i].rc + 1 <= failed[log[i].msg]

\* The inductive invariant.
IInv == TypeOK /\ AckSafe /\ NoLoss /\ RetriesPaid /\ DeadLetterAfterRetries

\* XADD, repeated or not, keeps every entry and appends copies of e only.
LEMMA XaddFacts ==
  ASSUME TypeOK, NEW e \in Entry, Xadd(e)
  PROVE  /\ log' \in Seq(Entry)
         /\ Len(log) + 1 \in DOMAIN log'
         /\ Len(log') >= Len(log)
         /\ \A i \in DOMAIN log : i \in DOMAIN log' /\ log'[i] = log[i]
         /\ \A i \in DOMAIN log' : i \notin DOMAIN log => log'[i] = e
         /\ dups' \in Nat
         /\ crashes + dups' + lost + late <= MaxFaults
  <1> USE DEF TypeOK
  <1>1. CASE log' = Append(log, e) /\ UNCHANGED dups
    BY <1>1
  <1>2. CASE MayFault /\ log' = Append(Append(log, e), e) /\ dups' = dups + 1
    <2>1. Append(log, e) \in Seq(Entry)
      OBVIOUS
    <2>2. QED
      BY <1>2, <2>1, BusAssumption DEF MayFault, BusAssumption
  <1>3. QED
    BY <1>1, <1>2 DEF Xadd

\* The messages in the log after XADD.
LEMMA XaddPublished ==
  ASSUME TypeOK, NEW e \in Entry, Xadd(e)
  PROVE  Published' = Published \cup {e.msg}
  <1>1. /\ Len(log) + 1 \in DOMAIN log'
        /\ \A i \in DOMAIN log : i \in DOMAIN log' /\ log'[i] = log[i]
        /\ \A i \in DOMAIN log' : i \notin DOMAIN log => log'[i] = e
    BY XaddFacts
  <1>2. Len(log) + 1 \notin DOMAIN log
    BY DEF TypeOK
  <1>3. QED
    BY <1>1, <1>2 DEF Published

\* What a pending id names.
LEMMA PendingEntry ==
  ASSUME TypeOK, NEW i \in pel
  PROVE  /\ i \in DOMAIN log /\ i \in Nat /\ i <= delivered
         /\ log[i] \in Entry
         /\ log[i].msg \in Msgs
         /\ log[i].rc \in 0 .. MaxRetries
  <1>1. i \in DOMAIN log /\ i \in Nat /\ i <= delivered
    BY DEF TypeOK
  <1>2. log[i] \in Entry
    BY <1>1 DEF TypeOK
  <1>3. QED
    BY <1>1, <1>2 DEF Entry

\* What the rest of the handler does once the entry has its outcome.
LEMMA FinishFacts ==
  ASSUME TypeOK, NEW i \in batch, Finish(i)
  PROVE  /\ UNCHANGED <<log, delivered, pel, idle, batch, exhausted, crashes, dups, lost>>
         /\ pc' \in {"ack", "requeue"}
         /\ failed' \in [Msgs -> Nat]
         /\ pc' = "ack" => UNCHANGED failed
         /\ pc' = "requeue" => failed' = [failed EXCEPT ![log[i].msg] = @ + 1]
         /\ late' \in Nat
         /\ crashes' + dups' + lost' + late' <= MaxFaults
  <1>1. log[i].msg \in Msgs
    BY PendingEntry DEF TypeOK
  <1>2. failed' \in [Msgs -> Nat]
    BY <1>1 DEF Finish, TypeOK
  <1>3. late' \in Nat /\ crashes + dups + lost + late' <= MaxFaults
    BY BusAssumption DEF Finish, MayFault, TypeOK, BusAssumption
  <1>4. QED
    BY <1>2, <1>3 DEF Finish

\* retry_or_dlq either dead-letters the message or adds it again with a higher
\* retry count.
LEMMA RetryCases ==
  ASSUME TypeOK, NEW i \in batch, RetryOrDlq(i)
  PROVE  \/ /\ log[i].rc + 1 > MaxRetries
            /\ exhausted' = exhausted \cup {log[i].msg}
            /\ UNCHANGED <<log, dups>>
         \/ /\ log[i].rc + 1 <= MaxRetries
            /\ Xadd([msg |-> log[i].msg, rc |-> log[i].rc + 1])
            /\ UNCHANGED exhausted
  <1>1. log[i].rc \in 0 .. MaxRetries /\ MaxRetries \in Nat
    BY PendingEntry, BusAssumption DEF TypeOK, BusAssumption
  <1>2. QED
    BY <1>1 DEF RetryOrDlq, GivesUp

-----------------------------------------------------------------------------
(* Type correctness *)

\* The initial state is well typed.
LEMMA InitTypeOK == Init => TypeOK
  BY BusAssumption DEF Init, TypeOK, BusAssumption

\* Every step keeps the types, those of the copies XADD appends included.
LEMMA NextTypeOK == TypeOK /\ [Next]_vars => TypeOK'
  <1> SUFFICES ASSUME TypeOK, [Next]_vars PROVE TypeOK'
    OBVIOUS
  <1>0. delivered \in Nat /\ Len(log) \in Nat /\ MaxFaults \in Nat
    BY BusAssumption DEF TypeOK, BusAssumption
  <1>1. ASSUME NEW m \in Msgs, Publish(m) PROVE TypeOK'
    <2>1. [msg |-> m, rc |-> 0] \in Entry
      BY BusAssumption DEF Entry, BusAssumption
    <2>2. Xadd([msg |-> m, rc |-> 0])
      BY <1>1 DEF Publish
    <2>3. /\ log' \in Seq(Entry)
          /\ Len(log') >= Len(log)
          /\ dups' \in Nat
          /\ crashes + dups' + lost + late <= MaxFaults
      BY <2>1, <2>2, XaddFacts
    <2>4. delivered' \in 0 .. Len(log')
      BY <1>1, <2>3, <1>0 DEF Publish, TypeOK
    <2>5. QED
      BY <1>1, <2>3, <2>4 DEF Publish, effects, TypeOK
  <1>2. CASE Reclaim
    <2>1. PICK ids \in SUBSET idle : Receive(ids) /\ idle' = idle \ ids
      BY <1>2 DEF Reclaim
    <2>2. batch' \subseteq pel' /\ pc' \in {"read", "handle", "requeue", "ack"}
      BY <1>2, <2>1 DEF Reclaim, Receive, TypeOK
    <2>3. lost' \in Nat /\ crashes' + dups' + lost' + late <= MaxFaults
      BY <1>2, <2>1, <1>0 DEF Reclaim, Receive, MayFault, TypeOK
    <2>4. QED
      BY <1>2, <2>1, <2>2, <2>3 DEF Reclaim, effects, TypeOK
  <1>3. CASE ReadNew
    <2>1. PICK last \in delivered + 1 .. Len(log) :
            /\ Receive(delivered + 1 .. last)
            /\ pel' = pel \cup (delivered + 1 .. last)
            /\ delivered' = last
      BY <1>3 DEF ReadNew
    <2>2. pel' \subseteq 1 .. delivered' /\ delivered' \in 0 .. Len(log')
      BY <1>3, <2>1, <1>0 DEF ReadNew, TypeOK
    <2>3. batch' \subseteq pel' /\ pc' \in {"read", "handle", "requeue", "ack"}
      BY <2>1 DEF Receive, TypeOK
    <2>4. lost' \in Nat /\ crashes' + dups' + lost' + late <= MaxFaults
      BY <1>3, <2>1, <1>0 DEF ReadNew, Receive, MayFault, TypeOK
    <2>5. QED
      BY <1>3, <2>1, <2>2, <2>3, <2>4 DEF ReadNew, effects, TypeOK
  <1>4. ASSUME NEW i \in batch, HandleOk(i) PROVE TypeOK'
    <2>1. log[i].msg \in Msgs
      BY PendingEntry DEF TypeOK
    <2>2. handled' \in [Msgs -> Nat]
      BY <1>4, <2>1 DEF HandleOk, TypeOK
    <2>3. Finish(i) /\ UNCHANGED rejected
      BY <1>4 DEF HandleOk
    <2>4. QED
      BY <2>2, <2>3, FinishFacts DEF TypeOK
  <1>5. ASSUME NEW i \in batch, HandleMalformed(i) PROVE TypeOK'
    <2>1. log[i].msg \in Msgs
      BY PendingEntry DEF TypeOK
    <2>2. Finish(i) /\ UNCHANGED handled /\ rejected' = rejected \cup {log[i].msg}
      BY <1>5 DEF HandleMalformed
    <2>3. QED
      BY <2>1, <2>2, FinishFacts DEF TypeOK
  <1>6. ASSUME NEW i \in batch, HandleFails(i) PROVE TypeOK'
    <2>1. log[i].msg \in Msgs
      BY PendingEntry DEF TypeOK
    <2>2. failed' \in [Msgs -> Nat]
      BY <1>6, <2>1 DEF HandleFails, TypeOK
    <2>3. QED
      BY <1>6, <2>2 DEF HandleFails, faults, TypeOK
  <1>7. ASSUME NEW i \in batch, RetryOrDlq(i) PROVE TypeOK'
    <2>1. log[i].msg \in Msgs /\ log[i].rc \in 0 .. MaxRetries
      BY PendingEntry DEF TypeOK
    <2>2. CASE exhausted' = exhausted \cup {log[i].msg} /\ UNCHANGED <<log, dups>>
      BY <1>7, <2>1, <2>2 DEF RetryOrDlq, TypeOK
    <2>3. CASE /\ log[i].rc + 1 <= MaxRetries
               /\ Xadd([msg |-> log[i].msg, rc |-> log[i].rc + 1])
               /\ UNCHANGED exhausted
      <3>1. [msg |-> log[i].msg, rc |-> log[i].rc + 1] \in Entry
        BY <2>1, <2>3, BusAssumption DEF Entry, BusAssumption
      <3>2. /\ log' \in Seq(Entry)
            /\ Len(log') >= Len(log)
            /\ dups' \in Nat
            /\ crashes + dups' + lost + late <= MaxFaults
        BY <2>3, <3>1, XaddFacts
      <3>3. delivered' \in 0 .. Len(log')
        BY <1>7, <3>2, <1>0 DEF RetryOrDlq, TypeOK
      <3>4. QED
        BY <1>7, <2>3, <3>2, <3>3 DEF RetryOrDlq, TypeOK
    <2>4. QED
      BY <1>7, <2>2, <2>3, RetryCases
  <1>8. ASSUME NEW i \in batch, Ack(i) PROVE TypeOK'
    BY <1>8 DEF Ack, effects, TypeOK
  <1>9. CASE Crash
    BY <1>9, <1>0 DEF Crash, MayFault, effects, TypeOK
  <1>10. ASSUME NEW i \in pel, Age(i) PROVE TypeOK'
    BY <1>10 DEF Age, effects, faults, TypeOK
  <1>11. CASE UNCHANGED vars
    BY <1>11 DEF vars, TypeOK
  <1>12. QED
    BY <1>1, <1>2, <1>3, <1>4, <1>5, <1>6, <1>7, <1>8, <1>9, <1>10, <1>11
       DEF Next, Consume, Handle

\* Every reachable state of the bus is well typed: the pending list holds
\* delivered ids only and the consumer's batch pending ids only.
THEOREM TypeCorrect == Spec => []TypeOK
  BY InitTypeOK, NextTypeOK, PTL DEF Spec

-----------------------------------------------------------------------------
(* No message is lost *)

\* The invariant holds before anything is published.
LEMMA InitIInv == Init => IInv
  <1> SUFFICES ASSUME Init PROVE IInv
    OBVIOUS
  <1>1. TypeOK
    BY InitTypeOK
  <1>2. DOMAIN log = {}
    BY DEF Init
  <1>3. QED
    BY <1>1, <1>2
       DEF Init, IInv, AckSafe, NoLoss, RetriesPaid, DeadLetterAfterRetries, Published

\* A step that leaves the log, the cursor and the pending list alone and
\* settles no fewer messages loses none.
LEMMA NoLossKept ==
  ASSUME TypeOK, NoLoss, UNCHANGED <<log, delivered, pel>>, Settled \subseteq Settled'
  PROVE  NoLoss'
  BY DEF NoLoss, Published, Outstanding

\* Appending behind the cursor loses nothing.
LEMMA NoLossXadd ==
  ASSUME TypeOK, NoLoss, NEW e \in Entry, Xadd(e),
         UNCHANGED <<delivered, pel>>, Settled \subseteq Settled'
  PROVE  NoLoss'
  <1>1. /\ log' \in Seq(Entry)
        /\ Len(log) + 1 \in DOMAIN log'
        /\ \A i \in DOMAIN log : i \in DOMAIN log' /\ log'[i] = log[i]
        /\ \A i \in DOMAIN log' : i \notin DOMAIN log => log'[i] = e
    BY XaddFacts
  <1>2. Len(log) + 1 > delivered' /\ Len(log) + 1 \notin DOMAIN log
    BY DEF TypeOK
  <1>3. SUFFICES ASSUME NEW m \in Published', m \notin Settled'
                 PROVE  \E i \in DOMAIN log' : log'[i].msg = m /\ Outstanding(i)'
    BY DEF NoLoss
  <1>4. CASE m \in Published
    BY <1>1, <1>3, <1>4 DEF NoLoss, Outstanding
  <1>5. CASE m = e.msg
    BY <1>1, <1>2, <1>5 DEF Outstanding
  <1>6. QED
    BY <1>4, <1>5, XaddPublished

\* No step removes the last trace of a message that is not settled: the
\* acknowledgement is the step to look at, and AckSafe is what it needs.
LEMMA NextNoLoss == TypeOK /\ AckSafe /\ NoLoss /\ [Next]_vars => NoLoss'
  <1> SUFFICES ASSUME TypeOK, AckSafe, NoLoss, [Next]_vars PROVE NoLoss'
    OBVIOUS
  <1>1. ASSUME NEW m \in Msgs, Publish(m) PROVE NoLoss'
    <2>1. [msg |-> m, rc |-> 0] \in Entry
      BY BusAssumption DEF Entry, BusAssumption
    <2>2. /\ Xadd([msg |-> m, rc |-> 0])
          /\ UNCHANGED <<delivered, pel>>
          /\ Settled \subseteq Settled'
      BY <1>1 DEF Publish, Settled, effects
    <2>3. QED
      BY <2>1, <2>2, NoLossXadd
  <1>2. CASE Reclaim
    BY <1>2, NoLossKept DEF Reclaim, effects, Settled
  <1>3. CASE ReadNew
    <2>1. PICK last \in delivered + 1 .. Len(log) :
            /\ pel' = pel \cup (delivered + 1 .. last)
            /\ delivered' = last
      BY <1>3 DEF ReadNew
    <2>2. \A i \in DOMAIN log : Outstanding(i) => Outstanding(i)'
      BY <2>1 DEF Outstanding, TypeOK
    <2>3. QED
      BY <1>3, <2>2 DEF ReadNew, effects, NoLoss, Published, Settled
  <1>4. ASSUME NEW i \in batch, HandleOk(i) PROVE NoLoss'
    <2>1. log[i].msg \in Msgs
      BY PendingEntry DEF TypeOK
    <2>2. Settled \subseteq Settled'
      BY <1>4, <2>1 DEF HandleOk, Finish, Settled, TypeOK
    <2>3. QED
      BY <1>4, <2>2, NoLossKept DEF HandleOk, Finish
  <1>5. ASSUME NEW i \in batch, HandleMalformed(i) PROVE NoLoss'
    BY <1>5, NoLossKept DEF HandleMalformed, Finish, Settled
  <1>6. ASSUME NEW i \in batch, HandleFails(i) PROVE NoLoss'
    BY <1>6, NoLossKept DEF HandleFails, Settled
  <1>7. ASSUME NEW i \in batch, RetryOrDlq(i) PROVE NoLoss'
    <2>1. log[i].msg \in Msgs /\ log[i].rc \in 0 .. MaxRetries
      BY PendingEntry DEF TypeOK
    <2>2. CASE exhausted' = exhausted \cup {log[i].msg} /\ UNCHANGED <<log, dups>>
      BY <1>7, <2>2, NoLossKept DEF RetryOrDlq, Settled
    <2>3. CASE /\ log[i].rc + 1 <= MaxRetries
               /\ Xadd([msg |-> log[i].msg, rc |-> log[i].rc + 1])
               /\ UNCHANGED exhausted
      <3>1. [msg |-> log[i].msg, rc |-> log[i].rc + 1] \in Entry
        BY <2>1, <2>3, BusAssumption DEF Entry, BusAssumption
      <3>2. UNCHANGED <<delivered, pel>> /\ Settled \subseteq Settled'
        BY <1>7, <2>3 DEF RetryOrDlq, Settled
      <3>3. QED
        BY <2>3, <3>1, <3>2, NoLossXadd
    <2>4. QED
      BY <1>7, <2>2, <2>3, RetryCases
  <1>8. ASSUME NEW i \in batch, Ack(i) PROVE NoLoss'
    <2>1. /\ IsCurrent(i) /\ pc = "ack"
          /\ pel' = pel \ {i}
          /\ UNCHANGED <<log, delivered, handled, rejected, exhausted>>
      BY <1>8 DEF Ack, effects
    <2>2. UNCHANGED <<Published, Settled>>
      BY <2>1 DEF Published, Settled
    <2>3. SUFFICES ASSUME NEW m \in Published, m \notin Settled
                   PROVE  \E k \in DOMAIN log : log[k].msg = m /\ Outstanding(k)'
      BY <2>1, <2>2 DEF NoLoss
    <2>4. CASE log[i].msg = m
      BY <2>1, <2>3, <2>4 DEF AckSafe, Outstanding
    <2>5. CASE log[i].msg # m
      BY <2>1, <2>3, <2>5 DEF NoLoss, Outstanding
    <2>6. QED
      BY <2>4, <2>5
  <1>9. CASE Crash
    BY <1>9, NoLossKept DEF Crash, effects, Settled
  <1>10. ASSUME NEW i \in pel, Age(i) PROVE NoLoss'
    BY <1>10, NoLossKept DEF Age, effects, Settled
  <1>11. CASE UNCHANGED vars
    BY <1>11, NoLossKept DEF vars, Settled
  <1>12. QED
    BY <1>1, <1>2, <1>3, <1>4, <1>5, <1>6, <1>7, <1>8, <1>9, <1>10, <1>11
       DEF Next, Consume, Handle

\* What the acknowledgement relies on: only the handler's outcomes and
\* retry_or_dlq reach it, and each leaves the message settled or added again.
LEMMA NextAckSafe == TypeOK /\ AckSafe /\ [Next]_vars => AckSafe'
  <1> DEFINE Safe(i) ==
        \/ log[i].msg \in Settled
        \/ \E k \in DOMAIN log : k > delivered /\ log[k].msg = log[i].msg
  <1> SUFFICES ASSUME TypeOK, AckSafe, [Next]_vars, pc' = "ack",
                      NEW j \in batch', IsCurrent(j)'
               PROVE  Safe(j)'
    BY DEF AckSafe
  <1>0. ASSUME UNCHANGED <<log, delivered, pc, batch>>, Settled \subseteq Settled'
        PROVE  Safe(j)'
    BY <1>0 DEF AckSafe, IsCurrent
  <1>1. ASSUME NEW m \in Msgs, Publish(m) PROVE Safe(j)'
    <2>1. [msg |-> m, rc |-> 0] \in Entry
      BY BusAssumption DEF Entry, BusAssumption
    <2>2. /\ Xadd([msg |-> m, rc |-> 0])
          /\ UNCHANGED <<pc, batch, delivered>>
          /\ Settled' = Settled
      BY <1>1 DEF Publish, Settled, effects
    <2>3. /\ j \in batch /\ IsCurrent(j) /\ pc = "ack"
          /\ j \in DOMAIN log
      BY <2>2, PendingEntry DEF IsCurrent, TypeOK
    <2>4. \A k \in DOMAIN log : k \in DOMAIN log' /\ log'[k] = log[k]
      BY <2>1, <2>2, XaddFacts
    <2>5. Safe(j)
      BY <2>3 DEF AckSafe
    <2>6. QED
      BY <2>2, <2>3, <2>4, <2>5
  <1>2. CASE Reclaim
    BY <1>2 DEF Reclaim, Receive
  <1>3. CASE ReadNew
    BY <1>3 DEF ReadNew, Receive
  <1>4. ASSUME NEW i \in batch, HandleOk(i) PROVE Safe(j)'
    <2>1. log[i].msg \in Msgs /\ i \in Nat /\ j \in Nat
      BY <1>4, PendingEntry DEF TypeOK, HandleOk, Finish
    <2>2. i = j /\ UNCHANGED log
      BY <1>4, <2>1 DEF HandleOk, Finish, IsCurrent
    <2>3. handled'[log[i].msg] > 0
      BY <1>4, <2>1 DEF HandleOk, TypeOK
    <2>4. QED
      BY <2>1, <2>2, <2>3 DEF Settled
  <1>5. ASSUME NEW i \in batch, HandleMalformed(i) PROVE Safe(j)'
    <2>1. i \in Nat /\ j \in Nat
      BY <1>5, PendingEntry DEF TypeOK, HandleMalformed, Finish
    <2>2. i = j /\ UNCHANGED log /\ log[i].msg \in rejected'
      BY <1>5, <2>1 DEF HandleMalformed, Finish, IsCurrent
    <2>3. QED
      BY <2>2 DEF Settled
  <1>6. ASSUME NEW i \in batch, HandleFails(i) PROVE Safe(j)'
    BY <1>6 DEF HandleFails
  <1>7. ASSUME NEW i \in batch, RetryOrDlq(i) PROVE Safe(j)'
    <2>1. /\ log[i].msg \in Msgs /\ log[i].rc \in 0 .. MaxRetries
          /\ i \in DOMAIN log /\ i \in Nat /\ j \in Nat
      BY <1>7, PendingEntry DEF TypeOK, RetryOrDlq
    <2>2. i = j /\ UNCHANGED <<delivered, batch>>
      BY <1>7, <2>1 DEF RetryOrDlq, IsCurrent
    <2>3. CASE exhausted' = exhausted \cup {log[i].msg} /\ UNCHANGED <<log, dups>>
      BY <2>2, <2>3 DEF Settled
    <2>4. CASE /\ log[i].rc + 1 <= MaxRetries
               /\ Xadd([msg |-> log[i].msg, rc |-> log[i].rc + 1])
               /\ UNCHANGED exhausted
      <3>1. [msg |-> log[i].msg, rc |-> log[i].rc + 1] \in Entry
        BY <2>1, <2>4, BusAssumption DEF Entry, BusAssumption
      <3>2. /\ Len(log) + 1 \in DOMAIN log'
            /\ log'[Len(log) + 1].msg = log[i].msg
            /\ log'[i] = log[i]
        <4>1. Len(log) + 1 \notin DOMAIN log
          BY DEF TypeOK
        <4>2. QED
          BY <2>1, <2>4, <3>1, <4>1, XaddFacts
      <3>3. Len(log) + 1 > delivered'
        BY <2>2 DEF TypeOK
      <3>4. QED
        BY <2>2, <3>2, <3>3
    <2>5. QED
      BY <1>7, <2>3, <2>4, RetryCases
  <1>8. ASSUME NEW i \in batch, Ack(i) PROVE Safe(j)'
    BY <1>8 DEF Ack
  <1>9. CASE Crash
    BY <1>9 DEF Crash
  <1>10. ASSUME NEW i \in pel, Age(i) PROVE Safe(j)'
    BY <1>10, <1>0 DEF Age, effects, Settled
  <1>11. CASE UNCHANGED vars
    BY <1>11, <1>0 DEF vars, Settled
  <1>12. QED
    BY <1>1, <1>2, <1>3, <1>4, <1>5, <1>6, <1>7, <1>8, <1>9, <1>10, <1>11
       DEF Next, Consume, Handle

\* Every message and every bound: published messages are settled or will be
\* read again, whatever crashes, lost replies and failures come in between.
THEOREM NeverLost == Spec => []NoLoss
  <1>1. Init => TypeOK /\ AckSafe /\ NoLoss
    BY InitIInv DEF IInv
  <1>2. TypeOK /\ AckSafe /\ NoLoss /\ [Next]_vars => (TypeOK /\ AckSafe /\ NoLoss)'
    BY NextTypeOK, NextAckSafe, NextNoLoss
  <1>3. QED
    BY <1>1, <1>2, PTL DEF Spec

-----------------------------------------------------------------------------
(* Dead letters *)

RetryInv == TypeOK /\ RetriesPaid /\ DeadLetterAfterRetries

\* A run of the current entry's handler that raised, and was counted, pays for
\* one more retry.
LEMMA RunCounted ==
  ASSUME TypeOK, RetriesPaid, DeadLetterAfterRetries, NEW i \in batch,
         IsCurrent(i), UNCHANGED <<log, batch, exhausted>>,
         failed' = [failed EXCEPT ![log[i].msg] = @ + 1]
  PROVE  RetriesPaid' /\ DeadLetterAfterRetries'
  <1>1. /\ i \in DOMAIN log /\ log[i].msg \in Msgs /\ log[i].rc \in Nat
        /\ \A k \in batch : k \in Nat
    <2>1. batch \subseteq pel /\ pel \subseteq 1 .. delivered /\ delivered \in Nat
      BY DEF TypeOK
    <2>2. i \in pel
      BY <2>1
    <2>3. i \in DOMAIN log /\ log[i].msg \in Msgs
      BY <2>2, PendingEntry
    <2>4. log[i].rc \in Nat
      BY <2>2, PendingEntry
    <2>5. \A k \in batch : k \in Nat
      BY <2>1
    <2>6. QED
      BY <2>3, <2>4, <2>5
  <1>2. /\ failed'[log[i].msg] = failed[log[i].msg] + 1
        /\ \A m \in Msgs : failed[m] \in Nat /\ failed'[m] \in Nat
        /\ \A m \in Msgs : failed'[m] >= failed[m]
    <2>1. failed \in [Msgs -> Nat] /\ log[i].msg \in Msgs
      BY <1>1 DEF TypeOK
    <2>2. failed'[log[i].msg] = failed[log[i].msg] + 1
      BY <2>1
    <2>3. \A m \in Msgs : m # log[i].msg => failed'[m] = failed[m]
      BY <2>1
    <2>4. QED
      BY <2>1, <2>2, <2>3
  <1>3. \A k \in DOMAIN log : log[k].msg \in Msgs /\ log[k].rc \in Nat
    <2>1. \A k \in DOMAIN log : log[k] \in Entry
      BY DEF TypeOK
    <2>2. QED
      BY <2>1 DEF Entry
  <1>4. \A k \in DOMAIN log : log[k].rc <= failed'[log[k].msg]
    BY <1>2, <1>3 DEF RetriesPaid
  <1>5. \A k \in batch : IsCurrent(k) => k = i
    BY <1>1 DEF IsCurrent
  <1>6. log[i].rc + 1 <= failed'[log[i].msg]
    BY <1>1, <1>2 DEF RetriesPaid
  <1>7. RetriesPaid'
    BY <1>4, <1>5, <1>6 DEF RetriesPaid, IsCurrent
  <1>8. DeadLetterAfterRetries'
    BY <1>2, BusAssumption DEF DeadLetterAfterRetries, TypeOK, BusAssumption
  <1>9. QED
    BY <1>7, <1>8

\* A retry count is raised only after a failed run has been counted.
LEMMA NextRetryInv == RetryInv /\ [Next]_vars => RetryInv'
  <1> SUFFICES ASSUME TypeOK, RetriesPaid, DeadLetterAfterRetries, [Next]_vars
               PROVE  RetriesPaid' /\ DeadLetterAfterRetries'
    BY NextTypeOK DEF RetryInv
  <1>0. ASSUME UNCHANGED <<log, failed, exhausted>>, pc' # "requeue"
        PROVE  RetriesPaid' /\ DeadLetterAfterRetries'
    BY <1>0 DEF RetriesPaid, DeadLetterAfterRetries
  <1>1. ASSUME NEW m \in Msgs, Publish(m)
        PROVE  RetriesPaid' /\ DeadLetterAfterRetries'
    <2>1. [msg |-> m, rc |-> 0] \in Entry
      BY BusAssumption DEF Entry, BusAssumption
    <2>2. /\ Xadd([msg |-> m, rc |-> 0])
          /\ UNCHANGED <<pc, batch, pel, failed, exhausted>>
      BY <1>1 DEF Publish, effects
    <2>3. /\ \A k \in DOMAIN log : k \in DOMAIN log' /\ log'[k] = log[k]
          /\ \A k \in DOMAIN log' : k \notin DOMAIN log => log'[k] = [msg |-> m, rc |-> 0]
      BY <2>1, <2>2, XaddFacts
    <2>4. failed[m] \in Nat
      BY DEF TypeOK
    <2>5. \A k \in DOMAIN log' : log'[k].rc <= failed'[log'[k].msg]
      BY <2>2, <2>3, <2>4 DEF RetriesPaid
    <2>6. \A k \in batch : k \in DOMAIN log
      BY PendingEntry DEF TypeOK
    <2>7. QED
      BY <2>2, <2>3, <2>5, <2>6 DEF RetriesPaid, DeadLetterAfterRetries, IsCurrent
  <1>2. CASE Reclaim
    BY <1>2, <1>0 DEF Reclaim, Receive, effects
  <1>3. CASE ReadNew
    BY <1>3, <1>0 DEF ReadNew, Receive, effects
  <1>4. ASSUME NEW i \in batch, HandleOk(i)
        PROVE  RetriesPaid' /\ DeadLetterAfterRetries'
    <2>1. Finish(i) /\ IsCurrent(i)
      BY <1>4 DEF HandleOk
    <2>2. QED
      BY <2>1, <1>0, FinishFacts, RunCounted
  <1>5. ASSUME NEW i \in batch, HandleMalformed(i)
        PROVE  RetriesPaid' /\ DeadLetterAfterRetries'
    <2>1. Finish(i) /\ IsCurrent(i)
      BY <1>5 DEF HandleMalformed
    <2>2. QED
      BY <2>1, <1>0, FinishFacts, RunCounted
  <1>6. ASSUME NEW i \in batch, HandleFails(i)
        PROVE  RetriesPaid' /\ DeadLetterAfterRetries'
    BY <1>6, RunCounted DEF HandleFails
  <1>7. ASSUME NEW i \in batch, RetryOrDlq(i)
        PROVE  RetriesPaid' /\ DeadLetterAfterRetries'
    <2>1. log[i].msg \in Msgs /\ log[i].rc \in 0 .. MaxRetries /\ i \in DOMAIN log
      BY PendingEntry DEF TypeOK
    <2>2. failed[log[i].msg] \in Nat /\ log[i].rc + 1 <= failed[log[i].msg]
      BY <1>7, <2>1 DEF RetryOrDlq, RetriesPaid, TypeOK
    <2>3. CASE /\ log[i].rc + 1 > MaxRetries
               /\ exhausted' = exhausted \cup {log[i].msg}
               /\ UNCHANGED <<log, dups>>
      BY <1>7, <2>1, <2>2, <2>3, BusAssumption
         DEF RetryOrDlq, RetriesPaid, DeadLetterAfterRetries, BusAssumption
    <2>4. CASE /\ log[i].rc + 1 <= MaxRetries
               /\ Xadd([msg |-> log[i].msg, rc |-> log[i].rc + 1])
               /\ UNCHANGED exhausted
      <3>1. [msg |-> log[i].msg, rc |-> log[i].rc + 1] \in Entry
        BY <2>1, <2>4, BusAssumption DEF Entry, BusAssumption
      <3>2. /\ \A k \in DOMAIN log : k \in DOMAIN log' /\ log'[k] = log[k]
            /\ \A k \in DOMAIN log' : k \notin DOMAIN log =>
                 log'[k] = [msg |-> log[i].msg, rc |-> log[i].rc + 1]
        BY <2>4, <3>1, XaddFacts
      <3>3. pc' = "ack" /\ UNCHANGED <<failed, exhausted>>
        BY <1>7, <2>4 DEF RetryOrDlq
      <3>4. QED
        BY <2>2, <3>2, <3>3 DEF RetriesPaid, DeadLetterAfterRetries
    <2>5. QED
      BY <1>7, <2>3, <2>4, RetryCases
  <1>8. ASSUME NEW i \in batch, Ack(i)
        PROVE  RetriesPaid' /\ DeadLetterAfterRetries'
    BY <1>8, <1>0 DEF Ack, effects
  <1>9. CASE Crash
    BY <1>9, <1>0 DEF Crash, effects
  <1>10. ASSUME NEW i \in pel, Age(i)
         PROVE  RetriesPaid' /\ DeadLetterAfterRetries'
    BY <1>10 DEF Age, effects, RetriesPaid, DeadLetterAfterRetries, IsCurrent
  <1>11. CASE UNCHANGED vars
    BY <1>11 DEF vars, RetriesPaid, DeadLetterAfterRetries, IsCurrent
  <1>12. QED
    BY <1>1, <1>2, <1>3, <1>4, <1>5, <1>6, <1>7, <1>8, <1>9, <1>10, <1>11
       DEF Next, Consume, Handle

\* Every message retry_or_dlq gives up on has failed max_retries + 1 times.
THEOREM DeadLettersPaid == Spec => []DeadLetterAfterRetries
  <1>1. Init => RetryInv
    BY InitIInv DEF IInv, RetryInv
  <1>2. RetryInv => DeadLetterAfterRetries
    BY DEF RetryInv
  <1>3. QED
    BY <1>1, <1>2, NextRetryInv, PTL DEF Spec

-----------------------------------------------------------------------------
(* A handler's output repeats only by faults *)

\* The entry that XACK is about to remove
Leaving(i) == pc = "ack" /\ IsCurrent(i)

\* The entries of m that can still give its handler a run.
Live(m) == {i \in DOMAIN log : log[i].msg = m /\ Outstanding(i) /\ ~Leaving(i)}

\* Runs a message may have: one, and one for each fault that repeats it.
Budget == 1 + crashes + dups + late

\* Runs made and runs still possible are within the budget.
RunsPaid ==
  \A m \in Msgs : IF m \in Published
                  THEN handled[m] + Cardinality(Live(m)) <= Budget
                  ELSE handled[m] = 0

\* There are finitely many of them.
FiniteLive == \A m \in Msgs : IsFiniteSet(Live(m)) /\ Cardinality(Live(m)) \in Nat

\* A well-typed log has finitely many entries, so a message has finitely many
\* live ones.
LEMMA LiveFinite == TypeOK => FiniteLive
  <1> SUFFICES ASSUME TypeOK, NEW m \in Msgs
               PROVE  IsFiniteSet(Live(m)) /\ Cardinality(Live(m)) \in Nat
    BY DEF FiniteLive
  <1>1. DOMAIN log = 1 .. Len(log) /\ Len(log) \in Nat
    BY DEF TypeOK
  <1>2. IsFiniteSet(DOMAIN log)
    BY <1>1, FS_Interval
  <1>3. Live(m) \in SUBSET DOMAIN log
    BY DEF Live
  <1>4. IsFiniteSet(Live(m))
    BY <1>2, <1>3, FS_Subset
  <1>5. QED
    BY <1>4, FS_CardinalityType

\* A set within a finite one, and within one or two more elements of it.
LEMMA SetGrowth ==
  ASSUME NEW S, IsFiniteSet(S), NEW T, NEW x, NEW y
  PROVE  /\ T \subseteq S => Cardinality(T) <= Cardinality(S)
         /\ T \subseteq S \cup {x} => Cardinality(T) <= Cardinality(S) + 1
         /\ T \subseteq S \cup {x, y} => Cardinality(T) <= Cardinality(S) + 2
         /\ Cardinality(S) \in Nat
  <1>1. IsFiniteSet(S \cup {x}) /\ IsFiniteSet((S \cup {x}) \cup {y})
    BY FS_AddElement
  <1>2. Cardinality(S) \in Nat
    BY FS_CardinalityType
  <1>3. Cardinality(S \cup {x}) <= Cardinality(S) + 1
    <2>1. Cardinality(S \cup {x}) = IF x \in S THEN Cardinality(S) ELSE Cardinality(S) + 1
      BY FS_AddElement
    <2>2. QED
      BY <1>2, <2>1
  <1>4. Cardinality(S \cup {x}) \in Nat
    BY <1>1, FS_CardinalityType
  <1>5. Cardinality((S \cup {x}) \cup {y}) <= Cardinality(S \cup {x}) + 1
    <2>1. Cardinality((S \cup {x}) \cup {y}) =
            IF y \in S \cup {x} THEN Cardinality(S \cup {x}) ELSE Cardinality(S \cup {x}) + 1
      BY <1>1, FS_AddElement
    <2>2. QED
      BY <1>4, <2>1
  <1>6. Cardinality((S \cup {x}) \cup {y}) \in Nat
    BY <1>1, FS_CardinalityType
  <1>7. T \subseteq S => IsFiniteSet(T) /\ Cardinality(T) <= Cardinality(S)
    BY FS_Subset
  <1>8. T \subseteq S \cup {x} =>
          IsFiniteSet(T) /\ Cardinality(T) <= Cardinality(S \cup {x})
    BY <1>1, FS_Subset
  <1>9. T \subseteq S \cup {x, y} =>
          IsFiniteSet(T) /\ Cardinality(T) <= Cardinality((S \cup {x}) \cup {y})
    <2>1. S \cup {x, y} = (S \cup {x}) \cup {y}
      OBVIOUS
    <2>2. QED
      BY <1>1, <2>1, FS_Subset
  <1>10. IsFiniteSet(T) => Cardinality(T) \in Nat
    BY FS_CardinalityType
  <1>11. QED
    BY <1>2, <1>3, <1>4, <1>5, <1>6, <1>7, <1>8, <1>9, <1>10

\* Nothing is published at first.
LEMMA InitRunsPaid == Init => RunsPaid
  BY DEF Init, RunsPaid, Published

\* The entries of one message: XADD adds one, or one more than the budget allows
\* and a unit to the budget.
LEMMA RunsXadd ==
  ASSUME TypeOK, TypeOK', NEW e \in Entry, Xadd(e), NEW m \in Msgs, UNCHANGED <<delivered, pel>>,
         UNCHANGED <<crashes, late, handled>>,
         NEW S \in SUBSET Live(m),
         \A i \in DOMAIN log : i \in Live(m)' => i \in S,
         m = e.msg => handled[m] + Cardinality(S) + 1 <= Budget,
         m # e.msg => handled[m] + Cardinality(S) <= Budget
  PROVE  handled'[m] + Cardinality(Live(m)') <= Budget'
  <1>1. /\ Len(log) + 1 \in DOMAIN log'
        /\ \A i \in DOMAIN log : i \in DOMAIN log' /\ log'[i] = log[i]
        /\ \A i \in DOMAIN log' : i \notin DOMAIN log => log'[i] = e
    BY XaddFacts
  <1>2. IsFiniteSet(S) /\ Cardinality(S) \in Nat
    BY LiveFinite, FS_Subset, FS_CardinalityType DEF FiniteLive
  <1>a. TypeOK' => FiniteLive'
    BY LiveFinite, PTL
  <1>3. IsFiniteSet(Live(m)') /\ Cardinality(Live(m)') \in Nat
    BY <1>a DEF FiniteLive
  <1>4. /\ handled[m] \in Nat /\ crashes \in Nat /\ late \in Nat /\ dups \in Nat
        /\ dups' \in Nat
    BY DEF TypeOK
  <1>5. CASE m # e.msg
    <2>1. Live(m)' \subseteq S
      BY <1>1, <1>5 DEF Live
    <2>2. Cardinality(Live(m)') <= Cardinality(S)
      BY <1>2, <2>1, FS_Subset
    <2>3. dups' >= dups
      BY <1>4 DEF Xadd
    <2>4. QED
      BY <1>2, <1>3, <1>4, <1>5, <2>2, <2>3 DEF Budget
  <1>6. CASE m = e.msg
    <2>1. CASE log' = Append(log, e) /\ UNCHANGED dups
      <3>1. Live(m)' \subseteq S \cup {Len(log) + 1}
        BY <2>1 DEF Live, TypeOK
      <3>2. Cardinality(Live(m)') <= Cardinality(S) + 1
        BY <1>2, <3>1, SetGrowth
      <3>3. QED
        BY <1>2, <1>3, <1>4, <1>6, <2>1, <3>2 DEF Budget
    <2>2. CASE log' = Append(Append(log, e), e) /\ dups' = dups + 1
      <3>1. Live(m)' \subseteq S \cup {Len(log) + 1, Len(log) + 2}
        <4>1. Append(log, e) \in Seq(Entry) /\ Len(Append(log, e)) = Len(log) + 1
          BY DEF TypeOK
        <4>2. Len(log') = Len(log) + 2 /\ DOMAIN log' = 1 .. Len(log) + 2
          BY <2>2, <4>1 DEF TypeOK
        <4>3. \A i \in DOMAIN log' : i \in DOMAIN log \/ i = Len(log) + 1 \/ i = Len(log) + 2
          <5>1. Len(log) \in Nat /\ DOMAIN log = 1 .. Len(log)
            BY DEF TypeOK
          <5>2. QED
            BY <4>2, <5>1
        <4>4. QED
          BY <4>3 DEF Live
      <3>2. Cardinality(Live(m)') <= Cardinality(S) + 2
        BY <1>2, <3>1, SetGrowth
      <3>3. QED
        <4>1. Budget' = Budget + 1 /\ Budget \in Nat
          <5>1. dups' = dups + 1 /\ crashes' = crashes /\ late' = late
            BY <2>2
          <5>2. QED
            BY <1>4, <5>1 DEF Budget
        <4>2. handled[m] + Cardinality(S) + 1 <= Budget /\ handled'[m] = handled[m]
          BY <1>6
        <4>3. QED
          BY <1>2, <1>3, <1>4, <3>2, <4>1, <4>2
    <2>3. QED
      BY <2>1, <2>2 DEF Xadd
  <1>7. QED
    BY <1>5, <1>6

\* Runs made and runs possible never outgrow the budget: an output takes its
\* entry out of the live ones unless a fault is paid for it.
LEMMA NextRunsPaid == TypeOK /\ RunsPaid /\ [Next]_vars => RunsPaid'
  <1> SUFFICES ASSUME TypeOK, RunsPaid, [Next]_vars, NEW m \in Msgs
               PROVE  IF m \in Published'
                      THEN handled'[m] + Cardinality(Live(m)') <= Budget'
                      ELSE handled'[m] = 0
    BY DEF RunsPaid
  <1> DEFINE Paid == handled[m] + Cardinality(Live(m)) <= Budget
             Goal == IF m \in Published'
                     THEN handled'[m] + Cardinality(Live(m)') <= Budget'
                     ELSE handled'[m] = 0
  <1>0. TypeOK'
    BY NextTypeOK
  <1>n. /\ handled[m] \in Nat /\ crashes \in Nat /\ late \in Nat /\ dups \in Nat
        /\ handled'[m] \in Nat /\ crashes' \in Nat /\ late' \in Nat /\ dups' \in Nat
    BY <1>0 DEF TypeOK
  <1>b. TypeOK' => FiniteLive'
    BY LiveFinite, PTL
  <1>f. /\ IsFiniteSet(Live(m)) /\ Cardinality(Live(m)) \in Nat
        /\ IsFiniteSet(Live(m)') /\ Cardinality(Live(m)') \in Nat
    BY <1>0, <1>b, LiveFinite DEF FiniteLive
  <1>p. IF m \in Published THEN Paid ELSE handled[m] = 0
    BY DEF RunsPaid
  <1>a. ASSUME UNCHANGED <<log, handled>>, Live(m)' \subseteq Live(m),
               crashes' >= crashes, dups' >= dups, late' >= late
        PROVE  Goal
    <2>1. Cardinality(Live(m)') <= Cardinality(Live(m))
      BY <1>f, <1>a, SetGrowth
    <2>2. Published' = Published
      BY <1>a DEF Published
    <2>3. QED
      BY <1>a, <1>n, <1>f, <1>p, <2>1, <2>2 DEF Budget
  <1>1. ASSUME NEW n \in Msgs, Publish(n) PROVE Goal
    <2> DEFINE e == [msg |-> n, rc |-> 0]
    <2>1. e \in Entry /\ e.msg = n
      BY BusAssumption DEF Entry, BusAssumption
    <2>2. /\ Xadd(e) /\ n \notin Published
          /\ UNCHANGED <<delivered, pel, pc, batch, crashes, late, handled>>
      BY <1>1 DEF Publish, effects
    <2>3. Published' = Published \cup {n}
      BY <2>1, <2>2, XaddPublished
    <2>4. \A i \in DOMAIN log : i \in DOMAIN log' /\ log'[i] = log[i]
      BY <2>1, <2>2, XaddFacts
    <2>5. \A i \in DOMAIN log : i \in Live(m)' => i \in Live(m)
      BY <2>2, <2>4 DEF Live, Outstanding, Leaving, IsCurrent
    <2>6. CASE m = n
      <3>1. Live(m) = {}
        BY <2>2, <2>6 DEF Live, Published
      <3>2. handled[m] = 0 /\ Cardinality({}) = 0 /\ 0 + 0 + 1 <= Budget
        BY <1>n, <1>p, <2>2, <2>6, FS_EmptySet DEF Budget
      <3>3. handled'[m] + Cardinality(Live(m)') <= Budget'
        BY <1>0, <1>n, <2>1, <2>2, <2>5, <2>6, <3>1, <3>2, RunsXadd
      <3>4. QED
        BY <2>3, <2>6, <3>3
    <2>7. CASE m # n /\ m \in Published
      <3>1. handled'[m] + Cardinality(Live(m)') <= Budget'
        BY <1>0, <1>p, <2>1, <2>2, <2>5, <2>7, RunsXadd
      <3>2. QED
        BY <2>3, <2>7, <3>1
    <2>8. CASE m # n /\ m \notin Published
      BY <1>p, <2>2, <2>3, <2>8
    <2>9. QED
      BY <2>6, <2>7, <2>8
  <1>2. CASE Reclaim
    <2>1. UNCHANGED <<log, delivered, pel, handled, crashes, dups, late>> /\ pc = "read"
      BY <1>2 DEF Reclaim, effects
    <2>2. Live(m)' \subseteq Live(m)
      BY <2>1 DEF Live, Outstanding, Leaving
    <2>3. QED
      BY <1>a, <1>n, <2>1, <2>2
  <1>3. CASE ReadNew
    <2>1. PICK last \in delivered + 1 .. Len(log) :
            /\ pel' = pel \cup (delivered + 1 .. last)
            /\ delivered' = last
      BY <1>3 DEF ReadNew
    <2>2. UNCHANGED <<log, handled, crashes, dups, late>> /\ pc = "read"
      BY <1>3 DEF ReadNew, effects
    <2>3. \A i \in DOMAIN log : Outstanding(i)' => Outstanding(i)
      BY <2>1 DEF Outstanding, TypeOK
    <2>4. Live(m)' \subseteq Live(m)
      BY <2>2, <2>3 DEF Live, Leaving
    <2>5. QED
      BY <1>a, <1>n, <2>2, <2>4
  <1>4. ASSUME NEW i \in batch, HandleOk(i) PROVE Goal
    <2>1. /\ i \in DOMAIN log /\ log[i].msg \in Published
          /\ log[i].msg \in Msgs
      BY PendingEntry DEF TypeOK, Published
    <2>2. /\ IsCurrent(i) /\ pc = "handle" /\ Finish(i)
          /\ handled' = [handled EXCEPT ![log[i].msg] = @ + 1]
      BY <1>4 DEF HandleOk
    <2>3. /\ UNCHANGED <<log, delivered, pel, batch, crashes, dups>>
          /\ \/ pc' = "ack" /\ late' = late
             \/ pc' = "requeue" /\ late' = late + 1
      BY <2>2 DEF Finish
    <2>4. Live(m)' \subseteq Live(m) /\ Published' = Published
      BY <2>2, <2>3 DEF Live, Outstanding, Leaving, Published
    <2>5. Cardinality(Live(m)') <= Cardinality(Live(m))
      BY <1>f, <2>4, SetGrowth
    <2>6. CASE m # log[i].msg
      <3>1. handled'[m] = handled[m]
        BY <2>2, <2>6 DEF TypeOK
      <3>2. QED
        BY <1>n, <1>f, <1>p, <2>3, <2>4, <2>5, <3>1 DEF Budget
    <2>7. CASE m = log[i].msg
      <3>1. handled'[m] = handled[m] + 1
        BY <2>1, <2>2, <2>7 DEF TypeOK
      <3>2. CASE late' = late + 1
        BY <1>n, <1>f, <1>p, <2>1, <2>3, <2>4, <2>5, <2>7, <3>1, <3>2 DEF Budget
      <3>3. CASE pc' = "ack" /\ late' = late
        <4>1. i \in Live(m)
          BY <2>1, <2>2, <2>7 DEF Live, Outstanding, Leaving, TypeOK
        <4>2. Live(m)' \subseteq Live(m) \ {i}
          BY <2>2, <2>3, <2>4, <3>3 DEF Live, Leaving, IsCurrent
        <4>3. /\ IsFiniteSet(Live(m) \ {i})
              /\ Cardinality(Live(m) \ {i}) = Cardinality(Live(m)) - 1
          BY <1>f, <4>1, FS_RemoveElement
        <4>4. Cardinality(Live(m)') <= Cardinality(Live(m)) - 1
          BY <4>2, <4>3, FS_Subset
        <4>5. QED
          BY <1>n, <1>f, <1>p, <2>1, <2>3, <2>4, <2>7, <3>1, <3>3, <4>4 DEF Budget
      <3>4. QED
        BY <2>3, <3>2, <3>3
    <2>8. QED
      BY <2>6, <2>7
  <1>5. ASSUME NEW i \in batch, HandleMalformed(i) \/ HandleFails(i) PROVE Goal
    <2>1. /\ UNCHANGED <<log, delivered, pel, batch, crashes, dups, handled>>
          /\ pc = "handle" /\ late' \in {late, late + 1}
      BY <1>5 DEF HandleMalformed, HandleFails, Finish, faults
    <2>2. Live(m)' \subseteq Live(m)
      BY <2>1 DEF Live, Outstanding, Leaving
    <2>3. QED
      BY <1>a, <1>n, <2>1, <2>2
  <1>6. ASSUME NEW i \in batch, RetryOrDlq(i) PROVE Goal
    <2>1. /\ i \in DOMAIN log /\ log[i] \in Entry /\ log[i].msg \in Published
          /\ log[i].msg \in Msgs /\ log[i].rc \in 0 .. MaxRetries
          /\ i \in pel
      BY PendingEntry DEF TypeOK, Published
    <2>2. /\ pc = "requeue" /\ IsCurrent(i) /\ pc' = "ack"
          /\ UNCHANGED <<delivered, pel, batch, handled, crashes, late>>
      BY <1>6 DEF RetryOrDlq
    <2>3. CASE UNCHANGED <<log, dups>>
      <3>1. Live(m)' \subseteq Live(m)
        BY <2>2, <2>3 DEF Live, Outstanding, Leaving
      <3>2. QED
        BY <1>a, <1>n, <2>2, <2>3, <3>1
    <2>4. CASE /\ log[i].rc + 1 <= MaxRetries
               /\ Xadd([msg |-> log[i].msg, rc |-> log[i].rc + 1])
      <3> DEFINE e == [msg |-> log[i].msg, rc |-> log[i].rc + 1]
                 S == Live(m) \ {i}
      <3>1. e \in Entry /\ e.msg = log[i].msg
        BY <2>1, <2>4, BusAssumption DEF Entry, BusAssumption
      <3>2. Published' = Published
        BY <2>1, <2>4, <3>1, XaddPublished
      <3>3. \A k \in DOMAIN log : k \in DOMAIN log' /\ log'[k] = log[k]
        BY <2>4, <3>1, XaddFacts
      <3>4. \A k \in DOMAIN log : k \in Live(m)' => k \in S
        BY <2>1, <2>2, <3>3 DEF Live, Outstanding, Leaving, IsCurrent
      <3>5. Cardinality(S) = IF i \in Live(m) THEN Cardinality(Live(m)) - 1
                             ELSE Cardinality(Live(m))
        BY <1>f, FS_RemoveElement
      <3>6. m = log[i].msg => i \in Live(m)
        BY <2>1, <2>2 DEF Live, Outstanding, Leaving
      <3>7. CASE m \in Published
        <4>1. m = e.msg => handled[m] + Cardinality(S) + 1 <= Budget
          BY <1>n, <1>f, <1>p, <3>1, <3>5, <3>6, <3>7
        <4>2. m # e.msg => handled[m] + Cardinality(S) <= Budget
          BY <1>n, <1>f, <1>p, <3>5, <3>7 DEF Budget
        <4>3. handled'[m] + Cardinality(Live(m)') <= Budget'
          BY <1>0, <2>2, <2>4, <3>1, <3>4, <4>1, <4>2, RunsXadd
        <4>4. QED
          BY <3>2, <3>7, <4>3
      <3>8. CASE m \notin Published
        BY <1>p, <2>2, <3>2, <3>8
      <3>9. QED
        BY <3>7, <3>8
    <2>5. QED
      BY <1>6, <2>3, <2>4, RetryCases
  <1>7. ASSUME NEW i \in batch, Ack(i) PROVE Goal
    <2>1. /\ IsCurrent(i) /\ pc = "ack" /\ i \in pel
          /\ pel' = pel \ {i} /\ batch' = batch \ {i} /\ pc' # "ack"
          /\ UNCHANGED <<log, delivered, handled, crashes, dups, late>>
      BY <1>7 DEF Ack, effects, TypeOK
    <2>2. \A k \in batch : IsCurrent(k) => k = i
      BY <2>1 DEF IsCurrent, TypeOK
    <2>3. i <= delivered /\ i \in Nat
      BY <2>1 DEF TypeOK
    <2>4. Live(m)' \subseteq Live(m)
      BY <2>1, <2>2, <2>3 DEF Live, Outstanding, Leaving, IsCurrent, TypeOK
    <2>5. QED
      BY <1>a, <1>n, <2>1, <2>4
  <1>8. CASE Crash
    <2>1. /\ UNCHANGED <<log, delivered, pel, handled, dups, late>>
          /\ crashes' = crashes + 1 /\ pc' = "read"
      BY <1>8 DEF Crash, effects
    <2>2. \E x : Live(m)' \subseteq Live(m) \cup {x}
      <3>1. CASE \E i \in batch : IsCurrent(i)
        <4>1. PICK i \in batch : IsCurrent(i)
          BY <3>1
        <4>2. \A k \in batch : IsCurrent(k) => k = i
          BY <4>1 DEF IsCurrent, TypeOK
        <4>3. Live(m)' \subseteq Live(m) \cup {i}
          BY <2>1, <4>2 DEF Live, Outstanding, Leaving, IsCurrent
        <4>4. QED
          BY <4>3
      <3>2. CASE ~\E i \in batch : IsCurrent(i)
        BY <2>1, <3>2 DEF Live, Outstanding, Leaving, IsCurrent
      <3>3. QED
        BY <3>1, <3>2
    <2>3. Cardinality(Live(m)') <= Cardinality(Live(m)) + 1
      BY <1>f, <2>2, SetGrowth
    <2>4. Published' = Published
      BY <2>1 DEF Published
    <2>5. QED
      BY <1>n, <1>f, <1>p, <2>1, <2>3, <2>4 DEF Budget
  <1>9. ASSUME NEW i \in pel, Age(i) PROVE Goal
    <2>1. UNCHANGED <<log, delivered, pel, pc, batch, handled, crashes, dups, late>>
      BY <1>9 DEF Age, effects, faults
    <2>2. Live(m)' \subseteq Live(m)
      BY <2>1 DEF Live, Outstanding, Leaving, IsCurrent
    <2>3. QED
      BY <1>a, <1>n, <2>1, <2>2
  <1>10. CASE UNCHANGED vars
    <2>1. UNCHANGED <<log, delivered, pel, pc, batch, handled, crashes, dups, late>>
      BY <1>10 DEF vars
    <2>2. Live(m)' \subseteq Live(m)
      BY <2>1 DEF Live, Outstanding, Leaving, IsCurrent
    <2>3. QED
      BY <1>a, <1>n, <2>1, <2>2
  <1>11. QED
    BY <1>1, <1>2, <1>3, <1>4, <1>5, <1>6, <1>7, <1>8, <1>9, <1>10
       DEF Next, Consume, Handle

\* A handler's output appears once, and once more at most for each restart,
\* each repeated XADD and each failure between the output and its XACK.
THEOREM OutputsRepeatOnlyByFaults == Spec => []RepeatsOnlyByFaults
  <1>1. TypeOK /\ RunsPaid => RepeatsOnlyByFaults
    <2> SUFFICES ASSUME TypeOK, RunsPaid, NEW m \in Msgs
                 PROVE  handled[m] <= Budget
      BY DEF RepeatsOnlyByFaults, Budget
    <2>1. handled[m] \in Nat /\ Budget \in Nat /\ Cardinality(Live(m)) \in Nat
      BY LiveFinite DEF FiniteLive, TypeOK, Budget
    <2>2. QED
      BY <2>1 DEF RunsPaid
  <1>2. QED
    BY <1>1, InitRunsPaid, NextRunsPaid, TypeCorrect, PTL DEF Spec

-----------------------------------------------------------------------------
(* The delivery contract *)

\* The bus implements the safety part of the delivery contract: its initial
\* states are the contract's, and each of its steps sends one message, settles
\* one that was sent, or changes neither.
THEOREM ImplementsContract == Spec => Contract!Safety
  <1>1. Init => Contract!Init
    BY DEF Init, Contract!Init, Published, Settled
  <1>2. TypeOK /\ [Next]_vars => [Contract!Next]_(Contract!vars)
    <2> SUFFICES ASSUME TypeOK, [Next]_vars PROVE [Contract!Next]_(Contract!vars)
      OBVIOUS
    <2> USE DEF Contract!Next, Contract!Send, Contract!Settle, Contract!vars
    <2>0. ASSUME UNCHANGED <<log, handled, rejected, exhausted>>
          PROVE  UNCHANGED <<Published, Settled>>
      BY <2>0 DEF Published, Settled
    <2>1. ASSUME NEW m \in Msgs, Publish(m) PROVE Contract!Next
      <3>1. [msg |-> m, rc |-> 0] \in Entry
        BY BusAssumption DEF Entry, BusAssumption
      <3>2. Published' = Published \cup {m}
        BY <2>1, <3>1, XaddPublished DEF Publish
      <3>3. m \notin Published /\ Settled' = Settled
        BY <2>1 DEF Publish, effects, Settled
      <3>4. QED
        BY <3>2, <3>3
    <2>2. CASE Reclaim
      BY <2>2, <2>0 DEF Reclaim, effects
    <2>3. CASE ReadNew
      BY <2>3, <2>0 DEF ReadNew, effects
    <2>4. ASSUME NEW i \in batch, Handle(i) \/ RetryOrDlq(i)
          PROVE  [Contract!Next]_(Contract!vars)
      <3>1. /\ log[i].msg \in Msgs /\ log[i].msg \in Published
            /\ log[i].rc \in 0 .. MaxRetries
        BY PendingEntry DEF TypeOK, Published
      <3>2. CASE HandleOk(i)
        <4>1. Settled' = Settled \cup {log[i].msg} /\ Published' = Published
          BY <3>1, <3>2 DEF HandleOk, Finish, Settled, Published, TypeOK
        <4>2. QED
          BY <3>1, <4>1
      <3>3. CASE HandleMalformed(i)
        <4>1. Settled' = Settled \cup {log[i].msg} /\ Published' = Published
          BY <3>1, <3>3 DEF HandleMalformed, Finish, Settled, Published
        <4>2. QED
          BY <3>1, <4>1
      <3>4. CASE HandleFails(i)
        BY <3>4, <2>0 DEF HandleFails
      <3>5. CASE RetryOrDlq(i)
        <4>1. CASE exhausted' = exhausted \cup {log[i].msg} /\ UNCHANGED <<log, dups>>
          <5>1. Settled' = Settled \cup {log[i].msg} /\ Published' = Published
            BY <3>5, <4>1 DEF RetryOrDlq, Settled, Published
          <5>2. QED
            BY <3>1, <5>1
        <4>2. CASE /\ log[i].rc + 1 <= MaxRetries
                   /\ Xadd([msg |-> log[i].msg, rc |-> log[i].rc + 1])
                   /\ UNCHANGED exhausted
          <5>1. [msg |-> log[i].msg, rc |-> log[i].rc + 1] \in Entry
            BY <3>1, <4>2, BusAssumption DEF Entry, BusAssumption
          <5>2. Published' = Published \cup {log[i].msg}
            BY <4>2, <5>1, XaddPublished
          <5>3. Published' = Published /\ Settled' = Settled
            BY <3>1, <3>5, <4>2, <5>2 DEF RetryOrDlq, Settled
          <5>4. QED
            BY <5>3
        <4>3. QED
          BY <3>5, <4>1, <4>2, RetryCases
      <3>6. QED
        BY <2>4, <3>2, <3>3, <3>4, <3>5 DEF Handle
    <2>5. ASSUME NEW i \in batch, Ack(i) PROVE UNCHANGED <<Published, Settled>>
      BY <2>5, <2>0 DEF Ack, effects
    <2>6. CASE Crash
      BY <2>6, <2>0 DEF Crash, effects
    <2>7. ASSUME NEW i \in pel, Age(i) PROVE UNCHANGED <<Published, Settled>>
      BY <2>7, <2>0 DEF Age, effects
    <2>8. CASE UNCHANGED vars
      BY <2>8, <2>0 DEF vars
    <2>9. QED
      BY <2>1, <2>2, <2>3, <2>4, <2>5, <2>6, <2>7, <2>8 DEF Next, Consume
  <1>3. QED
    BY <1>1, <1>2, TypeCorrect, PTL DEF Spec, Contract!Safety

=============================================================================
