--------------------------- MODULE StreamGroup ---------------------------
(***************************************************************************)
(* One Redis stream, one consumer group and the service that reads it, as  *)
(* shared/bus/redis_streams.py and shared/bus/dlq.py use them and as the   *)
(* main loops of services/risk_engine and services/execution are written:  *)
(* read a batch (first what was left pending, then what is new), handle    *)
(* one message after the other, re-add a failed one to the same stream or  *)
(* dead-letter it, and acknowledge the entry in every case.                *)
(*                                                                         *)
(* The log, the group's cursor and its pending list live in Redis and      *)
(* outlive the process; the batch and the program counter do not.          *)
(***************************************************************************)
EXTENDS Naturals, Sequences, FiniteSets

CONSTANTS
  Msgs,        \* payloads the producer publishes
  Malformed,   \* those of them that fail require_env or the schema
  MaxRetries,  \* RetryPolicy.max_retries
  BatchSize,   \* the count of XREADGROUP and XAUTOCLAIM
  MaxFaults    \* bound of the model: restarts, lost replies and late failures

ASSUME BusAssumption ==
  /\ Malformed \subseteq Msgs
  /\ MaxRetries \in Nat
  /\ BatchSize \in Nat \ {0}
  /\ MaxFaults \in Nat

VARIABLES
  log,        \* the stream: entry i is log[i] and i is its id
  delivered,  \* last id the group has delivered (the cursor of ">")
  pel,        \* ids delivered and not acknowledged
  idle,       \* those of them idle for at least min_idle_ms
  pc,         \* what the consumer does next with the first id of its batch
  batch,      \* ids read and not yet finished with, handled in id order
  handled,    \* [Msgs -> Nat]: completed runs of the handler
  failed,     \* [Msgs -> Nat]: runs of the handler that raised
  rejected,   \* messages dead-lettered as malformed
  exhausted,  \* messages dead-lettered by retry_or_dlq
  crashes,    \* restarts of the consumer so far
  dups,       \* XADDs sent again after a lost reply, so far
  lost,       \* replies of XREADGROUP and XAUTOCLAIM lost, so far
  late        \* handlers that raised after their output was out, so far

faults == <<crashes, dups, lost, late>>
effects == <<handled, failed, rejected, exhausted>>
vars == <<log, delivered, pel, idle, pc, batch, handled, failed, rejected,
          exhausted, crashes, dups, lost, late>>

MayFault == crashes + dups + lost + late < MaxFaults

Entry == [msg : Msgs, rc : 0 .. MaxRetries]

Published == {log[i].msg : i \in DOMAIN log}
Settled == {m \in Msgs : handled[m] > 0} \cup rejected \cup exhausted

\* Entry i will still be read: it is undelivered or pending.
Outstanding(i) == i > delivered \/ i \in pel

TypeOK ==
  /\ log \in Seq(Entry)
  /\ delivered \in 0 .. Len(log)
  /\ pel \subseteq 1 .. delivered
  /\ idle \subseteq pel
  /\ pc \in {"read", "handle", "requeue", "ack"}
  /\ batch \subseteq pel
  /\ handled \in [Msgs -> Nat]
  /\ failed \in [Msgs -> Nat]
  /\ rejected \subseteq Msgs
  /\ exhausted \subseteq Msgs
  /\ crashes \in Nat
  /\ dups \in Nat
  /\ lost \in Nat
  /\ late \in Nat
  /\ crashes + dups + lost + late <= MaxFaults

Init ==
  /\ log = <<>>
  /\ delivered = 0
  /\ pel = {}
  /\ idle = {}
  /\ pc = "read"
  /\ batch = {}
  /\ handled = [m \in Msgs |-> 0]
  /\ failed = [m \in Msgs |-> 0]
  /\ rejected = {}
  /\ exhausted = {}
  /\ crashes = 0
  /\ dups = 0
  /\ lost = 0
  /\ late = 0

-----------------------------------------------------------------------------
(* Producers *)

\* XADD behind _retry_on_disconnect: a command the server executed and whose
\* reply was lost is sent again, and the entry is appended once more.
Xadd(e) ==
  \/ /\ log' = Append(log, e)
     /\ UNCHANGED dups
  \/ /\ MayFault
     /\ log' = Append(Append(log, e), e)
     /\ dups' = dups + 1

Publish(m) ==
  /\ m \notin Published
  /\ Xadd([msg |-> m, rc |-> 0])
  /\ UNCHANGED <<delivered, pel, idle, pc, batch, crashes, lost, late>>
  /\ UNCHANGED effects

-----------------------------------------------------------------------------
(* The consumer *)

\* What XREADGROUP and XAUTOCLAIM hand over reaches the loop, or the reply is
\* lost: the call is repeated or safe_xreadgroup_json returns [], and the
\* server has counted the entries as delivered all the same.
Receive(ids) ==
  \/ /\ batch' = ids
     /\ pc' = "handle"
     /\ UNCHANGED lost
  \/ /\ MayFault
     /\ lost' = lost + 1
     /\ UNCHANGED <<batch, pc>>

\* Variant: the group is read with recover_pending=False.
ReclaimDisabled == FALSE

\* XAUTOCLAIM from 0-0: the oldest entries idle for min_idle_ms, whose idle
\* time starts again. When there is any, nothing new is read.
Reclaim ==
  /\ pc = "read"
  /\ \E ids \in SUBSET idle :
       /\ ids # {}
       /\ Cardinality(ids) <= BatchSize
       /\ Cardinality(ids) = BatchSize \/ ids = idle
       /\ \A i \in ids, j \in idle \ ids : i < j
       /\ Receive(ids)
       /\ idle' = idle \ ids
  /\ UNCHANGED <<log, delivered, pel, crashes, dups, late>>
  /\ UNCHANGED effects

\* XREADGROUP ">". An XAUTOCLAIM that raised counts as one that found
\* nothing, so this can happen while idle entries wait.
ReadNew ==
  /\ pc = "read"
  /\ \E last \in delivered + 1 .. Len(log) :
       /\ last <= delivered + BatchSize
       /\ last = Len(log) \/ last = delivered + BatchSize
       /\ Receive(delivered + 1 .. last)
       /\ pel' = pel \cup (delivered + 1 .. last)
       /\ delivered' = last
  /\ UNCHANGED <<log, idle, crashes, dups, late>>
  /\ UNCHANGED effects

IsCurrent(i) == i \in batch /\ \A j \in batch : i <= j

\* What follows an output or a dead letter, the audit record and XACK, is under
\* the same handler of exceptions: when Redis fails there, the entry is done and
\* goes to retry_or_dlq all the same.
Finish(i) ==
  /\ UNCHANGED <<log, delivered, pel, idle, batch, exhausted, crashes, dups, lost>>
  /\ \/ /\ pc' = "ack"
        /\ UNCHANGED <<failed, late>>
     \/ /\ MayFault
        /\ pc' = "requeue"
        /\ failed' = [failed EXCEPT ![log[i].msg] = @ + 1]
        /\ late' = late + 1

\* The handler publishes its output.
HandleOk(i) ==
  /\ pc = "handle"
  /\ IsCurrent(i)
  /\ log[i].msg \notin Malformed
  /\ handled' = [handled EXCEPT ![log[i].msg] = @ + 1]
  /\ UNCHANGED rejected
  /\ Finish(i)

\* Variant: the malformed message is acknowledged without a dead letter.
HandleMalformedSilently(i) ==
  /\ pc = "handle"
  /\ IsCurrent(i)
  /\ log[i].msg \in Malformed
  /\ UNCHANGED <<handled, rejected>>
  /\ Finish(i)

\* The payload fails require_env or its schema: dead-lettered at once.
HandleMalformed(i) ==
  /\ pc = "handle"
  /\ IsCurrent(i)
  /\ log[i].msg \in Malformed
  /\ rejected' = rejected \cup {log[i].msg}
  /\ UNCHANGED handled
  /\ Finish(i)

\* Variant: the entry is acknowledged without retry_or_dlq.
HandleFailsWithoutRetry(i) ==
  /\ pc = "handle"
  /\ IsCurrent(i)
  /\ log[i].msg \notin Malformed
  /\ failed' = [failed EXCEPT ![log[i].msg] = @ + 1]
  /\ pc' = "ack"
  /\ UNCHANGED <<log, delivered, pel, idle, batch, handled, rejected,
                 exhausted>>
  /\ UNCHANGED faults

\* The handler raises, or finds no state snapshot.
HandleFails(i) ==
  /\ pc = "handle"
  /\ IsCurrent(i)
  /\ log[i].msg \notin Malformed
  /\ failed' = [failed EXCEPT ![log[i].msg] = @ + 1]
  /\ pc' = "requeue"
  /\ UNCHANGED <<log, delivered, pel, idle, batch, handled, rejected,
                 exhausted>>
  /\ UNCHANGED faults

\* Variant: one retry fewer than the policy allows.
GivesUpEarly(rc) == rc >= MaxRetries

\* The retries of the policy are used up.
GivesUp(rc) == rc > MaxRetries

\* retry_or_dlq
RetryOrDlq(i) ==
  /\ pc = "requeue"
  /\ IsCurrent(i)
  /\ LET rc == log[i].rc + 1
     IN  \/ /\ GivesUp(rc)
            /\ exhausted' = exhausted \cup {log[i].msg}
            /\ UNCHANGED <<log, dups>>
         \/ /\ ~GivesUp(rc)
            /\ Xadd([msg |-> log[i].msg, rc |-> rc])
            /\ UNCHANGED exhausted
  /\ pc' = "ack"
  /\ UNCHANGED <<delivered, pel, idle, batch, handled, failed, rejected,
                 crashes, lost, late>>

\* Variant: the batch moves on and XACK is forgotten.
AckForgotten(i) ==
  /\ pc = "ack"
  /\ IsCurrent(i)
  /\ batch' = batch \ {i}
  /\ pc' = IF batch = {i} THEN "read" ELSE "handle"
  /\ UNCHANGED <<log, delivered, pel, idle>>
  /\ UNCHANGED effects /\ UNCHANGED faults

Ack(i) ==
  /\ pc = "ack"
  /\ IsCurrent(i)
  /\ pel' = pel \ {i}
  /\ idle' = idle \ {i}
  /\ batch' = batch \ {i}
  /\ pc' = IF batch = {i} THEN "read" ELSE "handle"
  /\ UNCHANGED <<log, delivered, crashes, dups, lost, late>>
  /\ UNCHANGED effects

\* The process dies, or an exception leaves main (a failing XACK, or
\* retry_or_dlq itself failing), and it is started again.
Crash ==
  /\ MayFault
  /\ crashes' = crashes + 1
  /\ pc' = "read"
  /\ batch' = {}
  /\ UNCHANGED <<log, delivered, pel, idle, dups, lost, late>>
  /\ UNCHANGED effects

\* A pending entry that nobody works on reaches min_idle_ms.
Age(i) ==
  /\ i \in pel \ (idle \cup batch)
  /\ idle' = idle \cup {i}
  /\ UNCHANGED <<log, delivered, pel, pc, batch, faults>>
  /\ UNCHANGED effects

Handle(i) == HandleOk(i) \/ HandleMalformed(i) \/ HandleFails(i)

Consume ==
  \/ Reclaim
  \/ ReadNew
  \/ \E i \in batch : Handle(i) \/ RetryOrDlq(i) \/ Ack(i)

Next ==
  \/ \E m \in Msgs : Publish(m)
  \/ Consume
  \/ Crash
  \/ \E i \in pel : Age(i)

Spec == Init /\ [][Next]_vars

\* The loop runs while the process is up (restarts are finitely many in the
\* model) and the clock advances. Nothing obliges a producer to publish.
FairSpec ==
  /\ Spec
  /\ WF_vars(Consume)
  /\ WF_vars(\E i \in pel : Age(i))

-----------------------------------------------------------------------------
(* Properties *)

\* A published message is settled, or one of its entries will still be read:
\* no interleaving of delivery, failure, re-adding, acknowledging and crashing
\* lets XACK remove the last trace of it.
NoLoss ==
  \A m \in Published :
    m \in Settled \/ \E i \in DOMAIN log : log[i].msg = m /\ Outstanding(i)

\* retry_or_dlq gives up on a message only after max_retries + 1 failed runs
\* of its handler, however its copies were duplicated on the way.
DeadLetterAfterRetries ==
  \A m \in exhausted : failed[m] >= MaxRetries + 1

\* A handler's output appears once, and once more at most for each restart, each
\* repeated XADD and each failure between the output and its XACK: otherwise the
\* acknowledgement makes redelivery impossible.
RepeatsOnlyByFaults ==
  \A m \in Msgs : handled[m] <= 1 + crashes + dups + late

\* Pending entries do not stay behind: the group ends up with nothing
\* unacknowledged and nothing unread, also after restarts.
Drains == <>[](pel = {} /\ delivered = Len(log))

\* The bus implements the delivery contract: sending and settling are its only
\* visible steps and a sent message is eventually settled.
Contract == INSTANCE DeliveryContract WITH sent <- Published, settled <- Settled
Delivery == Contract!Spec

=============================================================================
