------------------------ MODULE ControlModes_proofs ------------------------
(***************************************************************************)
(* Theorems about the control modes, for every batch size, number of       *)
(* slices, set of cycles, set of direct writes and bound: the types, that  *)
(* HALT and the last portfolio of the stream bind within one order, and    *)
(* that what was planned under REDUCE_ONLY reduces.                        *)
(***************************************************************************)
EXTENDS ControlModes, SequenceTheorems, TLAPS

\* The loop is inside a batch while there is a message in hand, and before
\* place_limit a slice; an entry that is being worked on is not idle.
Counting ==
  /\ idle \cap reading = {}
  /\ pc \in {"cycle", "slice", "guard", "place"} <=> batch # <<>>
  /\ pc \in {"guard", "place"} => todo > 0

\* An order that passed its guard while the key said HALT needed a failed read;
\* one that passed before is the only one that did not.
GuardPaid ==
  /\ since <= 1 + faults
  /\ pc = "place" => since <= faults
  /\ key # "HALT" => since = 0

\* Past the first guard of a slice nothing has gone out behind a portfolio of
\* another cycle, and after the order that this lets through the guard stops the
\* next slice. What the message comes to while its own cycle is last is nothing.
ReplacedPaid ==
  Live =>
    /\ stale <= 1
    /\ pc \in {"guard", "place"} => stale = 0
    /\ batch # <<>> /\ last = Cycle => stale = 0
    /\ batch = <<>> => stale = 0

\* The inductive invariant.
IInv == TypeOK /\ Counting /\ GuardPaid /\ ReplacedPaid

USE DEF Modes, Commands, Lots

\* The merge of two modes is a mode.
LEMMA MergeType ==
  \A r, c \in Modes : MergeModes(r, c) \in Modes
  BY DEF MergeModes

\* A command stands for a mode.
LEMMA CommandType ==
  \A c \in Commands : ModeFromCommand(c) \in Modes
  BY DEF ModeFromCommand

\* The loop starts in the invariant.
LEMMA InitIInv == Init => IInv
  <1> SUFFICES ASSUME Init PROVE IInv
    OBVIOUS
  <1>1. TypeOK
    <2>1. /\ ctl = <<>> /\ Len(ctl) = 0 /\ ctl \in Seq(Commands)
          /\ unread \in Seq(Cycles) /\ owed \in Seq(Cycles) /\ batch \in Seq(Cycles)
      BY DEF Init
    <2>2. QED
      BY <2>1, ControlAssumption DEF Init, TypeOK, ControlAssumption
  <1>2. Counting /\ GuardPaid /\ ReplacedPaid
    BY DEF Init, Counting, GuardPaid, ReplacedPaid
  <1>3. QED
    BY <1>1, <1>2 DEF IInv

\* The queues of approved messages hold cycles whatever a step does to them.
LEMMA ApprovalTypes ==
  ASSUME TypeOK, Counting, [Next]_vars
  PROVE  /\ last' \in Cycles
         /\ unread' \in Seq(Cycles) /\ owed' \in Seq(Cycles) /\ batch' \in Seq(Cycles)
  <1> DEFINE Typed == /\ last' \in Cycles
                      /\ unread' \in Seq(Cycles) /\ owed' \in Seq(Cycles)
                      /\ batch' \in Seq(Cycles)
  <1> USE DEF approvals
  <1>0. /\ last \in Cycles
        /\ unread \in Seq(Cycles) /\ owed \in Seq(Cycles) /\ batch \in Seq(Cycles)
        /\ BatchSize \in Nat
    BY ControlAssumption DEF TypeOK, ControlAssumption
  <1>1. CASE ReadBatch
    <2>1. ASSUME NEW s \in Seq(Cycles), NEW n \in 1 .. Len(s)
          PROVE  SubSeq(s, 1, n) \in Seq(Cycles) /\ SubSeq(s, n + 1, Len(s)) \in Seq(Cycles)
      <3>1. Len(s) \in Nat /\ n \in 1 .. Len(s)
        OBVIOUS
      <3>2. \A i \in 1 .. n : s[i] \in Cycles
        BY <3>1
      <3>3. \A i \in n + 1 .. Len(s) : s[i] \in Cycles
        BY <3>1
      <3>4. QED
        BY <3>1, <3>2, <3>3, SubSeqProperties
    <2>2. QED
      BY <1>0, <1>1, <2>1 DEF ReadBatch
  <1>2. CASE EndCycle \/ GiveUp
    <2>1. batch # <<>>
      BY <1>2 DEF EndCycle, GiveUp, Counting
    <2>2. Tail(batch) \in Seq(Cycles) /\ Cycle \in Cycles
      BY <1>0, <2>1 DEF Cycle
    <2>3. Append(unread, Cycle) \in Seq(Cycles)
      BY <1>0, <2>2
    <2>4. batch' = Tail(batch) /\ owed' = owed
      BY <1>2 DEF EndCycle, GiveUp, NextMessage
    <2>5. \/ UNCHANGED <<last, unread>>
          \/ last' = Cycle /\ unread' = Append(unread, Cycle)
      BY <1>2 DEF EndCycle, GiveUp, RetryOrDlq
    <2>6. QED
      BY <1>0, <2>2, <2>3, <2>4, <2>5
  <1>3. ASSUME NEW cycle \in Cycles, Approve(cycle) PROVE Typed
    BY <1>0, <1>3 DEF Approve
  <1>4. CASE Crash
    <2>1. owed \o batch \in Seq(Cycles) /\ batch \o owed \in Seq(Cycles)
      BY <1>0, ConcatProperties
    <2>2. <<>> \in Seq(Cycles)
      OBVIOUS
    <2>3. QED
      BY <1>0, <1>4, <2>1, <2>2 DEF Crash
  <1>5. CASE ReadCommands \/ NoCommands \/ ReadMode \/ WriteKey \/ Reconcile
    BY <1>0, <1>5 DEF ReadCommands, NoCommands, ReadMode, WriteKey, Reconcile
  <1>6. CASE StartCycle \/ LatestApprovalGuard \/ SliceSubmitGuard \/ SkipSlice \/ Place
    BY <1>0, <1>6
       DEF StartCycle, LatestApprovalGuard, SliceSubmitGuard, SkipSlice, Place
  <1>7. ASSUME NEW i \in pending, Age(i) PROVE Typed
    BY <1>0, <1>7 DEF Age
  <1>8. ASSUME NEW i \in reading, Apply(i) \/ Ack(i) PROVE Typed
    BY <1>0, <1>8 DEF Apply, Ack
  <1>9. ASSUME NEW cmd \in Commands, Command(cmd) PROVE Typed
    BY <1>0, <1>9 DEF Command
  <1>10. CASE UNCHANGED vars
    BY <1>0, <1>10 DEF vars
  <1>11. QED
    BY <1>1, <1>2, <1>3, <1>4, <1>5, <1>6, <1>7, <1>8, <1>9, <1>10 DEF Next, Loop

\* Types and counters survive every step.
LEMMA NextTypeOK ==
  TypeOK /\ Counting /\ [Next]_vars => TypeOK' /\ Counting'
  <1> SUFFICES ASSUME TypeOK, Counting, [Next]_vars
               PROVE  TypeOK' /\ Counting'
    OBVIOUS
  <1> USE DEF TypeOK, Counting, group, message, account, approvals
  <1>a. /\ last' \in Cycles
        /\ unread' \in Seq(Cycles) /\ owed' \in Seq(Cycles) /\ batch' \in Seq(Cycles)
    BY ApprovalTypes
  <1>0. /\ BatchSize \in Nat \ {0} /\ MaxSlices \in Nat \ {0}
        /\ MaxLots \in Nat /\ MaxFaults \in Nat
        /\ DirectModes \subseteq Modes
        /\ Len(ctl) \in Nat /\ cursor \in Nat
    BY ControlAssumption DEF ControlAssumption
  <1>1. ASSUME NEW cmd \in Commands, Command(cmd) PROVE TypeOK' /\ Counting'
    <2>1. ctl' \in Seq(Commands) /\ Len(ctl') = Len(ctl) + 1
      BY <1>1 DEF Command
    <2>2. QED
      BY <1>1, <1>0, <1>a, <2>1 DEF Command
  <1>2. CASE ReadCommands
    <2>1. CASE idle # {} /\ reading' = idle /\ idle' = {} /\ UNCHANGED <<cursor, pending>>
      BY <1>2, <1>0, <1>a, <2>1 DEF ReadCommands, Reclaimed
    <2>2. CASE /\ idle = {}
               /\ cursor < Len(ctl)
               /\ reading' = cursor + 1 .. Len(ctl)
               /\ pending' = pending \cup reading'
               /\ cursor' = Len(ctl)
               /\ UNCHANGED idle
      <3>1. cursor' \in 0 .. Len(ctl)
        BY <1>0, <1>a, <2>2
      <3>2. reading' \subseteq pending'
        BY <2>2
      <3>3. pending' \subseteq 1 .. cursor'
        <4>1. pending \subseteq 1 .. Len(ctl)
          BY <1>0
        <4>2. cursor + 1 .. Len(ctl) \subseteq 1 .. Len(ctl)
          BY <1>0
        <4>3. QED
          BY <2>2, <4>1, <4>2, Zenon
      <3>4. idle' \subseteq pending' /\ idle' \cap reading' = {}
        BY <2>2
      <3>5. QED
        BY <1>2, <1>0, <1>a, <3>1, <3>2, <3>3, <3>4 DEF ReadCommands, Reclaimed
    <2>3. QED
      BY <1>2, <2>1, <2>2 DEF ReadCommands, Reclaimed
  <1>3. CASE NoCommands
    BY <1>3, <1>0, <1>a DEF NoCommands, Reclaimed, Fault
  <1>4. CASE ReadMode
    BY <1>4, <1>0, <1>a DEF ReadMode, GetControlMode, Fault
  <1>5. CASE ReadBatch
    BY <1>5, <1>0, <1>a DEF ReadBatch
  <1>6. CASE StartCycle
    <2>1. effective' \in Modes /\ risk' \in Modes
      BY <1>6, MergeType DEF StartCycle
    <2>2. todo' \in 0 .. MaxSlices /\ lots' \in Lots
      BY <1>6, <1>0, <1>a DEF StartCycle, Plans
    <2>3. QED
      BY <1>6, <1>0, <1>a, <2>1, <2>2 DEF StartCycle
  <1>7. CASE SliceSubmitGuard
    <2>1. faults' \in 0 .. MaxFaults
      BY <1>7, <1>0 DEF SliceSubmitGuard, GetControlMode, Fault
    <2>2. /\ pc' \in {"slice", "place"}
          /\ todo' \in 0 .. MaxSlices
          /\ pc' \in {"guard", "place"} => todo' > 0
      BY <1>7, <1>0 DEF SliceSubmitGuard
    <2>3. QED
      BY <1>7, <1>0, <1>a, <2>1, <2>2 DEF SliceSubmitGuard
  <1>8. CASE Place
    <2>1. position' \in Lots
      BY <1>8 DEF Place
    <2>2. QED
      BY <1>8, <1>0, <1>a, <2>1 DEF Place, ReduceOnlyFlag
  <1>9. CASE EndCycle
    BY <1>9, <1>0, <1>a DEF EndCycle, NextMessage, NoMessage
  <1>10. ASSUME NEW i \in reading, Apply(i) PROVE TypeOK' /\ Counting'
    <2>1. i \in 1 .. cursor /\ ctl[i] \in Commands
      BY <1>0
    <2>2. key' \in Modes /\ since' \in Nat
      BY <1>10, <2>1, CommandType DEF Apply, SetMode
    <2>3. QED
      BY <1>10, <1>0, <1>a, <2>1, <2>2 DEF Apply, Fault
  <1>11. ASSUME NEW i \in reading, Ack(i) PROVE TypeOK' /\ Counting'
    BY <1>11, <1>0, <1>a DEF Ack
  <1>12. CASE WriteKey
    BY <1>12, <1>0, <1>a DEF WriteKey, SetMode
  <1>13. CASE Reconcile
    BY <1>13, <1>0, <1>a DEF Reconcile
  <1>14. CASE Crash
    BY <1>14, <1>0, <1>a DEF Crash, Fault, NoMessage
  <1>15. ASSUME NEW i \in pending, Age(i) PROVE TypeOK' /\ Counting'
    BY <1>15, <1>0, <1>a DEF Age
  <1>16. CASE SkipSlice
    BY <1>16, <1>0, <1>a DEF SkipSlice
  <1>17. CASE LatestApprovalGuard
    BY <1>17, <1>0, <1>a DEF LatestApprovalGuard, Outdated, Fault
  <1>18. ASSUME NEW cycle \in Cycles, Approve(cycle) PROVE TypeOK' /\ Counting'
    BY <1>18, <1>0, <1>a DEF Approve
  <1>19. CASE UNCHANGED vars
    BY <1>19 DEF vars
  <1>20. CASE GiveUp
    BY <1>20, <1>0, <1>a DEF GiveUp, Fault, NextMessage, NoMessage
  <1>21. QED
    BY <1>1, <1>2, <1>3, <1>4, <1>5, <1>6, <1>7, <1>8, <1>9, <1>10, <1>11,
       <1>12, <1>13, <1>14, <1>15, <1>16, <1>17, <1>18, <1>19, <1>20
    DEF Next, Loop

\* The count of orders under HALT survives every step.
LEMMA NextGuardPaid ==
  TypeOK /\ GuardPaid /\ [Next]_vars => GuardPaid'
  <1> SUFFICES ASSUME TypeOK, GuardPaid, [Next]_vars
               PROVE  GuardPaid'
    OBVIOUS
  <1> USE DEF GuardPaid, group, message, account
  <1>0. faults \in Nat /\ since \in Nat
    BY DEF TypeOK
  <1>1. ASSUME NEW cmd \in Commands, Command(cmd) PROVE GuardPaid'
    BY <1>1 DEF Command
  <1>2. CASE ReadCommands
    BY <1>2 DEF ReadCommands, Reclaimed
  <1>3. CASE NoCommands
    BY <1>3, <1>0 DEF NoCommands, Reclaimed, Fault
  <1>4. CASE ReadMode
    BY <1>4, <1>0 DEF ReadMode, GetControlMode, Fault
  <1>5. CASE ReadBatch
    BY <1>5 DEF ReadBatch
  <1>6. CASE StartCycle
    BY <1>6 DEF StartCycle
  <1>7. CASE SliceSubmitGuard
    \* Past the guard the key was NORMAL or REDUCE_ONLY, or its read failed.
    <2>1. pc' = "place" => key # "HALT" \/ faults' = faults + 1
      BY <1>7 DEF SliceSubmitGuard, GetControlMode, MergeModes, Fault
    <2>2. faults' = faults \/ faults' = faults + 1
      BY <1>7 DEF SliceSubmitGuard, GetControlMode, Fault
    <2>3. QED
      BY <1>7, <1>0, <2>1, <2>2 DEF SliceSubmitGuard
  <1>8. CASE Place
    BY <1>8, <1>0 DEF Place
  <1>9. CASE EndCycle
    BY <1>9 DEF EndCycle, NextMessage
  <1>10. ASSUME NEW i \in reading, Apply(i) PROVE GuardPaid'
    BY <1>10, <1>0 DEF Apply, SetMode, Fault
  <1>11. ASSUME NEW i \in reading, Ack(i) PROVE GuardPaid'
    BY <1>11 DEF Ack
  <1>12. CASE WriteKey
    BY <1>12, <1>0 DEF WriteKey, SetMode
  <1>13. CASE Reconcile
    BY <1>13 DEF Reconcile
  <1>14. CASE Crash
    BY <1>14, <1>0 DEF Crash, Fault
  <1>15. ASSUME NEW i \in pending, Age(i) PROVE GuardPaid'
    BY <1>15 DEF Age
  <1>16. CASE SkipSlice
    BY <1>16 DEF SkipSlice
  <1>17. CASE LatestApprovalGuard
    BY <1>17, <1>0 DEF LatestApprovalGuard, Outdated, Fault
  <1>18. ASSUME NEW cycle \in Cycles, Approve(cycle) PROVE GuardPaid'
    BY <1>18 DEF Approve
  <1>19. CASE UNCHANGED vars
    BY <1>19 DEF vars
  <1>20. CASE GiveUp
    BY <1>20, <1>0 DEF GiveUp, Fault, NextMessage
  <1>21. QED
    BY <1>1, <1>2, <1>3, <1>4, <1>5, <1>6, <1>7, <1>8, <1>9, <1>10, <1>11,
       <1>12, <1>13, <1>14, <1>15, <1>16, <1>17, <1>18, <1>19, <1>20
    DEF Next, Loop

\* The count of orders behind a portfolio of another cycle survives every step.
LEMMA NextReplacedPaid ==
  TypeOK /\ Counting /\ ReplacedPaid /\ [Next]_vars => ReplacedPaid'
  <1> SUFFICES ASSUME TypeOK, Counting, ReplacedPaid, [Next]_vars
               PROVE  ReplacedPaid'
    OBVIOUS
  <1> USE DEF ReplacedPaid, group, message, account, approvals, Cycle
  <1>0. stale \in Nat
    BY DEF TypeOK
  <1>a. pc \in {"cycle", "slice", "guard", "place"} <=> batch # <<>>
    BY DEF Counting
  <1>1. CASE LatestApprovalGuard
    BY <1>1, <1>a DEF LatestApprovalGuard, Outdated
  <1>2. CASE SliceSubmitGuard
    BY <1>2 DEF SliceSubmitGuard
  <1>3. CASE Place
    BY <1>3, <1>0, <1>a DEF Place
  <1>4. CASE SkipSlice
    BY <1>4 DEF SkipSlice
  <1>5. ASSUME NEW cycle \in Cycles, Approve(cycle) PROVE ReplacedPaid'
    BY <1>5 DEF Approve
  <1>6. CASE StartCycle
    BY <1>6 DEF StartCycle
  <1>7. CASE EndCycle \/ GiveUp \/ Crash
    BY <1>7 DEF EndCycle, GiveUp, NextMessage, Crash, NoMessage
  <1>8. CASE ReadBatch
    <2>1. stale = 0 \/ ~Live
      BY <1>8, <1>a DEF ReadBatch
    <2>2. stale' = stale
      BY <1>8 DEF ReadBatch
    <2>3. QED
      BY <2>1, <2>2
  <1>9. CASE ReadCommands \/ NoCommands \/ ReadMode
    BY <1>9 DEF ReadCommands, NoCommands, ReadMode
  <1>10. ASSUME NEW i \in reading, Apply(i) \/ Ack(i) PROVE ReplacedPaid'
    BY <1>10 DEF Apply, Ack
  <1>11. CASE WriteKey \/ Reconcile
    BY <1>11 DEF WriteKey, Reconcile
  <1>12. ASSUME NEW cmd \in Commands, Command(cmd) PROVE ReplacedPaid'
    BY <1>12 DEF Command
  <1>13. ASSUME NEW i \in pending, Age(i) PROVE ReplacedPaid'
    BY <1>13 DEF Age
  <1>14. CASE UNCHANGED vars
    BY <1>14 DEF vars
  <1>15. QED
    BY <1>1, <1>2, <1>3, <1>4, <1>5, <1>6, <1>7, <1>8, <1>9, <1>10, <1>11, <1>12,
       <1>13, <1>14
    DEF Next, Loop

\* Every reachable state satisfies the invariant.
LEMMA Reachable == Spec => []IInv
  <1>1. IInv /\ [Next]_vars => IInv'
    BY NextTypeOK, NextGuardPaid, NextReplacedPaid DEF IInv
  <1>2. QED
    BY <1>1, InitIInv, PTL DEF Spec

\* The variables keep their types.
THEOREM TypeCorrect == Spec => []TypeOK
  <1>1. IInv => TypeOK
    BY DEF IInv
  <1>2. QED
    BY <1>1, Reachable, PTL

\* While ctl.mode says HALT no order is placed but the one whose guard had been
\* passed, and one for every failed read of the key.
THEOREM HaltBinds == Spec => []HaltWithinOneOrder
  <1>1. IInv => HaltWithinOneOrder
    BY DEF IInv, GuardPaid, HaltWithinOneOrder
  <1>2. QED
    BY <1>1, Reachable, PTL

\* In live trading at most one order goes out for a plan while the last entry of
\* risk.approved is of another cycle, the one that had passed
\* latest_approval_cycle_guard, however portfolios are approved, retried, given up
\* and read again after a restart.
THEOREM ReplacedBinds == Spec => []ReplacedWithinOneOrder
  <1>1. IInv => ReplacedWithinOneOrder
    BY DEF IInv, ReplacedPaid, ReplacedWithinOneOrder
  <1>2. QED
    BY <1>1, Reachable, PTL

\* A reduce_only order is filled towards flat and no farther.
LEMMA FillReduces ==
  ASSUME NEW qty \in Int, NEW delta \in Int, qty + Fill(qty, delta, TRUE) # qty
  PROVE  Abs(qty + Fill(qty, delta, TRUE)) < Abs(qty)
  <1>1. CASE qty > 0 /\ delta < 0
    BY <1>1 DEF Fill, Abs
  <1>2. CASE qty < 0 /\ delta > 0
    BY <1>2 DEF Fill, Abs
  <1>3. CASE ~(qty > 0 /\ delta < 0) /\ ~(qty < 0 /\ delta > 0)
    BY <1>3 DEF Fill
  <1>4. QED
    BY <1>1, <1>2, <1>3

\* An order of a message planned under REDUCE_ONLY never adds exposure,
\* whatever the snapshot said and whatever filled since.
THEOREM PlanReduces == Spec => ReduceOnlyPlanReduces
  <1>1. IInv /\ [Next]_vars =>
          [pc = "place" /\ effective = "REDUCE_ONLY" /\ position' # position
             => Abs(position') < Abs(position)]_vars
    <2> SUFFICES ASSUME IInv, [Next]_vars, pc = "place",
                        effective = "REDUCE_ONLY", position' # position
                 PROVE  Abs(position') < Abs(position)
      OBVIOUS
    <2>0. position \in Int /\ lots \in Int
      BY ControlAssumption DEF IInv, TypeOK, ControlAssumption
    <2>1. Place
      BY DEF Next, Loop, vars, account, Command, ReadCommands, NoCommands, ReadMode,
             ReadBatch, StartCycle, LatestApprovalGuard, SliceSubmitGuard, SkipSlice, EndCycle,
             Apply, Ack, WriteKey, Approve, Reconcile, GiveUp, Crash, Age
    <2>2. position' = position + Fill(position, lots, TRUE)
      BY <2>1 DEF Place, ReduceOnlyFlag
    <2>3. QED
      BY <2>0, <2>2, FillReduces
  <1>2. QED
    BY <1>1, Reachable, PTL DEF Spec, ReduceOnlyPlanReduces

=============================================================================
