--------------------------- MODULE ControlModes ---------------------------
(***************************************************************************)
(* Control modes in services/execution/app.py: an operator's HALT,         *)
(* REDUCE_ONLY and RESUME travel over ctl.commands into the Redis key      *)
(* ctl.mode; the main loop reads it once before each batch of approved     *)
(* messages and slice_submit_guard reads it again before each order.  In   *)
(* live trading each slice first looks whether the last entry of           *)
(* risk.approved is of another cycle: the entry of a newer portfolio, or   *)
(* of an older one that failed and was added again behind it.              *)
(*                                                                         *)
(* One symbol; a quantity is a number of lots.  Deduplication and tracking *)
(* of orders are in OrderTracker, the count of a message's retries and a   *)
(* crash halfway through a retry in StreamGroup.                           *)
(***************************************************************************)
EXTENDS Integers, Sequences, FiniteSets

CONSTANTS
  Live,        \* V17_LIVE_EXECUTION
  Cycles,      \* cycle ids of portfolios
  BatchSize,   \* count of the XREADGROUP on risk.approved
  MaxSlices,   \* slices of one plan
  DirectModes, \* what operators and scripts write to ctl.mode themselves
  MaxLots,     \* bound of the model: the position stays within -MaxLots .. MaxLots
  MaxCmds,     \* bound of the model: commands sent
  MaxUnread,   \* bound of the model: entries of risk.approved waiting to be read
  MaxFaults    \* bound of the model: restarts, Redis calls that fail, and approved
               \* messages that raise or find no state

ASSUME ControlAssumption ==
  /\ Live \in BOOLEAN
  /\ BatchSize \in Nat \ {0}
  /\ MaxSlices \in Nat \ {0}
  /\ DirectModes \subseteq {"NORMAL", "REDUCE_ONLY", "HALT"}
  /\ MaxLots \in Nat
  /\ MaxCmds \in Nat /\ MaxUnread \in Nat
  /\ MaxFaults \in Nat

VARIABLES
  ctl,        \* the stream ctl.commands
  cursor,     \* last id its group has delivered
  pending,    \* ids delivered and not acknowledged
  idle,       \* those of them idle for at least min_idle_ms
  key,        \* ctl.mode; NORMAL also when the key is absent
  pc,         \* what the main loop does next
  reading,    \* ids of commands read and not yet finished with
  control,    \* control_mode, read before the batch
  last,       \* cycle of the last entry of risk.approved
  unread,     \* cycles of its entries that the group has not delivered
  owed,       \* cycles of those an earlier process was given and did not acknowledge
  batch,      \* cycles of the messages in hand, the current one first
  risk,       \* ap.mode of the current message
  effective,  \* its effective_mode
  held,       \* current_qty: the position in its state snapshot
  lots,       \* signed quantity of each of its slices
  todo,       \* slices still to do
  position,   \* the position at the exchange
  snapshot,   \* the position in latest.state.snapshot
  faults,     \* of those bounded by MaxFaults, so far
  since,      \* history: orders placed since ctl.mode became HALT
  stale       \* history: orders placed for the message since last is not its cycle

group == <<ctl, cursor, pending, idle>>
message == <<risk, effective, held, lots, todo, stale>>
approvals == <<last, unread, owed, batch>>
account == <<position, snapshot>>
vars == <<ctl, cursor, pending, idle, key, pc, reading, control, last, unread, owed,
          batch, risk, effective, held, lots, todo, position, snapshot,
          faults, since, stale>>

Modes == {"NORMAL", "REDUCE_ONLY", "HALT"}
Commands == {"RESUME", "REDUCE_ONLY", "HALT"}
Lots == -MaxLots .. MaxLots
Abs(n) == IF n < 0 THEN -n ELSE n

\* mode_from_command
ModeFromCommand(cmd) == IF cmd = "RESUME" THEN "NORMAL" ELSE cmd

MergeModes(riskMode, controlMode) ==
  CASE controlMode = "HALT" -> "HALT"
    [] controlMode = "REDUCE_ONLY" /\ riskMode = "NORMAL" -> "REDUCE_ONLY"
    [] OTHER -> riskMode

TypeOK ==
  /\ ctl \in Seq(Commands)
  /\ cursor \in 0 .. Len(ctl)
  /\ pending \subseteq 1 .. cursor
  /\ idle \subseteq pending
  /\ key \in Modes
  /\ pc \in {"ctl", "apply", "ack", "mode", "batch", "cycle", "slice", "guard", "place"}
  /\ reading \subseteq pending
  /\ control \in Modes
  /\ last \in Cycles
  /\ unread \in Seq(Cycles)
  /\ owed \in Seq(Cycles)
  /\ batch \in Seq(Cycles)
  /\ risk \in Modes
  /\ effective \in Modes
  /\ held \in Lots
  /\ lots \in Lots
  /\ todo \in 0 .. MaxSlices
  /\ stale \in Nat
  /\ position \in Lots
  /\ snapshot \in Lots
  /\ faults \in 0 .. MaxFaults
  /\ since \in Nat

NoMessage ==
  /\ risk' = "NORMAL"
  /\ effective' = "NORMAL"
  /\ held' = 0
  /\ lots' = 0
  /\ todo' = 0
  /\ stale' = 0

Init ==
  /\ ctl = <<>>
  /\ cursor = 0
  /\ pending = {}
  /\ idle = {}
  /\ key = "NORMAL"
  /\ pc = "ctl"
  /\ reading = {}
  /\ control = "NORMAL"
  /\ last \in Cycles
  /\ unread = <<>>
  /\ owed = <<>>
  /\ batch = <<>>
  /\ risk = "NORMAL"
  /\ effective = "NORMAL"
  /\ held = 0
  /\ lots = 0
  /\ todo = 0
  /\ stale = 0
  /\ position \in Lots
  /\ snapshot = position
  /\ faults = 0
  /\ since = 0

Fault == faults < MaxFaults /\ faults' = faults + 1

-----------------------------------------------------------------------------
(* consume_ctl_commands *)

\* The operator, through openclaw_ops or send_ctl_command.
Command(cmd) ==
  /\ Len(ctl) < MaxCmds
  /\ ctl' = Append(ctl, cmd)
  /\ UNCHANGED <<cursor, pending, idle, key, pc, reading, control, faults, since>>
  /\ UNCHANGED message /\ UNCHANGED approvals /\ UNCHANGED account

\* Variant: the group is read with recover_pending=False.
ReclaimedNone == {}

\* What XAUTOCLAIM finds
Reclaimed == idle

\* xreadgroup_json with a count above every backlog of the model: what idled
\* long enough, or else what is new.
ReadCommands ==
  /\ pc = "ctl"
  /\ \/ /\ Reclaimed # {}
        /\ reading' = Reclaimed
        /\ idle' = {}
        /\ UNCHANGED <<cursor, pending>>
     \/ /\ Reclaimed = {}
        /\ cursor < Len(ctl)
        /\ reading' = cursor + 1 .. Len(ctl)
        /\ pending' = pending \cup reading'
        /\ cursor' = Len(ctl)
        /\ UNCHANGED idle
  /\ pc' = "apply"
  /\ UNCHANGED <<ctl, key, control, faults, since>>
  /\ UNCHANGED message /\ UNCHANGED approvals /\ UNCHANGED account

\* Nothing to read, or safe_xreadgroup_json turned a failure into [].
NoCommands ==
  /\ pc = "ctl"
  /\ \/ Reclaimed = {} /\ cursor = Len(ctl) /\ UNCHANGED faults
     \/ Fault
  /\ pc' = "mode"
  /\ UNCHANGED <<key, reading, control, since>>
  /\ UNCHANGED group /\ UNCHANGED message /\ UNCHANGED approvals /\ UNCHANGED account

First(i) == i \in reading /\ \A j \in reading : i <= j

SetMode(mode) ==
  /\ key' = mode
  /\ since' = IF key = "HALT" /\ mode = "HALT" THEN since ELSE 0

\* The key is written, whatever it holds. A command that cannot be applied goes
\* to dlq.ctl.commands and is acknowledged all the same.
Apply(i) ==
  /\ pc = "apply"
  /\ First(i)
  /\ \/ SetMode(ModeFromCommand(ctl[i])) /\ UNCHANGED faults
     \/ Fault /\ UNCHANGED <<key, since>>
  /\ pc' = "ack"
  /\ UNCHANGED <<reading, control>>
  /\ UNCHANGED group /\ UNCHANGED message /\ UNCHANGED approvals /\ UNCHANGED account

Ack(i) ==
  /\ pc = "ack"
  /\ First(i)
  /\ pending' = pending \ {i}
  /\ reading' = reading \ {i}
  /\ pc' = IF reading = {i} THEN "mode" ELSE "apply"
  /\ UNCHANGED <<ctl, cursor, idle, key, control, faults, since>>
  /\ UNCHANGED message /\ UNCHANGED approvals /\ UNCHANGED account

\* Variant: the mode read before the batch serves all of its orders.
ModeOfBatch(mode) == mode = control /\ UNCHANGED faults

\* get_control_mode: a key that cannot be read counts as NORMAL.
GetControlMode(mode) ==
  \/ mode = key /\ UNCHANGED faults
  \/ mode = "NORMAL" /\ Fault

ReadMode ==
  /\ pc = "mode"
  /\ \E mode \in Modes : GetControlMode(mode) /\ control' = mode
  /\ pc' = "batch"
  /\ UNCHANGED <<key, reading, since>>
  /\ UNCHANGED group /\ UNCHANGED message /\ UNCHANGED approvals /\ UNCHANGED account

-----------------------------------------------------------------------------
(* The batch of approved messages *)

\* safe_xreadgroup_json: what an earlier process left pending, once it is idle
\* long enough, or else what is new, or nothing.
ReadBatch ==
  /\ pc = "batch"
  /\ \/ \E n \in 1 .. Len(owed) :
          /\ n <= BatchSize
          /\ batch' = SubSeq(owed, 1, n)
          /\ owed' = SubSeq(owed, n + 1, Len(owed))
          /\ UNCHANGED unread
     \/ \E n \in 1 .. Len(unread) :
          /\ n <= BatchSize
          /\ batch' = SubSeq(unread, 1, n)
          /\ unread' = SubSeq(unread, n + 1, Len(unread))
          /\ UNCHANGED owed
     \/ UNCHANGED <<unread, owed, batch>>
  /\ pc' = IF batch' = <<>> THEN "ctl" ELSE "cycle"
  /\ UNCHANGED <<key, reading, control, last, faults, since>>
  /\ UNCHANGED group /\ UNCHANGED message /\ UNCHANGED account

\* plan_twap: equal slices, all on one side. Under REDUCE_ONLY a symbol whose
\* target is farther from flat than its position is left out.
Plans(mode, qty) ==
  {plan \in [lots : Lots \ {0}, n : 1 .. MaxSlices] :
     mode = "REDUCE_ONLY" => Abs(qty + plan.lots * plan.n) <= Abs(qty)}

\* cycle_id of the message being worked on
Cycle == Head(batch)

\* An approved message: the mode is merged once, and the snapshot taken once.
\* HALT, a gate, a malformed message or an empty plan leaves nothing to do.
StartCycle ==
  /\ pc = "cycle"
  /\ \E mode \in Modes :
       /\ risk' = mode
       /\ effective' = MergeModes(mode, control)
  /\ held' = snapshot
  /\ \/ todo' = 0 /\ lots' = 0
     \/ /\ effective' # "HALT"
        /\ \E plan \in Plans(effective', snapshot) :
             todo' = plan.n /\ lots' = plan.lots
  /\ stale' = 0
  /\ pc' = "slice"
  /\ UNCHANGED <<key, reading, control, faults, since>>
  /\ UNCHANGED group /\ UNCHANGED approvals /\ UNCHANGED account

\* Variant: the two ids of the stream are compared the wrong way round.
OutdatedNever == FALSE

\* The last entry of risk.approved is of another cycle, and then its id is greater
\* than that of the message. Whether that cycle is the later one is not asked.
Outdated == Live /\ last # Cycle

\* latest_approval_cycle_guard, before each slice: the rest of the plan is dropped
\* when another cycle was approved behind it, or when the stream cannot be read.
LatestApprovalGuard ==
  /\ pc = "slice"
  /\ todo > 0
  /\ \/ Outdated /\ todo' = 0 /\ UNCHANGED <<pc, faults>>
     \/ Live /\ Fault /\ todo' = 0 /\ UNCHANGED pc
     \/ ~Outdated /\ pc' = "guard" /\ UNCHANGED <<todo, faults>>
  /\ UNCHANGED <<key, reading, control, risk, effective, held, lots, since,
                 stale>>
  /\ UNCHANGED group /\ UNCHANGED approvals /\ UNCHANGED account

\* The guard's REDUCE_ONLY test, on the snapshot's position.
Reduces(qty, delta) ==
  /\ qty # 0
  /\ Abs(qty + delta) < Abs(qty)
  /\ qty + delta # 0 => (qty > 0) = (qty + delta > 0)

SliceSubmitGuard ==
  /\ pc = "guard"
  /\ \E mode \in Modes :
       /\ GetControlMode(mode)
       /\ LET sliceMode == MergeModes(risk, mode)
          IN  \/ sliceMode = "HALT" /\ todo' = 0 /\ pc' = "slice"
              \/ /\ sliceMode = "REDUCE_ONLY" /\ ~Reduces(held, lots)
                 /\ todo' = todo - 1
                 /\ pc' = "slice"
              \/ /\ sliceMode # "HALT"
                 /\ sliceMode = "REDUCE_ONLY" => Reduces(held, lots)
                 /\ pc' = "place"
                 /\ UNCHANGED todo
  /\ UNCHANGED <<key, reading, control, risk, effective, held, lots, since, stale>>
  /\ UNCHANGED group /\ UNCHANGED approvals /\ UNCHANGED account

\* The slice has no price or size, was submitted before, or is refused.
SkipSlice ==
  /\ pc = "place"
  /\ todo' = todo - 1
  /\ pc' = "slice"
  /\ UNCHANGED <<key, reading, control, risk, effective, held, lots, faults,
                 since, stale>>
  /\ UNCHANGED group /\ UNCHANGED approvals /\ UNCHANGED account

\* The exchange clips an order flagged reduce_only at flat.
Fill(qty, delta, reduceOnly) ==
  IF ~reduceOnly THEN delta
  ELSE IF qty > 0 /\ delta < 0 THEN (IF qty + delta < 0 THEN -qty ELSE delta)
  ELSE IF qty < 0 /\ delta > 0 THEN (IF qty + delta > 0 THEN -qty ELSE delta)
  ELSE 0

\* Variant: the flag follows the risk engine's mode alone.
FlagOfRisk == risk = "REDUCE_ONLY"

\* reduce_only of the order, from the mode of the message
ReduceOnlyFlag == effective = "REDUCE_ONLY"

\* place_limit, with the flag of the message. The order fills, or does not.
Place ==
  /\ pc = "place"
  /\ position' \in {position, position + Fill(position, lots, ReduceOnlyFlag)}
  /\ position' \in Lots
  /\ todo' = todo - 1
  /\ since' = IF key = "HALT" THEN since + 1 ELSE 0
  /\ stale' = IF last # Cycle THEN stale + 1 ELSE 0
  /\ pc' = "slice"
  /\ UNCHANGED <<key, reading, control, risk, effective, held, lots, snapshot,
                 faults>>
  /\ UNCHANGED group /\ UNCHANGED approvals

\* XACK, and on to the next message of the batch
NextMessage ==
  /\ batch' = Tail(batch)
  /\ pc' = IF batch' = <<>> THEN "ctl" ELSE "cycle"
  /\ NoMessage

EndCycle ==
  /\ pc = "slice"
  /\ todo = 0
  /\ NextMessage
  /\ UNCHANGED <<key, reading, control, last, unread, owed, faults, since>>
  /\ UNCHANGED group /\ UNCHANGED account

\* retry_or_dlq: the message becomes the last entry of risk.approved, whatever was
\* approved since, or, when its retries are used up, goes to its dead letters.
RetryOrDlq ==
  \/ last' = Cycle /\ unread' = Append(unread, Cycle)
  \/ UNCHANGED <<last, unread>>

\* There is no state snapshot, or the handler raises at any point of the plan; the
\* orders already placed stand.
GiveUp ==
  /\ pc \in {"cycle", "slice", "guard", "place"}
  /\ Fault
  /\ RetryOrDlq
  /\ NextMessage
  /\ UNCHANGED <<key, reading, control, owed, since>>
  /\ UNCHANGED group /\ UNCHANGED account

Loop ==
  \/ ReadCommands \/ NoCommands \/ ReadMode \/ ReadBatch \/ StartCycle
  \/ LatestApprovalGuard \/ SliceSubmitGuard \/ SkipSlice \/ Place \/ EndCycle
  \/ \E i \in reading : Apply(i) \/ Ack(i)

-----------------------------------------------------------------------------
(* The environment *)

\* The kill switch of config/v17_live_canary.json, or a start script that
\* resets the mode: the key is written at any time.
WriteKey ==
  /\ \E mode \in DirectModes : SetMode(mode)
  /\ UNCHANGED <<pc, reading, control, faults>>
  /\ UNCHANGED group /\ UNCHANGED message /\ UNCHANGED approvals /\ UNCHANGED account

\* risk_engine approves a portfolio, of a new cycle or of one whose target it was
\* given again.
Approve(cycle) ==
  /\ Len(unread) < MaxUnread
  /\ last' = cycle
  /\ unread' = Append(unread, cycle)
  /\ stale' = IF batch # <<>> /\ cycle = Cycle THEN 0 ELSE stale
  /\ UNCHANGED <<key, pc, reading, control, owed, batch, risk, effective, held, lots,
                 todo, faults, since>>
  /\ UNCHANGED group /\ UNCHANGED account

\* portfolio_state reconciles.
Reconcile ==
  /\ snapshot' = position
  /\ UNCHANGED <<key, pc, reading, control, position, faults, since>>
  /\ UNCHANGED group /\ UNCHANGED message /\ UNCHANGED approvals

\* The process dies and is started again; what it had read stays pending, commands
\* and approved messages alike.
Crash ==
  /\ Fault
  /\ pc' = "ctl"
  /\ reading' = {}
  /\ control' = "NORMAL"
  /\ batch' = <<>>
  /\ owed' \in {owed \o batch, batch \o owed}
  /\ NoMessage
  /\ UNCHANGED <<key, last, unread, since>>
  /\ UNCHANGED group /\ UNCHANGED account

Age(i) ==
  /\ i \in pending \ (idle \cup reading)
  /\ idle' = idle \cup {i}
  /\ UNCHANGED <<ctl, cursor, pending, key, pc, reading, control, faults, since>>
  /\ UNCHANGED message /\ UNCHANGED approvals /\ UNCHANGED account

Next ==
  \/ \E cmd \in Commands : Command(cmd)
  \/ Loop
  \/ WriteKey
  \/ \E cycle \in Cycles : Approve(cycle)
  \/ GiveUp
  \/ Reconcile
  \/ Crash
  \/ \E i \in pending : Age(i)

Spec == Init /\ [][Next]_vars

\* The loop keeps running and time passes; commands and reconciliations are
\* owed by nobody.
FairSpec == Spec /\ WF_vars(Loop) /\ WF_vars(\E i \in pending : Age(i))

-----------------------------------------------------------------------------
(* Properties *)

\* While ctl.mode says HALT at most one more order goes out, the one whose
\* guard had been passed, and one more for every read of the key that failed:
\* the batch read under an older mode does not go on trading.
HaltWithinOneOrder == since <= 1 + faults

\* In live trading a plan is given up for what is approved behind it: while the last
\* entry of risk.approved is of another cycle, at most the order whose guards are
\* already passed still goes out, however many slices the plan has. The stream's
\* order decides and not the age of the portfolios: after a retry the older one is
\* behind, trades on, and the newer one is given up.
ReplacedWithinOneOrder == Live => stale <= 1

\* The position never grows by an order of a message that was planned under
\* REDUCE_ONLY, however old its snapshot is.
ReduceOnlyPlanReduces ==
  [][pc = "place" /\ effective = "REDUCE_ONLY" /\ position' # position
        => Abs(position') < Abs(position)]_vars

\* Every command is consumed in the end: neither a restart nor a failed apply
\* leaves it pending.
CommandsConsumed == <>[](pending = {} /\ cursor = Len(ctl))

=============================================================================
