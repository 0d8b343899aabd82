---------------------------- MODULE FeatureFlow ----------------------------
(***************************************************************************)
(* market_data together with the two layers of services/ai_decision/app.py *)
(* as far as the direction bias goes: Layer 1 turns a block of             *)
(* md.features.1h into a bias that is kept in memory and in Redis, Layer 2 *)
(* reads md.features.15m and decides under a bias that is still valid at   *)
(* the minute of the snapshot, or else under the baseline.                 *)
(*                                                                         *)
(* A bias is the block it was computed from, the minute of its             *)
(* computation, valid_until_minute and the minute at which its key in      *)
(* Redis expires.  What it says is the subject of QuantBias, what Layer 2  *)
(* does with its own messages that of DecisionCycle.                       *)
(***************************************************************************)
EXTENDS FeatureClock

CONSTANTS
  Debounce,   \* LAYER1_DEBOUNCE_MIN
  Ttl         \* expiry of latest.direction_bias, 70 minutes

ASSUME LayersAssumption ==
  /\ {Debounce, Ttl} \subseteq Nat \ {0}
  /\ Debounce < Hour /\ Hour < Ttl

VARIABLES
  ai,         \* the process, see Down
  read1h,     \* entries of md.features.1h its group has delivered
  read15,     \* entries of md.features.15m its group has delivered
  pending15,  \* of those, the ones whose reader died, by their minute
  stamp,      \* layer1_last_decision_ts, 0 when absent
  kept,       \* latest.direction_bias
  decision    \* history: the last decision, its minute and its bias

flow == <<ai, read1h, read15, pending15, stamp, kept, decision>>
flowVars == <<now, md, out1m, out15, out1h, failed, hitches, lastHitch,
              ai, read1h, read15, pending15, stamp, kept, decision>>

NoBias == [block |-> 0, at |-> 0, until |-> 0, gone |-> 0]

\* Locals of main: the half of the loop, the batch of each half, cached_bias.
\* joined: the groups exist, so that entries sent while it is down wait for it.
Down ==
  [up |-> FALSE, joined |-> FALSE, pc |-> "layer1", blocks |-> <<>>,
   snaps |-> <<>>, cached |-> NoBias]

FlowInit ==
  /\ ClockInit
  /\ ai = Down
  /\ read1h = 0
  /\ read15 = 0
  /\ pending15 = {}
  /\ stamp = 0
  /\ kept = NoBias
  /\ decision = [asof |-> 0, bias |-> NoBias]

Least(a, b) == IF a < b THEN a ELSE b
Batch(seq, from, count) == SubSeq(seq, from + 1, Least(from + count, Len(seq)))

-----------------------------------------------------------------------------
(* Layer 1 *)

\* Variant: no second bias within an hour.
DebouncedLong(t) == stamp # 0 /\ t - stamp < Hour

\* process_1h_message does nothing this soon after the last bias.
Debounced(t) == stamp # 0 /\ t - stamp < Debounce

BiasOf(block) ==
  [block |-> block, at |-> now, until |-> now + Hour, gone |-> now + Ttl]

\* At its first start the process creates both groups at the end of the streams.
StartAI ==
  /\ ~ai.up
  /\ ai' = [Down EXCEPT !.up = TRUE, !.joined = TRUE]
  /\ read1h' = IF ai.joined THEN read1h ELSE Len(out1h)
  /\ read15' = IF ai.joined THEN read15 ELSE Len(out15)
  /\ lastHitch' = now
  /\ UNCHANGED <<pending15, stamp, kept, decision, hitches>>

\* Up to five new blocks, pending ones are never asked for.
PollBlocks ==
  /\ ai.up /\ ai.pc = "layer1" /\ ai.blocks = <<>>
  /\ LET got == Batch(out1h, read1h, 5)
     IN  /\ read1h' = read1h + Len(got)
         /\ ai' = [ai EXCEPT !.blocks = got,
                             !.pc = IF got = <<>> THEN "layer2" ELSE @]
  /\ UNCHANGED <<read15, pending15, stamp, kept, decision>>
  /\ NoHitch

\* The reply is lost with the blocks in it; the error is noted, Layer 2 goes on.
PollBlocksFails ==
  /\ ai.up /\ ai.pc = "layer1" /\ ai.blocks = <<>>
  /\ ai' = [ai EXCEPT !.pc = "layer2"]
  /\ read1h' \in {read1h, read1h + Len(Batch(out1h, read1h, 5))}
  /\ UNCHANGED <<read15, pending15, stamp, kept, decision>>
  /\ Hitch

\* The block is acknowledged whatever became of it.
BlockDone(cached) ==
  ai' = [ai EXCEPT !.blocks = Tail(@), !.cached = cached,
                   !.pc = IF Len(ai.blocks) = 1 THEN "layer2" ELSE @]

ProcessBlock ==
  /\ ai.up /\ ai.blocks # <<>>
  /\ IF Debounced(now)
     THEN /\ BlockDone(ai.cached)
          /\ UNCHANGED <<stamp, kept>>
     ELSE LET bias == BiasOf(Head(ai.blocks))
          IN  /\ stamp' = now
              /\ kept' = bias
              /\ BlockDone(bias)
  /\ UNCHANGED <<read1h, read15, pending15, decision>>
  /\ NoHitch

\* Something raises: before the stamp, between the stamp and the key, or when the
\* key has been written.
BlockRaises ==
  /\ ai.up /\ ai.blocks # <<>>
  /\ \/ UNCHANGED <<stamp, kept>>
     \/ ~Debounced(now) /\ stamp' = now /\ UNCHANGED kept
     \/ ~Debounced(now) /\ stamp' = now /\ kept' = BiasOf(Head(ai.blocks))
  /\ BlockDone(ai.cached)
  /\ UNCHANGED <<read1h, read15, pending15, decision>>
  /\ Hitch

-----------------------------------------------------------------------------
(* Layer 2 *)

\* is_direction_bias_valid
Valid(bias, asof) == asof < bias.until

\* get_cached_direction_bias
KeptBias == IF now < kept.gone THEN kept ELSE NoBias

\* The copy in memory, or what Redis has when there is none or it has expired.
Refreshed(asof) == IF Valid(ai.cached, asof) THEN ai.cached ELSE KeptBias

\* A snapshot whose reader died and that has been idle long enough comes before
\* new ones (the model takes one at a time); with none the loop begins again.
PollSnapshots ==
  /\ ai.up /\ ai.pc = "layer2" /\ ai.snaps = <<>>
  /\ \/ \E old \in pending15 :
          /\ ai' = [ai EXCEPT !.snaps = <<old>>]
          /\ pending15' = pending15 \ {old}
          /\ UNCHANGED read15
     \/ LET got == Batch(out15, read15, 10)
        IN  /\ read15' = read15 + Len(got)
            /\ ai' = [ai EXCEPT !.snaps = got,
                                !.pc = IF got = <<>> THEN "layer1" ELSE @]
            /\ UNCHANGED pending15
  /\ UNCHANGED <<read1h, stamp, kept, decision>>
  /\ NoHitch

DecideSnapshot ==
  /\ ai.up /\ ai.snaps # <<>>
  /\ LET asof == Head(ai.snaps)
         bias == Refreshed(asof)
     IN  /\ decision' = [asof |-> asof,
                         bias |-> IF Valid(bias, asof) THEN bias ELSE NoBias]
         /\ ai' = [ai EXCEPT !.snaps = Tail(@), !.cached = bias,
                             !.pc = IF Len(ai.snaps) = 1 THEN "layer1" ELSE @]
  /\ UNCHANGED <<read1h, read15, pending15, stamp, kept>>
  /\ NoHitch

\* The process dies. Blocks in hand are lost, snapshots stay pending.
AIDies ==
  /\ ai.up
  /\ ai' = [Down EXCEPT !.joined = TRUE]
  /\ pending15' = pending15 \cup Range(ai.snaps)
  /\ UNCHANGED <<read1h, read15, stamp, kept, decision>>
  /\ Hitch

AIStep ==
  \/ StartAI
  \/ PollBlocks
  \/ PollBlocksFails
  \/ ProcessBlock
  \/ BlockRaises
  \/ PollSnapshots
  \/ DecideSnapshot
  \/ AIDies

\* Both streams have been read to their end.
AIRests ==
  ai.up =>
    /\ read1h = Len(out1h) /\ ai.blocks = <<>>
    /\ read15 = Len(out15) /\ ai.snaps = <<>>

-----------------------------------------------------------------------------
(* The minute hand *)

\* Both loops take seconds, so a minute passes when what is up has nothing left
\* to do in it; a slow answer is a hitch.
Tick ==
  /\ now < EndMinute
  /\ now' = now + 1
  /\ IF ClockRests /\ AIRests THEN NoHitch
     ELSE /\ hitches < MaxHitches
          /\ hitches' = hitches + 1
          /\ lastHitch' = now + 1
  /\ UNCHANGED <<md, out1m, out15, out1h, failed, ai, read1h, read15, pending15,
                 stamp, kept, decision>>

FlowNext ==
  \/ ClockStep /\ UNCHANGED now /\ UNCHANGED flow
  \/ AIStep /\ UNCHANGED <<now, md, out1m, out15, out1h, failed>>
  \/ Tick

FlowSpec == FlowInit /\ [][FlowNext]_flowVars

-----------------------------------------------------------------------------
(* Properties *)

HourOf(t) == t - (t % Hour)

\* An hour and a debounce after the last hitch or start, every decision rests on
\* the block of the hour of its snapshot, or on the next one when that was made
\* in the minute in which the snapshot came out: the blocks, the debounce, the
\* validity of sixty minutes and the copy of the bias in memory leave no minute
\* without a direction and none under that of an hour gone by.
CurrentBlockGuides ==
  decision.asof >= lastHitch + Hour + Debounce =>
    decision.bias.block \in {HourOf(decision.asof), HourOf(decision.asof + 1)}

=============================================================================
