---------------------------- MODULE FeatureClock ----------------------------
(***************************************************************************)
(* services/market_data/app.py: the loop that samples prices every two     *)
(* seconds and, when the minute has changed, publishes the features of the *)
(* minute that ended on md.features.1m and md.features.15m, and at the top *)
(* of the hour a block on md.features.1h.                                  *)
(*                                                                         *)
(* Time is the wall clock in minutes; a pass of the loop belongs to the    *)
(* minute in which it read the prices.  What the features say is left out: *)
(* a snapshot is the minute it is for, and a block the minute it was made  *)
(* in.  Every local of main is lost when the process dies, the streams are *)
(* not.  A step may raise before or after Redis has done what it asks.     *)
(***************************************************************************)
EXTENDS Integers, SequencesExt

CONSTANTS
  Hour,       \* minutes in an hour
  StartMinute, \* minute in which the history begins
  EndMinute,   \* bound of the model: minute in which it ends
  Streak,     \* ERROR_STREAK_THRESHOLD
  MaxHitches  \* bound of the model: deaths, steps that raise, late steps

ASSUME ClockAssumption ==
  /\ {Hour, StartMinute, EndMinute, Streak} \subseteq Nat \ {0}
  /\ MaxHitches \in Nat

VARIABLES
  now,        \* the minute of the wall clock
  md,         \* the process, see Stopped
  out1m,      \* md.features.1m, the asof_minute of each entry
  out15,      \* md.features.15m, likewise
  out1h,      \* md.features.1h, the minute each block was made in
  failed,     \* history: passes that ended in the handler of exceptions
  hitches,    \* deaths, steps that raise and late steps so far
  lastHitch   \* history: minute of the last hitch or start of a process

clock == <<md, out1m, out15, out1h, failed>>
damage == <<hitches, lastHitch>>

\* Locals of main: step of the pass, now, last_emitted_minute (0 for None), there
\* is some price in mids_hist, error_streak and alarm_on.  missing_this_minute
\* only feeds an audit entry and is left out.
Stopped ==
  [up |-> FALSE, pc |-> "idle", at |-> 0, asof |-> 0, seen |-> FALSE,
   streak |-> 0, alarm |-> FALSE]

ClockInit ==
  /\ now = StartMinute
  /\ md = Stopped
  /\ out1m = <<>>
  /\ out15 = <<>>
  /\ out1h = <<>>
  /\ failed = 0
  /\ hitches = 0
  /\ lastHitch = StartMinute

Hitch ==
  /\ hitches < MaxHitches
  /\ hitches' = hitches + 1
  /\ lastHitch' = now

NoHitch == UNCHANGED damage

-----------------------------------------------------------------------------
(* One pass *)

\* Variant: the minute before the one in progress.
FirstMinuteEnded(t) == t - 1

\* last_emitted_minute after the first pass of a process: the minute in progress.
FirstMinute(t) == t

\* A pass at minute t publishes when the minute has changed.
Due(t, asof) == asof \notin {0, t}

StartClock ==
  /\ ~md.up
  /\ md' = [Stopped EXCEPT !.up = TRUE]
  /\ lastHitch' = now
  /\ UNCHANGED <<out1m, out15, out1h, failed, hitches>>

\* get_all_mids has answered, for none of the universe if there is a hitch; the
\* caches of funding, open interest and books are refreshed as far as the
\* exchange answers.
Sample(some) ==
  /\ md.up /\ md.pc = "idle"
  /\ md' = [md EXCEPT
       !.at = now,
       !.seen = @ \/ some,
       !.asof = IF @ = 0 THEN FirstMinute(now) ELSE @,
       !.pc = IF Due(now, md.asof) THEN "features" ELSE "idle"]
  /\ UNCHANGED <<out1m, out15, out1h, failed>>
  /\ IF some THEN NoHitch ELSE Hitch

\* The features of the universe are computed from the histories and caches.
BuildFeatures ==
  /\ md.pc = "features"
  /\ md' = [md EXCEPT !.pc = "1m"]
  /\ UNCHANGED <<out1m, out15, out1h, failed>>
  /\ NoHitch

Publish1m ==
  /\ md.pc = "1m"
  /\ md' = [md EXCEPT !.pc = "15m"]
  /\ out1m' = Append(out1m, md.asof)
  /\ UNCHANGED <<out15, out1h, failed>>
  /\ NoHitch

\* The snapshot of the quarter goes out every minute, with the same features.
Publish15m ==
  /\ md.pc = "15m"
  /\ md' = [md EXCEPT !.pc = "1h"]
  /\ out15' = Append(out15, md.asof)
  /\ UNCHANGED <<out1m, out1h, failed>>
  /\ NoHitch

\* The block of the hour has a handler of its own, which only logs.
BlockDue == md.at % Hour = 0 /\ md.seen

Publish1h ==
  /\ md.pc = "1h"
  /\ md' = [md EXCEPT !.pc = "audit"]
  /\ out1h' = IF BlockDue THEN Append(out1h, md.at) ELSE out1h
  /\ UNCHANGED <<out1m, out15, failed>>
  /\ NoHitch

BlockFails ==
  /\ md.pc = "1h" /\ BlockDue
  /\ md' = [md EXCEPT !.pc = "audit"]
  /\ out1h' \in {out1h, Append(out1h, md.at)}
  /\ UNCHANGED <<out1m, out15, failed>>
  /\ Hitch

\* The audit entries, missing symbols among them; then the minute is done with,
\* and note_ok.
Finish ==
  /\ md.pc = "audit"
  /\ md' = [md EXCEPT !.asof = md.at, !.streak = 0, !.alarm = FALSE,
                      !.pc = "idle"]
  /\ UNCHANGED <<out1m, out15, out1h, failed>>
  /\ NoHitch

\* A step raises, an XADD perhaps after it was done.  The handler audits the
\* error, note_error, and the loop goes on with the minute not done with.
PassFails(done) ==
  /\ md.up /\ md.pc # "1h"
  /\ md' = [md EXCEPT !.streak = IF @ < Streak THEN @ + 1 ELSE @,
                      !.alarm = @ \/ md.streak + 1 >= Streak,
                      !.pc = "idle"]
  /\ done => md.pc \in {"1m", "15m"}
  /\ out1m' = IF done /\ md.pc = "1m" THEN Append(out1m, md.asof) ELSE out1m
  /\ out15' = IF done /\ md.pc = "15m" THEN Append(out15, md.asof) ELSE out15
  /\ UNCHANGED out1h
  /\ failed' = failed + 1
  /\ Hitch

\* The minute is done with, and then the entry alarm_cleared cannot be written.
ClearingFails ==
  /\ md.pc = "audit" /\ md.alarm
  /\ md' = [md EXCEPT !.asof = md.at, !.streak = 1, !.alarm = Streak = 1,
                      !.pc = "idle"]
  /\ UNCHANGED <<out1m, out15, out1h>>
  /\ failed' = failed + 1
  /\ Hitch

\* The process dies: it is killed, or the handler's own audit raises.
Dies ==
  /\ md.up
  /\ md' = Stopped
  /\ UNCHANGED <<out1m, out15, out1h, failed>>
  /\ Hitch

ClockStep ==
  \/ StartClock
  \/ \E some \in BOOLEAN : Sample(some)
  \/ BuildFeatures
  \/ Publish1m
  \/ Publish15m
  \/ Publish1h
  \/ BlockFails
  \/ Finish
  \/ \E done \in BOOLEAN : PassFails(done)
  \/ ClearingFails
  \/ Dies

\* The loop has nothing left to do in this minute.
ClockRests == md.up => md.pc = "idle" /\ md.asof = now

-----------------------------------------------------------------------------
(* Properties *)

Repeats(seq) == Cardinality({i \in 2 .. Len(seq) : seq[i] = seq[i - 1]})
InOrder(seq) == \A i \in 2 .. Len(seq) : seq[i - 1] <= seq[i]

\* Minutes are published in order, over restarts and a process that dies between
\* its three streams too: no entry is older than the one before, each repeat
\* answers for a failed pass, and md.features.15m is never ahead of md.features.1m.
SnapshotsInOrder ==
  /\ InOrder(out1m) /\ InOrder(out15)
  /\ Repeats(out1m) <= failed /\ Repeats(out15) <= failed
  /\ out15 # <<>> => out1m # <<>> /\ Last(out15) <= Last(out1m)

=============================================================================
