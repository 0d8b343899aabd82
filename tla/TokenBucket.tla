---------------------------- MODULE TokenBucket ----------------------------
(***************************************************************************)
(* The token bucket kept in Redis (shared/hl/rate_limiter.py).  A caller   *)
(* reads its clock, then runs a script that refills the bucket by the time *)
(* since the stored stamp, takes a token if there is one and stores the    *)
(* caller's stamp.  The script is atomic; the reading of the clock and the *)
(* script are not: with two processes on one bucket a call arrives with a  *)
(* stamp older than the stored one, and the stamp goes back.               *)
(*                                                                         *)
(* One tick of clock is the time in which one token is refilled, so the    *)
(* rate is one.                                                            *)
(***************************************************************************)
EXTENDS Integers

CONSTANTS
    Burst,      \* capacity of the bucket
    Expiry,     \* ticks after which Redis forgets an unused key
    MaxClock,   \* bound: ticks
    MaxCalls,   \* bound: tokens granted
    MaxLate     \* bound: ticks by which stamps are late, over all calls

(* execution uses rate = burst / 60 s and the script lets the key live for *)
(* 120 s: a key is not forgotten before it would have been full again.     *)
ASSUME BucketAssumption ==
    /\ Burst \in Nat \ {0}
    /\ Expiry \in Nat
    /\ Burst <= Expiry

VARIABLES
    clock,      \* ticks
    bucket,     \* the hash in Redis: tokens, ts, and when it was written
    granted,    \* calls that got a token
    late        \* sum over the calls of how old their stamp was

bucketVars == <<clock, bucket, granted, late>>

BucketInit ==
    /\ clock = 0
    /\ bucket = [tokens |-> Burst, ts |-> 0, at |-> -Expiry]
    /\ granted = 0
    /\ late = 0

Larger(a, b) == IF a > b THEN a ELSE b
Smaller(a, b) == IF a < b THEN a ELSE b

(* The hash as the script finds it: a forgotten key starts full.           *)
Found(now) ==
    IF clock - bucket.at >= Expiry THEN [tokens |-> Burst, ts |-> now]
                                   ELSE [tokens |-> bucket.tokens, ts |-> bucket.ts]

Refilled(now) ==
    LET b == Found(now) IN Smaller(Burst, b.tokens + Larger(0, now - b.ts))

(* A plausible slip: the tokens are written back without the new stamp.    *)
StoredKeepsStamp(now, tokens) ==
    [tokens |-> tokens, ts |-> Found(now).ts, at |-> clock]

Stored(now, tokens) ==
    [tokens |-> tokens, ts |-> now, at |-> clock]

(* A call whose stamp was read lag ticks ago, and whether it may go on.    *)
Allow(lag, allowed) ==
    LET now == clock - lag
        t == Refilled(now)
    IN  /\ lag <= clock /\ late + lag <= MaxLate
        /\ allowed = (t >= 1)
        /\ allowed => granted < MaxCalls
        /\ bucket' = Stored(now, IF allowed THEN t - 1 ELSE t)
        /\ granted' = IF allowed THEN granted + 1 ELSE granted
        /\ late' = late + lag
        /\ UNCHANGED clock

(* Over any number of calls the tokens granted are at most the burst and   *)
(* what was refilled in the time passed.  A stamp that goes back refills   *)
(* the same time twice, so the bound grows by the lateness of the calls:   *)
(* nothing but that, in particular neither the forgetting of the key nor   *)
(* the order of the calls, grants more.                                    *)
GrantsWithinRate == granted <= Burst + clock + late
=============================================================================
