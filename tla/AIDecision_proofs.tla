------------------------ MODULE AIDecision_proofs ------------------------
(***************************************************************************)
(* Theorems about services/ai_decision/app.py.  First the decision cycle,  *)
(* for every number of messages, days and faults and every threshold: its  *)
(* types, the daily cap, the distance between rebalances, and what a       *)
(* cooldown takes.  Then the two layers together with market_data, for     *)
(* every length of the hour, the debounce and the history: the order of    *)
(* the snapshots, and the block a decision rests on.                       *)
(***************************************************************************)
EXTENDS DecisionCycle, FeatureFlow, FiniteSetTheorems, TLAPS

\* A message is in hand at every step but the first, and decided upon from
\* Decide on.
InHand ==
  /\ pc # "idle" => cur # 0
  /\ pc \in {"count", "major"} => act = "REBALANCE"
  /\ pc = "publish" => act # "none"

-----------------------------------------------------------------------------
(* Types *)

LEMMA ConstantTypes ==
  /\ Cycles \in Nat \ {0} /\ Days \in Nat \ {0} /\ Interval \in Nat \ {0}
  /\ Expiry \in Nat \ {0} /\ MaxTrades \in Nat \ {0} /\ Threshold \in Nat \ {0}
  /\ Window \in Nat /\ MaxFaults \in Nat
  <1>1. /\ {Cycles, Days, Interval, Expiry, MaxTrades, Threshold} \subseteq Nat \ {0}
        /\ {Window, MaxFaults} \subseteq Nat
    BY DecisionAssumption
  <1>2. QED
    BY <1>1, Zenon

LEMMA HeadTailType ==
  ASSUME NEW S, NEW s \in Seq(S), s # <<>>
  PROVE  Head(s) \in S /\ Tail(s) \in Seq(S)
  OBVIOUS

LEMMA AppendType ==
  ASSUME NEW S, NEW s \in Seq(S), NEW e \in S
  PROVE  Append(s, e) \in Seq(S) /\ <<e>> \in Seq(S) /\ <<>> \in Seq(S)
  OBVIOUS

LEMMA ConcatType ==
  ASSUME NEW S, NEW s \in Seq(S), NEW t \in Seq(S)
  PROVE  s \o t \in Seq(S)
  OBVIOUS

LEMMA SeqGrows ==
  ASSUME NEW S, NEW T, S \subseteq T, NEW s \in Seq(S)
  PROVE  s \in Seq(T)
  OBVIOUS

LEMMA SubSeqType ==
  ASSUME NEW S, NEW s \in Seq(S), NEW m \in Nat, NEW n \in Nat, m >= 1, n <= Len(s)
  PROVE  SubSeq(s, m, n) \in Seq(S)
  OBVIOUS

Flags == capped \in BOOLEAN /\ emergency \in BOOLEAN /\ cooldown \in BOOLEAN

LEMMA FlagsStep ==
  ASSUME TypeOK, Flags, [Next]_vars
  PROVE  Flags'
  <1> USE DEF Flags
  <1>1. CASE Take
    <2>1. CapReached \in BOOLEAN
      BY DecisionAssumption DEF CapReached, TypeOK
    <2>2. QED
      BY <1>1, <2>1, Zenon DEF Take, keys
  <1>2. CASE CheckPrice
    BY <1>2, Zenon DEF CheckPrice, EmergencyNow, FallsFrom, keys
  <1>3. CASE Reversal
    BY <1>3, Zenon DEF Reversal, TooMany, locals
  <1>4. CASE Decide \/ CountTrade \/ Publish \/ SetLatest \/ SetMajor
    BY <1>4, Zenon DEF Decide, CountTrade, Publish, SetLatest, SetMajor, locals, keys
  <1>5. CASE Ack \/ RetryOrDlq \/ HandlerRaises \/ Crash
    BY <1>5, Zenon DEF Ack, RetryOrDlq, HandlerRaises, Crash, Forget, locals, keys
  <1>6. CASE Feature \/ NextDay \/ CooldownEnds \/ MajorExpires \/ UNCHANGED vars
    BY <1>6, Zenon DEF Feature, NextDay, CooldownEnds, MajorExpires, vars, locals, keys
  <1>7. QED
    BY <1>1, <1>2, <1>3, <1>4, <1>5, <1>6 DEF Next, Handler

LEMMA TypeStep ==
  ASSUME TypeOK, InHand, [Next]_vars
  PROVE  TypeOK' /\ InHand'
  <1>0. capped' \in BOOLEAN /\ emergency' \in BOOLEAN /\ cooldown' \in BOOLEAN
    BY FlagsStep DEF Flags, TypeOK
  <1> USE <1>0, ConstantTypes DEF InHand, Signs, CycleIds
  <1>1. CASE Take
    <2>1. /\ inbox' \in Seq(1 .. sent) /\ pending' \in Seq(1 .. sent)
          /\ cur' \in 1 .. sent
      <3>1. inbox \in Seq(1 .. sent) /\ pending \in Seq(1 .. sent)
        BY DEF TypeOK
      <3>2. QED
        BY <1>1, <3>1, HeadTailType DEF Take
    <2>2. QED
      BY <1>1, <2>1, SMTT(30) DEF Take, TypeOK, keys, history
  <1>2. CASE CheckPrice
    <2>1. lastPx' \in {"high", "low"}
      <3>1. cur \in 1 .. Cycles
        BY <1>2 DEF CheckPrice, TypeOK
      <3>2. QED
        BY <1>2, <3>1 DEF CheckPrice, TypeOK
    <2>2. QED
      BY <1>2, <2>1 DEF CheckPrice, TypeOK, queues, keys, history
  <1>3. CASE Reversal
    BY <1>3 DEF Reversal, TooMany, Recent, TypeOK, queues, locals
  <1>4. CASE Decide
    BY <1>4 DEF Decide, TypeOK, queues, keys, history
  <1>5. CASE CountTrade
    <2>1. count' \in [1 .. Days -> Nat]
      <3>1. count[day] + 1 \in Nat
        BY DEF TypeOK
      <3>2. QED
        BY <1>5, <3>1 DEF CountTrade, TypeOK
    <2>2. QED
      BY <1>5, <2>1 DEF CountTrade, TypeOK, queues, history
  <1>6. CASE Publish
    <2>1. [cycle |-> cur, at |-> sent, act |-> act, day |-> tradeDay] \in Decision
      BY <1>6 DEF Publish, Decision, TypeOK
    <2>2. published' \in Seq(Decision)
      BY <1>6, <2>1, AppendType DEF Publish, TypeOK
    <2>3. /\ pc' = "latest" /\ cur # 0
          /\ UNCHANGED <<px, sent, inbox, pending, cur, lastPx, act, dir, tradeDay, latest,
                        lastMajor, majorAt, count, reversals, day, faults, unmarked, turned>>
      BY <1>6 DEF Publish, queues, locals, keys
    <2>4. TypeOK'
      BY <2>2, <2>3 DEF TypeOK
    <2>5. QED
      BY <2>3, <2>4
  <1>7. CASE SetLatest
    BY <1>7 DEF SetLatest, TypeOK, queues, locals, history
  <1>8. CASE SetMajor
    BY <1>8 DEF SetMajor, TypeOK, queues, locals, history
  <1>9. CASE Ack
    BY <1>9 DEF Ack, TypeOK, Forget, queues, keys, history
  <1>10. CASE RetryOrDlq
    <2>1. cur \in 1 .. sent /\ inbox \in Seq(1 .. sent)
      BY <1>10 DEF RetryOrDlq, TypeOK
    <2>2. inbox' \in Seq(1 .. sent)
      BY <1>10, <2>1, AppendType DEF RetryOrDlq, Copy
    <2>3. QED
      BY <1>10, <2>2 DEF RetryOrDlq, TypeOK, locals, keys, history
  <1>11. CASE HandlerRaises
    BY <1>11 DEF HandlerRaises, TypeOK, Unmarked, Fault, queues, locals, keys
  <1>12. CASE Crash
    <2> DEFINE mine == IF cur = 0 THEN <<>> ELSE <<cur>>
    <2>1. inbox \in Seq(1 .. sent) /\ pending \in Seq(1 .. sent) /\ cur \in 0 .. sent
      BY DEF TypeOK
    <2>2. PICK n \in 0 .. Len(inbox) :
            /\ \/ pending' = mine \o pending \o SubSeq(inbox, 1, n)
               \/ pending' = pending \o mine \o SubSeq(inbox, 1, n)
            /\ inbox' = SubSeq(inbox, n + 1, Len(inbox))
      BY <1>12 DEF Crash
    <2>3. mine \in Seq(1 .. sent)
      <3>1. CASE cur = 0
        BY <3>1
      <3>2. CASE cur # 0
        BY <2>1, <3>2, AppendType
      <3>3. QED
        BY <3>1, <3>2
    <2>4. /\ SubSeq(inbox, 1, n) \in Seq(1 .. sent)
          /\ SubSeq(inbox, n + 1, Len(inbox)) \in Seq(1 .. sent)
      <3>1. Len(inbox) \in Nat /\ n \in Nat /\ n <= Len(inbox)
        BY <2>1
      <3>2. n + 1 \in Nat /\ n + 1 >= 1 /\ 1 >= 1 /\ Len(inbox) <= Len(inbox) /\ 1 \in Nat
        BY <3>1
      <3>3. SubSeq(inbox, 1, n) \in Seq(1 .. sent)
        BY <2>1, <3>1, <3>2, SubSeqType
      <3>4. SubSeq(inbox, n + 1, Len(inbox)) \in Seq(1 .. sent)
        BY ONLY <2>1, <3>1, <3>2, SubSeqType
      <3>5. QED
        BY <3>3, <3>4
    <2> HIDE DEF mine
    <2>5. inbox' \in Seq(1 .. sent) /\ pending' \in Seq(1 .. sent)
      <3>1. mine \o pending \in Seq(1 .. sent) /\ pending \o mine \in Seq(1 .. sent)
        BY <2>1, <2>3, ConcatType
      <3>2. /\ mine \o pending \o SubSeq(inbox, 1, n) \in Seq(1 .. sent)
            /\ pending \o mine \o SubSeq(inbox, 1, n) \in Seq(1 .. sent)
        BY <2>4, <3>1, ConcatType
      <3>3. QED
        BY <2>2, <2>4, <3>2
    <2>6. unmarked' \subseteq CycleIds
      BY <1>12 DEF Crash, Unmarked, TypeOK
    <2>7. UNCHANGED <<px, sent, latest, lastMajor, majorAt, count, reversals, day, published,
                      turned>>
      BY <1>12 DEF Crash, keys
    <2>8. /\ pc' = "idle" /\ cur' = 0 /\ lastPx' = "none" /\ act' = "none" /\ dir' = 0
          /\ tradeDay' = 0 /\ faults' \in 0 .. MaxFaults
          /\ published \in Seq(Decision)
      BY <1>12 DEF Crash, Fault, Forget, TypeOK
    <2>9. QED
      BY <2>5, <2>6, <2>7, <2>8 DEF TypeOK
  <1>13. CASE Feature
    <2>1. sent' = sent + 1 /\ sent' \in 1 .. Cycles /\ 1 .. sent \subseteq 1 .. sent'
      BY <1>13 DEF Feature, TypeOK
    <2>2. inbox \in Seq(1 .. sent') /\ pending \in Seq(1 .. sent')
      BY <2>1, SeqGrows DEF TypeOK
    <2>3. inbox' \in Seq(1 .. sent') /\ pending' \in Seq(1 .. sent')
      <3>1. sent + 1 \in 1 .. sent'
        BY <2>1
      <3>2. Append(inbox, sent + 1) \in Seq(1 .. sent')
        BY <2>2, <3>1, AppendType
      <3>3. inbox' \in {inbox, Append(inbox, sent + 1)} /\ pending' = pending
        BY <1>13 DEF Feature
      <3>4. QED
        BY <2>2, <3>2, <3>3
    <2>4. UNCHANGED <<px, pc, cur, lastPx, act, dir, tradeDay, latest, lastMajor, majorAt,
                      count, reversals, day, faults, published, unmarked, turned>>
      BY <1>13 DEF Feature, locals, keys, history
    <2>5. QED
      BY <2>1, <2>3, <2>4 DEF TypeOK
  <1>14. CASE NextDay
    BY <1>14 DEF NextDay, TypeOK, queues, locals, keys, history
  <1>15. CASE CooldownEnds
    BY <1>15 DEF CooldownEnds, TypeOK, queues, locals, history
  <1>16. CASE MajorExpires
    BY <1>16 DEF MajorExpires, TypeOK, queues, locals, history
  <1>17. CASE UNCHANGED vars
    BY <1>17 DEF vars, TypeOK
  <1>18. QED
    BY <1>1, <1>2, <1>3, <1>4, <1>5, <1>6, <1>7, <1>8, <1>9, <1>10, <1>11, <1>12,
       <1>13, <1>14, <1>15, <1>16, <1>17 DEF Next, Handler

LEMMA TypeInit ==
  ASSUME Init
  PROVE  TypeOK /\ InHand
  <1> USE DecisionAssumption DEF Init, Signs, CycleIds
  <1>1. capped \in BOOLEAN /\ emergency \in BOOLEAN /\ cooldown \in BOOLEAN
    BY Zenon
  <1>2. inbox \in Seq(1 .. sent) /\ pending \in Seq(1 .. sent) /\ published \in Seq(Decision)
    OBVIOUS
  <1>3. count \in [1 .. Days -> Nat] /\ day \in 1 .. Days
    OBVIOUS
  <1>4. QED
    BY <1>1, <1>2, <1>3 DEF TypeOK, InHand

\* The variables keep their types.
THEOREM TypeCorrect == Spec => []TypeOK
  <1>1. TypeOK /\ InHand /\ [Next]_vars => TypeOK' /\ InHand'
    BY TypeStep
  <1>2. QED
    BY <1>1, TypeInit, PTL DEF Spec

-----------------------------------------------------------------------------
(* Cooldowns *)

LEMMA TurnedStep ==
  ASSUME reversals \subseteq turned, [Next]_vars
  PROVE  (reversals \subseteq turned)'
  <1>1. CASE Reversal
    BY <1>1 DEF Reversal
  <1>2. CASE Take \/ CheckPrice \/ Decide \/ CountTrade \/ Publish \/ SetLatest
             \/ SetMajor \/ Ack \/ RetryOrDlq \/ HandlerRaises \/ Crash \/ Feature
             \/ NextDay \/ CooldownEnds \/ MajorExpires \/ UNCHANGED vars
    BY <1>2 DEF Take, CheckPrice, Decide, CountTrade, Publish, SetLatest, SetMajor, Ack,
      RetryOrDlq, HandlerRaises, Crash, Feature, NextDay, CooldownEnds, MajorExpires, vars,
      keys, history
  <1>3. QED
    BY <1>1, <1>2 DEF Next, Handler

\* Only Reversal starts a cooldown, by the stored reversals, all of which were
\* cycles with an opposite signal.
LEMMA CooldownStep ==
  ASSUME TypeOK, TypeOK', reversals \subseteq turned, [Next]_vars, ~cooldown, cooldown'
  PROVE  Cardinality({c \in turned' : cur - Window <= c /\ c <= cur}) >= Threshold
  <1> DEFINE recent == {c \in reversals' : cur - Window <= c /\ c <= cur}
             opposite == {c \in turned' : cur - Window <= c /\ c <= cur}
  <1>1. Reversal
    BY DEF Next, Handler, Take, CheckPrice, Decide, CountTrade, Publish, SetLatest,
      SetMajor, Ack, RetryOrDlq, HandlerRaises, Crash, Feature, NextDay, CooldownEnds,
      MajorExpires, vars, keys
  <1>2. Cardinality(recent) >= Threshold
    BY <1>1 DEF Reversal, TooMany, Recent
  <1>3. recent \subseteq opposite
    BY TurnedStep
  <1>4. IsFiniteSet(opposite)
    <2>1. opposite \subseteq 1 .. Cycles
      BY DEF TypeOK, CycleIds
    <2>2. IsFiniteSet(1 .. Cycles)
      BY ConstantTypes, FS_Interval
    <2>3. QED
      BY <2>1, <2>2, FS_Subset
  <1>5. Cardinality(recent) \in Nat /\ Cardinality(opposite) \in Nat
        /\ Cardinality(recent) <= Cardinality(opposite)
    <2> HIDE DEF recent, opposite
    <2>1. QED
      BY <1>3, <1>4, FS_Subset, FS_CardinalityType
  <1>6. QED
    BY <1>2, <1>5, ConstantTypes

\* A cooldown takes DIRECTION_REVERSAL_THRESHOLD different cycles within the
\* window whose signals were opposite to the target.
THEOREM CooldownAlwaysEarned == Spec => CooldownEarned
  <1> DEFINE I == TypeOK /\ InHand /\ reversals \subseteq turned
  <1>1. Init => I
    BY TypeInit DEF Init
  <1>2. I /\ [Next]_vars => I'
    BY TypeStep, TurnedStep
  <1>3. I /\ I' /\ [Next]_vars =>
          [~cooldown /\ cooldown' =>
             Cardinality({c \in turned' : cur - Window <= c /\ c <= cur}) >= Threshold]_vars
    BY CooldownStep
  <1> HIDE DEF I
  <1>4. QED
    BY <1>1, <1>2, <1>3, PTL DEF Spec, CooldownEarned

-----------------------------------------------------------------------------
(* The daily cap *)

\* A REBALANCE that is counted and not yet published.
Owed(d) == IF pc = "publish" /\ act = "REBALANCE" /\ tradeDay = d THEN 1 ELSE 0

\* What makes DailyCapBinds inductive: a trade is counted before it is published,
\* days to come have no trades, and a decision that is not capped finds room on
\* whatever day it is counted.
CapSafe ==
  /\ \A d \in 1 .. Days :
       /\ Cardinality(TradesOn(d)) + Owed(d) <= count[d]
       /\ count[d] <= MaxTrades
       /\ d > day => count[d] = 0
  /\ pc \in {"price", "reversal", "decide", "count"} /\ ~capped => count[day] < MaxTrades
  /\ pc = "count" => ~capped
  /\ pc = "publish" /\ act = "REBALANCE" => tradeDay # 0
  /\ \A i \in Rebalances : published[i].day # 0

LEMMA TradesFinite ==
  ASSUME TypeOK, NEW d
  PROVE  IsFiniteSet(TradesOn(d)) /\ Cardinality(TradesOn(d)) \in Nat
  <1>1. DOMAIN published = 1 .. Len(published) /\ Len(published) \in Nat
    BY DEF TypeOK
  <1>2. TradesOn(d) \subseteq 1 .. Len(published)
    BY <1>1 DEF TradesOn, Rebalances
  <1>3. IsFiniteSet(1 .. Len(published))
    BY <1>1, FS_Interval
  <1>4. IsFiniteSet(TradesOn(d))
    BY <1>2, <1>3, FS_Subset
  <1>5. QED
    BY <1>4, FS_CardinalityType

\* The publication of a decision adds at most itself to the trades of its day.
LEMMA PublishTrades ==
  ASSUME TypeOK, Publish
  PROVE  /\ Rebalances' = Rebalances \cup (IF act = "REBALANCE"
                                           THEN {Len(published) + 1} ELSE {})
         /\ Len(published) + 1 \notin DOMAIN published
         /\ published'[Len(published) + 1].day = tradeDay
         /\ published'[Len(published) + 1].cycle = cur
         /\ published'[Len(published) + 1].at = sent
         /\ \A i \in DOMAIN published : published'[i] = published[i]
  <1> DEFINE e == [cycle |-> cur, at |-> sent, act |-> act, day |-> tradeDay]
  <1>1. published' = Append(published, e)
    BY DEF Publish
  <1>2. e.act = act /\ e.day = tradeDay /\ e.cycle = cur /\ e.at = sent
    OBVIOUS
  <1> HIDE DEF e
  <1>3. /\ DOMAIN published' = DOMAIN published \cup {Len(published) + 1}
        /\ Len(published) + 1 \notin DOMAIN published
        /\ published'[Len(published) + 1] = e
        /\ \A i \in DOMAIN published : published'[i] = published[i]
    BY <1>1 DEF TypeOK
  <1>4. Rebalances' = Rebalances \cup (IF act = "REBALANCE" THEN {Len(published) + 1} ELSE {})
    BY <1>2, <1>3 DEF Rebalances
  <1>5. QED
    BY <1>2, <1>3, <1>4

LEMMA CapStep ==
  ASSUME TypeOK, InHand, CapSafe, [Next]_vars
  PROVE  CapSafe'
  <1>0. /\ \A d : Cardinality(TradesOn(d)) \in Nat
        /\ \A d \in 1 .. Days : count[d] \in Nat
        /\ day \in 1 .. Days /\ MaxTrades \in Nat /\ MaxTrades >= 1
    BY TradesFinite, ConstantTypes DEF TypeOK
  <1>1. CASE Publish
    <2>1. UNCHANGED <<count, day, capped>> /\ pc' = "latest" /\ pc = "publish"
      BY <1>1 DEF Publish, locals, keys
    <2>2. ASSUME NEW d \in 1 .. Days
          PROVE  /\ Cardinality(TradesOn(d))' \in Nat
                 /\ Cardinality(TradesOn(d))' <= Cardinality(TradesOn(d)) + Owed(d)
      <3>1. CASE Owed(d) = 1
        <4>1. TradesOn(d)' = TradesOn(d) \cup {Len(published) + 1}
          BY <1>1, <3>1, PublishTrades DEF Owed, TradesOn, Rebalances
        <4>2. Len(published) + 1 \notin TradesOn(d)
          BY <1>1, PublishTrades DEF TradesOn, Rebalances
        <4>3. Cardinality(TradesOn(d))' = Cardinality(TradesOn(d)) + 1
          BY <4>1, <4>2, TradesFinite, FS_AddElement
        <4>4. QED
          BY <1>0, <3>1, <4>3
      <3>2. CASE Owed(d) # 1
        <4>1. TradesOn(d)' = TradesOn(d) /\ Owed(d) = 0
          BY <1>1, <2>1, <3>2, PublishTrades DEF Owed, TradesOn, Rebalances
        <4>2. QED
          BY <1>0, <4>1
      <3>3. QED
        BY <3>1, <3>2
    <2>3. \A i \in Rebalances' : published'[i].day # 0
      BY <1>1, <2>1, PublishTrades DEF CapSafe, Rebalances
    <2>4. \A d \in 1 .. Days : Owed(d)' = 0 /\ Owed(d) \in Nat
      BY <2>1 DEF Owed
    <2>5. QED
      BY <1>0, <2>1, <2>2, <2>3, <2>4 DEF CapSafe
  <1>2. CASE ~Publish
    <2>1. UNCHANGED published
      BY <1>2 DEF Next, Handler, Take, CheckPrice, Reversal, Decide, CountTrade, SetLatest,
        SetMajor, Ack, RetryOrDlq, HandlerRaises, Crash, Feature, NextDay, CooldownEnds,
        MajorExpires, vars, history
    <2>2. UNCHANGED Rebalances /\ \A d : UNCHANGED TradesOn(d)
      BY <2>1 DEF Rebalances, TradesOn
    <2>3. CASE CountTrade
      <3>1. /\ pc = "count" /\ pc' = "publish" /\ tradeDay' = day
            /\ UNCHANGED <<act, day, capped>>
            /\ count' = [count EXCEPT ![day] = @ + 1]
        BY <2>3 DEF CountTrade
      <3>2. count[day] < MaxTrades
        BY <3>1 DEF CapSafe
      <3>3. \A d \in 1 .. Days : count'[d] = IF d = day THEN count[d] + 1 ELSE count[d]
        BY <3>1 DEF TypeOK
      <3>4. ASSUME NEW d \in 1 .. Days
            PROVE  /\ Cardinality(TradesOn(d))' + Owed(d)' <= count'[d]
                   /\ count'[d] <= MaxTrades
                   /\ d > day' => count'[d] = 0
        <4>1. Cardinality(TradesOn(d))' = Cardinality(TradesOn(d))
          BY <2>2
        <4>2. /\ Cardinality(TradesOn(d)) + Owed(d) <= count[d] /\ count[d] <= MaxTrades
              /\ d > day => count[d] = 0
          BY DEF CapSafe
        <4>3. Owed(d) = 0
          BY <3>1 DEF Owed
        <4>4. CASE d = day
          <5>1. Owed(d)' \in {0, 1}
            BY DEF Owed
          <5>2. QED
            BY <1>0, <3>1, <3>2, <3>3, <4>1, <4>2, <4>3, <4>4, <5>1
        <4>5. CASE d # day
          <5>1. Owed(d)' = 0
            BY <3>1, <4>5 DEF Owed
          <5>2. QED
            BY <1>0, <3>1, <3>3, <4>1, <4>2, <4>3, <4>5, <5>1
        <4>6. QED
          BY <4>4, <4>5
      <3>5. day' # 0
        BY <1>0, <3>1
      <3>6. QED
        BY <1>0, <2>1, <2>2, <3>1, <3>4, <3>5 DEF CapSafe
    <2>4. CASE Take
      <3>1. /\ pc = "idle" /\ pc' = "price" /\ UNCHANGED <<count, day>>
            /\ ~capped' => count[day] < MaxTrades
        <4>1. pc = "idle" /\ pc' = "price" /\ UNCHANGED <<count, day>>
          BY <2>4 DEF Take, keys
        <4>2. capped' = (count[day] >= MaxTrades)
          BY <2>4, Zenon DEF Take, CapReached
        <4>3. count[day] >= MaxTrades \/ count[day] < MaxTrades
          BY <1>0
        <4>4. QED
          BY <4>1, <4>2, <4>3, Zenon
      <3>2. \A d \in 1 .. Days : Owed(d) = 0 /\ Owed(d)' = 0
        BY <3>1 DEF Owed
      <3>3. QED
        BY <2>1, <2>2, <3>1, <3>2 DEF CapSafe
    <2>5. CASE NextDay
      <3>1. day' = day + 1 /\ day' \in 1 .. Days /\ UNCHANGED <<pc, capped, act, tradeDay, count>>
        <4>1. day' = day + 1 /\ day < Days
          BY <2>5 DEF NextDay
        <4>2. UNCHANGED <<pc, capped, act, tradeDay, count>>
          BY <2>5 DEF NextDay, locals, keys
        <4>3. QED
          BY <1>0, <4>1, <4>2, ConstantTypes
      <3>2. count[day'] = 0
        BY <1>0, <3>1 DEF CapSafe
      <3>3. \A d \in 1 .. Days : Owed(d)' = Owed(d)
        BY <3>1 DEF Owed
      <3>4. QED
        BY <1>0, <2>1, <2>2, <3>1, <3>2, <3>3 DEF CapSafe
    <2>6. CASE Decide
      <3>1. UNCHANGED <<count, day, capped>> /\ pc = "decide"
        BY <2>6 DEF Decide, keys
      <3>2. /\ pc' = "count" => ~capped
            /\ pc' = "publish" => act' = "HOLD"
            /\ pc' \in {"count", "publish"}
        BY <2>6 DEF Decide
      <3>3. \A d \in 1 .. Days : Owed(d) = 0 /\ Owed(d)' = 0
        BY <3>1, <3>2 DEF Owed
      <3>4. QED
        BY <2>1, <2>2, <3>1, <3>2, <3>3 DEF CapSafe
    <2>7. CASE CheckPrice \/ Reversal
      <3>1. /\ pc \in {"price", "reversal"} /\ pc' \in {"reversal", "decide"}
            /\ UNCHANGED <<count, day, capped>>
        BY <2>7 DEF CheckPrice, Reversal, locals, keys
      <3>2. \A d \in 1 .. Days : Owed(d) = 0 /\ Owed(d)' = 0
        BY <3>1 DEF Owed
      <3>3. QED
        BY <2>1, <2>2, <3>1, <3>2 DEF CapSafe
    <2>8. CASE SetLatest \/ SetMajor \/ Ack \/ RetryOrDlq \/ HandlerRaises \/ Crash
      <3>1. /\ pc' \in {"idle", "major", "ack", "retry"}
            /\ UNCHANGED <<count, day>>
        BY <2>8 DEF SetLatest, SetMajor, Ack, RetryOrDlq, HandlerRaises, Crash, keys
      <3>2. \A d \in 1 .. Days : Owed(d) \in Nat /\ Owed(d)' = 0
        BY <3>1 DEF Owed
      <3>3. QED
        BY <1>0, <2>1, <2>2, <3>1, <3>2 DEF CapSafe
    <2>9. CASE Feature \/ CooldownEnds \/ MajorExpires \/ UNCHANGED vars
      <3>1. UNCHANGED <<pc, act, tradeDay, capped, count, day>>
        BY <2>9 DEF Feature, CooldownEnds, MajorExpires, vars, locals, keys
      <3>2. \A d \in 1 .. Days : Owed(d)' = Owed(d)
        BY <3>1 DEF Owed
      <3>3. QED
        BY <2>1, <2>2, <3>1, <3>2 DEF CapSafe
    <2>10. QED
      BY <1>2, <2>3, <2>4, <2>5, <2>6, <2>7, <2>8, <2>9 DEF Next, Handler
  <1>3. QED
    BY <1>1, <1>2

\* No more than MAX_TRADES_PER_DAY REBALANCEs are published on one day's count,
\* and none that is not counted.
THEOREM DailyCapAlwaysBinds == Spec => []DailyCapBinds
  <1> DEFINE I == TypeOK /\ InHand /\ CapSafe
  <1>1. Init => I
    <2> SUFFICES ASSUME Init PROVE I
      OBVIOUS
    <2>1. Rebalances = {} /\ \A d : TradesOn(d) = {}
      BY DEF Init, Rebalances, TradesOn
    <2>2. \A d : Cardinality(TradesOn(d)) = 0
      BY <2>1, FS_EmptySet
    <2>3. \A d \in 1 .. Days : Owed(d) = 0 /\ count[d] = 0
      BY DEF Init, Owed
    <2>4. CapSafe
      BY <2>1, <2>2, <2>3, ConstantTypes DEF Init, CapSafe
    <2>5. QED
      BY <2>4, TypeInit
  <1>2. I /\ [Next]_vars => I'
    BY TypeStep, CapStep
  <1>3. I => DailyCapBinds
    <2> SUFFICES ASSUME I PROVE DailyCapBinds
      OBVIOUS
    <2>1. \A d \in 1 .. Days :
            Cardinality(TradesOn(d)) \in Nat /\ Owed(d) \in Nat /\ count[d] \in Nat
      BY TradesFinite DEF Owed, TypeOK
    <2>2. QED
      BY <2>1 DEF CapSafe, DailyCapBinds
  <1> HIDE DEF I
  <1>4. QED
    BY <1>1, <1>2, <1>3, PTL DEF Spec

-----------------------------------------------------------------------------
(* The distance between rebalances *)

\* The decision in hand is a REBALANCE.
Major == pc \in {"count", "publish", "latest", "major"} /\ act = "REBALANCE"

\* What latest.alpha.major.ts says of a REBALANCE of cycle c published at minute at:
\* the key is not older and was not written earlier, or it is about to be written,
\* or a fault kept it from being written, or it may have expired since.
Marked(c, at) ==
  \/ c \in unmarked
  \/ sent - at >= Expiry
  \/ c <= lastMajor /\ at <= majorAt
  \/ pc \in {"latest", "major"} /\ act = "REBALANCE" /\ c = cur

\* What makes RebalancesApart inductive: latest.alpha.major.ts accounts for every
\* REBALANCE that was published within its expiry, and the one in hand is far
\* enough from it.
ApartSafe ==
  /\ \A i \in Rebalances : Marked(published[i].cycle, published[i].at)
  /\ \A i \in Rebalances : published[i].at <= sent
  /\ Major => lastMajor = 0 \/ cur - lastMajor >= Interval
  /\ RebalancesApart

LEMMA PublishedFacts ==
  ASSUME TypeOK
  PROVE  /\ \A i \in DOMAIN published : i \in Nat /\ i <= Len(published)
         /\ \A i \in DOMAIN published :
              published[i].cycle \in 1 .. Cycles /\ published[i].at \in Nat
         /\ cur \in Nat /\ lastMajor \in Nat /\ majorAt \in Nat /\ sent \in Nat
         /\ Len(published) \in Nat
  <1>1. published \in Seq(Decision) /\ cur \in Nat /\ lastMajor \in Nat
        /\ majorAt \in Nat /\ sent \in Nat
    BY ConstantTypes DEF TypeOK
  <1>2. /\ DOMAIN published = 1 .. Len(published) /\ Len(published) \in Nat
        /\ \A i \in DOMAIN published : published[i] \in Decision
    BY <1>1
  <1>3. QED
    BY <1>1, <1>2 DEF Decision, CycleIds

\* A step that does not publish a decision keeps the distance between those that
\* were, if latest.alpha.major.ts still accounts for them.
LEMMA AsideApart ==
  ASSUME TypeOK, ApartSafe, UNCHANGED published, unmarked \subseteq unmarked',
         sent' = sent \/ sent' = sent + 1,
         \A i \in Rebalances : Marked(published[i].cycle, published[i].at) => Marked(published[i].cycle, published[i].at)',
         Major' => lastMajor' = 0 \/ cur' - lastMajor' >= Interval
  PROVE  ApartSafe'
  <1>1. UNCHANGED Rebalances
    BY DEF Rebalances
  <1>2. \A i \in Rebalances : UNCHANGED <<published[i].cycle, published[i].at>>
    OBVIOUS
  <1>3. (\A i \in Rebalances : Marked(published[i].cycle, published[i].at))'
    BY <1>1, <1>2 DEF ApartSafe
  <1>4. RebalancesApart'
    BY <1>1, <1>2 DEF ApartSafe, RebalancesApart
  <1>5. (\A i \in Rebalances : published[i].at <= sent)'
    BY <1>1, <1>2, PublishedFacts DEF ApartSafe, Rebalances
  <1>6. QED
    BY <1>3, <1>4, <1>5 DEF ApartSafe

LEMMA ApartStep ==
  ASSUME TypeOK, InHand, ApartSafe, [Next]_vars
  PROVE  ApartSafe'
  <1>0. Interval \in Nat \ {0} /\ Expiry \in Nat \ {0} /\ sent \in Nat
    BY ConstantTypes, PublishedFacts
  <1>1. CASE Publish
    <2> DEFINE new == Len(published) + 1
    <2>1. /\ pc = "publish" /\ pc' = "latest"
          /\ UNCHANGED <<sent, cur, act, lastMajor, majorAt, unmarked>>
      BY <1>1 DEF Publish, queues, locals, keys
    <2>2. /\ Rebalances' = Rebalances \cup (IF act = "REBALANCE" THEN {new} ELSE {})
          /\ published'[new].cycle = cur /\ published'[new].at = sent
          /\ \A i \in Rebalances :
               /\ published'[i].cycle = published[i].cycle
               /\ published'[i].at = published[i].at
               /\ published[i].cycle \in 1 .. Cycles /\ published[i].at \in Nat
               /\ i \in Nat /\ i < new
      BY <1>1, PublishTrades, PublishedFacts DEF Rebalances
    <2>3. \A i \in Rebalances :
            \/ published[i].cycle \in unmarked
            \/ sent - published[i].at >= Expiry
            \/ published[i].cycle <= lastMajor /\ published[i].at <= majorAt
      BY <2>1 DEF ApartSafe, Marked
    <2>4. ASSUME NEW i \in Rebalances, act = "REBALANCE"
          PROVE  \/ cur - published[i].cycle >= Interval
                 \/ sent - published[i].at >= Expiry
                 \/ published[i].cycle \in unmarked
      <3>1. lastMajor = 0 \/ cur - lastMajor >= Interval
        BY <2>1, <2>4 DEF ApartSafe, Major
      <3>2. QED
        BY <1>0, <2>2, <2>3, <3>1, PublishedFacts
    <2>5. \A i \in Rebalances' : Marked(published[i].cycle, published[i].at)'
      BY <2>1, <2>2, <2>3 DEF Marked
    <2>6. Major' => lastMajor' = 0 \/ cur' - lastMajor' >= Interval
      BY <2>1 DEF ApartSafe, Major
    <2>7. RebalancesApart'
      <3> SUFFICES ASSUME NEW i \in Rebalances', NEW j \in Rebalances', i < j
                   PROVE  \/ published'[j].cycle - published'[i].cycle >= Interval
                          \/ published'[j].at - published'[i].at >= Expiry
                          \/ published'[i].cycle \in unmarked
        BY <2>1 DEF RebalancesApart
      <3>1. i \in Rebalances
        BY <2>2, PublishedFacts
      <3>2. CASE j \in Rebalances
        BY <2>2, <3>1, <3>2 DEF ApartSafe, RebalancesApart
      <3>3. CASE j \notin Rebalances
        <4>1. j = new /\ act = "REBALANCE"
          BY <2>2, <3>3
        <4>2. QED
          BY <2>2, <2>4, <3>1, <4>1
      <3>4. QED
        BY <3>2, <3>3
    <2>8. (\A i \in Rebalances : published[i].at <= sent)'
      BY <1>0, <2>1, <2>2 DEF ApartSafe
    <2>9. QED
      BY <2>5, <2>6, <2>7, <2>8 DEF ApartSafe
  <1>2. CASE SetMajor
    <2>1. /\ pc = "major" /\ pc' = "ack" /\ lastMajor' = cur
          /\ majorAt' = sent /\ UNCHANGED <<published, unmarked, sent, cur, act>>
      BY <1>2 DEF SetMajor, queues, locals, history
    <2>2. lastMajor = 0 \/ cur - lastMajor >= Interval
      BY <2>1 DEF ApartSafe, Major, InHand
    <2>3. lastMajor <= cur
      BY <1>0, <2>2, PublishedFacts
    <2>4. \A i \in Rebalances : published[i].cycle \in Nat /\ published[i].at <= sent
      BY PublishedFacts DEF Rebalances, ApartSafe
    <2>5. \A i \in Rebalances : Marked(published[i].cycle, published[i].at) => Marked(published[i].cycle, published[i].at)'
      BY <2>1, <2>3, <2>4, PublishedFacts DEF Marked
    <2>6. QED
      BY <2>1, <2>5, AsideApart DEF Major
  <1>3. CASE HandlerRaises \/ Crash
    <2>1. /\ UNCHANGED <<published, lastMajor, majorAt, sent>> /\ unmarked \subseteq unmarked'
          /\ pc' \in {"retry", "idle"}
          /\ pc \in {"latest", "major"} /\ act = "REBALANCE" => cur \in unmarked'
      BY <1>3 DEF HandlerRaises, Crash, Unmarked, queues, keys
    <2>2. \A i \in Rebalances : Marked(published[i].cycle, published[i].at) => Marked(published[i].cycle, published[i].at)'
      BY <2>1 DEF Marked
    <2>3. QED
      BY <2>1, <2>2, AsideApart DEF Major
  <1>4. CASE Decide
    <2>1. /\ UNCHANGED <<published, unmarked, lastMajor, majorAt, sent, cur>>
          /\ pc = "decide" /\ pc' \in {"count", "publish"}
          /\ act' = "REBALANCE" => lastMajor = 0 \/ cur - lastMajor >= Interval
      BY <1>4 DEF Decide, LongAgo, queues, keys, history
    <2>2. \A i \in Rebalances : Marked(published[i].cycle, published[i].at) => Marked(published[i].cycle, published[i].at)'
      BY <2>1 DEF Marked
    <2>3. QED
      BY <2>1, <2>2, AsideApart DEF Major
  <1>5. CASE CountTrade \/ SetLatest
    <2>1. /\ UNCHANGED <<published, unmarked, lastMajor, majorAt, sent, cur, act>>
          /\ pc \in {"count", "latest"}
          /\ pc' \in {"publish", "major", "ack"}
          /\ pc' = "ack" => pc = "latest" /\ act # "REBALANCE"
          /\ pc = "count" => pc' = "publish" /\ act = "REBALANCE"
          /\ pc = "latest" => pc' \in {"major", "ack"}
      BY <1>5 DEF CountTrade, SetLatest, InHand, queues, locals, keys, history
    <2>2. \A i \in Rebalances : Marked(published[i].cycle, published[i].at) => Marked(published[i].cycle, published[i].at)'
      BY <2>1 DEF Marked
    <2>3. Major' => lastMajor' = 0 \/ cur' - lastMajor' >= Interval
      BY <2>1 DEF ApartSafe, Major
    <2>4. QED
      BY <2>1, <2>2, <2>3, AsideApart
  <1>6. CASE Take \/ CheckPrice \/ Reversal \/ Ack \/ RetryOrDlq
    <2>1. /\ UNCHANGED <<published, unmarked, lastMajor, majorAt, sent>>
          /\ pc \notin {"latest", "major"}
          /\ pc' \in {"price", "reversal", "decide", "idle", "ack"}
      BY <1>6 DEF Take, CheckPrice, Reversal, Ack, RetryOrDlq, queues, locals, keys, history
    <2>2. \A i \in Rebalances : Marked(published[i].cycle, published[i].at) => Marked(published[i].cycle, published[i].at)'
      BY <2>1 DEF Marked
    <2>3. QED
      BY <2>1, <2>2, AsideApart DEF Major
  <1>7. CASE Feature \/ NextDay \/ CooldownEnds \/ UNCHANGED vars
    <2>1. /\ UNCHANGED <<published, unmarked, lastMajor, majorAt, pc, cur, act>>
          /\ sent' = sent \/ sent' = sent + 1
      BY <1>7 DEF Feature, NextDay, CooldownEnds, vars, queues, locals, keys, history
    <2>2. \A i \in Rebalances : published[i].at \in Nat
      BY PublishedFacts DEF Rebalances
    <2>3. \A i \in Rebalances : Marked(published[i].cycle, published[i].at)
                                => Marked(published[i].cycle, published[i].at)'
      BY <1>0, <2>1, <2>2 DEF Marked
    <2>4. Major' => lastMajor' = 0 \/ cur' - lastMajor' >= Interval
      BY <2>1 DEF ApartSafe, Major
    <2>5. QED
      BY <2>1, <2>3, <2>4, AsideApart
  <1>8. CASE MajorExpires
    <2>1. /\ UNCHANGED <<published, unmarked, sent, pc, cur, act>>
          /\ sent - majorAt >= Expiry /\ lastMajor # 0 /\ lastMajor' = 0
      BY <1>8 DEF MajorExpires, queues, locals, history
    <2>2. \A i \in Rebalances : published[i].at \in Nat
      BY PublishedFacts DEF Rebalances
    <2>3. \A i \in Rebalances : Marked(published[i].cycle, published[i].at)
                                => Marked(published[i].cycle, published[i].at)'
      BY <1>0, <2>1, <2>2, PublishedFacts DEF Marked
    <2>4. QED
      BY <2>1, <2>3, AsideApart
  <1>9. QED
    BY <1>1, <1>2, <1>3, <1>4, <1>5, <1>6, <1>7, <1>8 DEF Next, Handler

\* A REBALANCE comes at least AI_MIN_MAJOR_INTERVAL_MIN of features, or an expiry of
\* latest.alpha.major.ts by the clock, after each earlier one, unless a fault kept
\* the earlier one from writing that key: for every interval and every expiry.
THEOREM RebalancesAlwaysApart == Spec => []RebalancesApart
  <1> DEFINE I == TypeOK /\ InHand /\ ApartSafe
  <1>1. Init => I
    <2> SUFFICES ASSUME Init PROVE I
      OBVIOUS
    <2>1. Rebalances = {} /\ pc = "idle"
      BY DEF Init, Rebalances
    <2>2. QED
      BY <2>1, TypeInit DEF ApartSafe, Major, RebalancesApart
  <1>2. I /\ [Next]_vars => I'
    BY TypeStep, ApartStep
  <1>3. I => RebalancesApart
    BY DEF ApartSafe
  <1> HIDE DEF I
  <1>4. QED
    BY <1>1, <1>2, <1>3, PTL DEF Spec

-----------------------------------------------------------------------------
(* market_data: what a stream of minutes is like while it is published *)

Steps == {"idle", "features", "1m", "15m", "1h", "audit"}

Md == [up : BOOLEAN, pc : Steps, at : Nat, asof : Nat, seen : BOOLEAN, streak : Nat,
       alarm : BOOLEAN]

ClockTypes ==
  /\ now \in Nat \ {0}
  /\ md \in Md
  /\ out1m \in Seq(Nat) /\ out15 \in Seq(Nat) /\ out1h \in Seq(Nat)
  /\ failed \in Nat /\ hitches \in Nat /\ lastHitch \in Nat /\ lastHitch <= now

\* A pass works for a minute that has ended.
Pass ==
  /\ md.asof <= md.at /\ md.at <= now
  /\ md.pc # "idle" => md.up /\ md.asof # 0 /\ md.asof < md.at
  /\ ~md.up => md.asof = 0

\* A stream at minute t, with last_emitted_minute asof and the pass at pc: its
\* entries are in order and of minutes that have ended, the repeats are paid for
\* by the failed passes, and before the pass appends so is the one to come.
OrderedIn(out, before, t, asof, step, fails) ==
  /\ InOrder(out)
  /\ Repeats(out) <= fails
  /\ out # <<>> =>
       /\ Last(out) < t
       /\ asof # 0 => Last(out) <= asof
       /\ asof # 0 /\ asof = Last(out) /\ step \in before => Repeats(out) + 1 <= fails

Before1m == {"idle", "features", "1m"}
Before15m == {"idle", "features", "1m", "15m"}

ClockInv ==
  /\ ClockTypes /\ Pass
  /\ OrderedIn(out1m, Before1m, now, md.asof, md.pc, failed)
  /\ OrderedIn(out15, Before15m, now, md.asof, md.pc, failed)
  /\ md.pc \notin Before1m => out1m # <<>> /\ Last(out1m) = md.asof
  /\ out15 # <<>> => out1m # <<>> /\ Last(out15) <= Last(out1m)

LEMMA ClockConstants ==
  /\ Hour \in Nat \ {0} /\ StartMinute \in Nat \ {0} /\ EndMinute \in Nat \ {0}
  /\ Streak \in Nat \ {0} /\ MaxHitches \in Nat
  <1>1. {Hour, StartMinute, EndMinute, Streak} \subseteq Nat \ {0} /\ MaxHitches \in Nat
    BY ClockAssumption DEF ClockAssumption
  <1>2. QED
    BY <1>1, Zenon

\* One more entry
LEMMA OneMore ==
  ASSUME NEW s \in Seq(Nat), NEW x \in Nat, s # <<>> => Last(s) <= x
  PROVE  LET t == Append(s, x)
         IN  /\ t \in Seq(Nat) /\ t # <<>> /\ Last(t) = x
             /\ Repeats(s) \in Nat /\ Repeats(t) \in Nat /\ Repeats(t) <= Repeats(s) + 1
             /\ (s = <<>> \/ Last(s) # x) => Repeats(t) = Repeats(s)
             /\ InOrder(s) => InOrder(t)
  <1> DEFINE t == Append(s, x)
             n == Len(s)
             A == {i \in 2 .. Len(s) : s[i] = s[i - 1]}
             B == {i \in 2 .. Len(t) : t[i] = t[i - 1]}
  <1>1. /\ t \in Seq(Nat) /\ Len(t) = n + 1 /\ t[n + 1] = x /\ \A i \in 1 .. n : t[i] = s[i]
        /\ n \in Nat /\ (s = <<>> <=> n = 0) /\ t # <<>>
        /\ \A i \in 1 .. n : s[i] \in Nat
    <2>1. t \in Seq(Nat) /\ Len(t) = n + 1 /\ n \in Nat /\ \A i \in 1 .. n : s[i] \in Nat
      OBVIOUS
    <2>2. t[n + 1] = x /\ \A i \in 1 .. n : t[i] = s[i]
      OBVIOUS
    <2>3. s = <<>> <=> n = 0
      OBVIOUS
    <2>4. t # <<>>
      <3>1. Len(<<>>) = 0
        OBVIOUS
      <3>2. Len(t) # 0
        BY <2>1
      <3>3. QED
        BY <3>1, <3>2, Zenon
    <2>5. QED
      BY <2>1, <2>2, <2>3, <2>4
  <1>2. Last(t) = x /\ (n # 0 => Last(s) = s[n])
    BY <1>1 DEF Last
  <1>3. IsFiniteSet(A) /\ Cardinality(A) \in Nat
    <2>1. IsFiniteSet(2 .. n)
      BY <1>1, FS_Interval
    <2>2. A \subseteq 2 .. n
      OBVIOUS
    <2>3. QED
      BY <2>1, <2>2, FS_Subset, FS_CardinalityType
  <1>4. B = A \/ (B = A \cup {n + 1} /\ n # 0 /\ Last(s) = x)
    <2>1. \A i \in 2 .. n : i - 1 \in 1 .. n /\ i \in 1 .. n
      BY <1>1
    <2>2. \A i \in 2 .. n : t[i] = s[i] /\ t[i - 1] = s[i - 1]
      BY <1>1, <2>1
    <2>3. \A i \in 2 .. n : i \in A <=> i \in B
      BY <1>1, <2>2
    <2>4. B \subseteq 2 .. n + 1 /\ A \subseteq 2 .. n
      BY <1>1
    <2>5. CASE n + 1 \in B
      <3>1. n # 0 /\ Last(s) = x
        BY <1>1, <1>2, <2>4, <2>5
      <3>2. B = A \cup {n + 1}
        BY <1>1, <2>3, <2>4, <2>5
      <3>3. QED
        BY <3>1, <3>2
    <2>6. CASE n + 1 \notin B
      BY <1>1, <2>3, <2>4, <2>6
    <2>7. QED
      BY <2>5, <2>6
  <1>5. Repeats(s) = Cardinality(A) /\ Repeats(t) = Cardinality(B)
    BY DEF Repeats
  <1>6. n + 1 \notin A
    BY <1>1
  <1> HIDE DEF A, B
  <1>7. /\ Cardinality(B) \in Nat /\ Cardinality(B) <= Cardinality(A) + 1
        /\ (s = <<>> \/ Last(s) # x) => Cardinality(B) = Cardinality(A)
    <2>1. Cardinality(A \cup {n + 1}) = Cardinality(A) + 1
      BY <1>3, <1>6, FS_AddElement
    <2>2. CASE B = A
      BY <1>3, <2>2
    <2>3. CASE B = A \cup {n + 1} /\ n # 0 /\ Last(s) = x
      <3>1. s # <<>>
        BY <1>1, <2>3
      <3>2. Cardinality(B) = Cardinality(A) + 1
        BY <2>1, <2>3
      <3>3. QED
        BY <1>3, <2>3, <3>1, <3>2
    <2>4. QED
      BY <1>4, <2>2, <2>3
  <1>8. InOrder(s) => InOrder(t)
    <2> SUFFICES ASSUME InOrder(s), NEW i \in 2 .. Len(t) PROVE t[i - 1] <= t[i]
      BY DEF InOrder
    <2>1. CASE i \in 2 .. n
      <3>1. i - 1 \in 1 .. n /\ i \in 1 .. n
        BY <1>1, <2>1
      <3>2. t[i] = s[i] /\ t[i - 1] = s[i - 1]
        BY <1>1, <3>1
      <3>3. s[i - 1] <= s[i]
        BY <2>1 DEF InOrder
      <3>4. QED
        BY <3>2, <3>3
    <2>2. CASE i = n + 1
      <3>1. n # 0 /\ n \in 1 .. n /\ i - 1 = n
        BY <1>1, <2>2
      <3>2. t[n] = s[n] /\ s[n] <= x
        BY <1>1, <1>2, <3>1
      <3>3. QED
        BY <1>1, <2>2, <3>1, <3>2
    <2>3. i \in 2 .. n \/ i = n + 1
      BY <1>1
    <2>4. QED
      BY <2>1, <2>2, <2>3
  <1>9. QED
    BY <1>1, <1>2, <1>3, <1>5, <1>7, <1>8

LEMMA NoRepeats == Repeats(<<>>) = 0 /\ InOrder(<<>>)
  <1>1. Len(<<>>) = 0 /\ 2 .. 0 = {}
    OBVIOUS
  <1>2. {i \in 2 .. Len(<<>>) : <<>>[i] = <<>>[i - 1]} = {}
    BY <1>1
  <1>3. QED
    BY <1>1, <1>2, FS_EmptySet DEF Repeats, InOrder

\* Time passes, passes fail, and the minute in hand changes.
LEMMA OrderedKept ==
  ASSUME NEW out \in Seq(Nat), NEW before,
         NEW t \in Nat, NEW asof \in Nat, NEW step, NEW fails \in Nat,
         NEW t2 \in Nat, NEW asof2 \in Nat, NEW step2, NEW fails2 \in Nat,
         OrderedIn(out, before, t, asof, step, fails), t <= t2, fails <= fails2,
         \/ asof2 = 0
         \/ asof2 = asof /\ (step2 \in before => step \in before \/ fails + 1 <= fails2)
         \/ asof2 >= t
         \/ asof # 0 /\ asof2 > asof
  PROVE  OrderedIn(out, before, t2, asof2, step2, fails2)
  <1>1. Repeats(out) \in Nat /\ (out # <<>> => Last(out) \in Nat)
    <2>1. out # <<>> => Last(out) \in Nat
      <3>1. Len(out) \in Nat /\ (out # <<>> => Len(out) # 0) /\ \A i \in 1 .. Len(out) : out[i] \in Nat
        OBVIOUS
      <3>2. QED
        BY <3>1 DEF Last
    <2>2. PICK x \in Nat : out # <<>> => Last(out) <= x
      BY <2>1
    <2>3. Repeats(out) \in Nat
      BY <2>2, OneMore
    <2>4. QED
      BY <2>1, <2>3
  <1>2. QED
    BY <1>1 DEF OrderedIn

\* The pass appends the minute.
LEMMA OrderedMore ==
  ASSUME NEW out \in Seq(Nat), NEW before,
         NEW t \in Nat, NEW asof \in Nat \ {0}, NEW step \in before, NEW fails \in Nat,
         NEW step2, NEW fails2 \in Nat,
         OrderedIn(out, before, t, asof, step, fails), asof < t, fails <= fails2,
         step2 \in before => fails + 1 <= fails2
  PROVE  /\ OrderedIn(Append(out, asof), before, t, asof, step2, fails2)
         /\ Append(out, asof) \in Seq(Nat) /\ Append(out, asof) # <<>>
         /\ Last(Append(out, asof)) = asof
  <1> DEFINE new == Append(out, asof)
  <1>1. /\ new \in Seq(Nat) /\ new # <<>> /\ Last(new) = asof
        /\ Repeats(out) \in Nat /\ Repeats(new) \in Nat /\ Repeats(new) <= Repeats(out) + 1
        /\ (out = <<>> \/ Last(out) # asof) => Repeats(new) = Repeats(out)
        /\ InOrder(out) => InOrder(new)
    <2>1. out # <<>> => Last(out) <= asof
      BY DEF OrderedIn
    <2>2. QED
      BY <2>1, OneMore
  <1> HIDE DEF new
  <1>2. Repeats(new) <= fails
    BY <1>1 DEF OrderedIn
  <1>3. InOrder(new)
    BY <1>1 DEF OrderedIn
  <1>4. OrderedIn(new, before, t, asof, step2, fails2)
    BY <1>1, <1>2, <1>3 DEF OrderedIn
  <1>5. QED
    BY <1>1, <1>4 DEF new

LEMMA InitClockInv == FlowInit => ClockInv
  <1> SUFFICES ASSUME FlowInit PROVE ClockInv
    OBVIOUS
  <1> USE DEF FlowInit, ClockInit
  <1>1. ClockTypes
    <2>1. md \in Md
      BY DEF Stopped, Md, Steps
    <2>2. now \in Nat \ {0} /\ lastHitch \in Nat /\ lastHitch <= now
      BY ClockConstants
    <2>3. <<>> \in Seq(Nat)
      OBVIOUS
    <2>4. QED
      BY <2>1, <2>2, <2>3 DEF ClockTypes
  <1>2. Pass
    BY ClockConstants DEF Pass, Stopped
  <1>3. \A before : OrderedIn(<<>>, before, now, md.asof, md.pc, 0)
    BY NoRepeats DEF OrderedIn
  <1>4. QED
    BY <1>1, <1>2, <1>3 DEF ClockInv, Before1m, Before15m, Stopped

\* A step that publishes nothing
LEMMA Unpublished ==
  ASSUME ClockInv, UNCHANGED <<out1m, out15>>, ClockTypes', Pass', now <= now', failed <= failed',
         \/ md'.asof = 0
         \/ /\ md'.asof = md.asof
            /\ md'.pc \in Before1m => md.pc \in Before1m \/ failed + 1 <= failed'
            /\ md'.pc \in Before15m => md.pc \in Before15m \/ failed + 1 <= failed'
         \/ md'.asof >= now
         \/ md.asof # 0 /\ md'.asof > md.asof,
         md'.pc \notin Before1m => md.pc \notin Before1m /\ md'.asof = md.asof
  PROVE  ClockInv'
  <1>1. /\ md.asof \in Nat /\ md'.asof \in Nat /\ now \in Nat /\ now' \in Nat
        /\ failed \in Nat /\ failed' \in Nat /\ out1m \in Seq(Nat) /\ out15 \in Seq(Nat)
    BY DEF ClockInv, ClockTypes, Md
  <1>2. OrderedIn(out1m, Before1m, now', md'.asof, md'.pc, failed')
    <2>1. OrderedIn(out1m, Before1m, now, md.asof, md.pc, failed)
      BY DEF ClockInv
    <2>2. QED
      BY <1>1, <2>1, OrderedKept
  <1>3. OrderedIn(out15, Before15m, now', md'.asof, md'.pc, failed')
    <2>1. OrderedIn(out15, Before15m, now, md.asof, md.pc, failed)
      BY DEF ClockInv
    <2>2. QED
      BY <1>1, <2>1, OrderedKept
  <1>4. OrderedIn(out1m, Before1m, now, md.asof, md.pc, failed)'
        /\ OrderedIn(out15, Before15m, now, md.asof, md.pc, failed)'
    BY <1>2, <1>3 DEF OrderedIn, InOrder, Repeats, Before1m, Before15m
  <1>5. /\ md'.pc \notin Before1m => out1m' # <<>> /\ Last(out1m') = md'.asof
        /\ out15' # <<>> => out1m' # <<>> /\ Last(out15') <= Last(out1m')
    BY DEF ClockInv
  <1>6. QED
    BY <1>4, <1>5 DEF ClockInv, Before1m

LEMMA HitchTypes ==
  ASSUME ClockTypes, now' = now, Hitch \/ NoHitch
  PROVE  hitches' \in Nat /\ lastHitch' \in Nat /\ lastHitch' <= now'
  BY DEF ClockTypes, Hitch, NoHitch, damage

LEMMA StartClockKeeps == ClockInv /\ StartClock /\ now' = now => ClockInv'
  <1> SUFFICES ASSUME ClockInv, StartClock, now' = now PROVE ClockInv'
    OBVIOUS
  <1>1. md' = [Stopped EXCEPT !.up = TRUE] /\ md' \in Md /\ md'.asof = 0 /\ md'.at = 0 /\ md'.pc = "idle" /\ md'.up
    BY DEF StartClock, Stopped, Md, Steps
  <1>2. ClockTypes'
    BY <1>1 DEF StartClock, ClockInv, ClockTypes
  <1>3. Pass'
    BY <1>1 DEF Pass, ClockInv, ClockTypes
  <1>4. UNCHANGED <<out1m, out15, failed>> /\ failed \in Nat /\ now \in Nat
    BY DEF StartClock, ClockInv, ClockTypes
  <1>5. QED
    BY <1>1, <1>2, <1>3, <1>4, Unpublished DEF Before1m

LEMMA SampleKeeps ==
  ASSUME ClockInv, NEW some \in BOOLEAN, Sample(some), now' = now PROVE ClockInv'
  <1>1. /\ md \in Md /\ now \in Nat \ {0} /\ md.pc = "idle" /\ md.up
        /\ md.asof <= md.at /\ md.at <= now
    BY DEF ClockInv, ClockTypes, Pass, Sample
  <1>2. /\ md'.at = now /\ md'.up = md.up /\ md' \in Md
        /\ md'.asof = IF md.asof = 0 THEN now ELSE md.asof
        /\ md'.pc = IF md.asof \notin {0, now} THEN "features" ELSE "idle"
    BY <1>1 DEF Sample, Md, Steps, FirstMinute, Due
  <1>3. UNCHANGED <<out1m, out15, out1h, failed>> /\ failed \in Nat
    BY DEF Sample, ClockInv, ClockTypes
  <1>4. ClockTypes'
    <2>1. Hitch \/ NoHitch
      BY DEF Sample
    <2>2. hitches' \in Nat /\ lastHitch' \in Nat /\ lastHitch' <= now'
      BY <2>1, HitchTypes DEF ClockInv
    <2>3. QED
      BY <1>1, <1>2, <1>3, <2>2 DEF ClockInv, ClockTypes
  <1>5. Pass'
    BY <1>1, <1>2 DEF Pass, Md
  <1>6. QED
    BY <1>1, <1>2, <1>3, <1>4, <1>5, Unpublished DEF Before1m, Before15m, Md

\* Steps of a pass that publish no minute
LEMMA PassKeeps ==
  ASSUME ClockInv, BuildFeatures \/ Publish1h \/ BlockFails \/ Finish \/ ClearingFails, now' = now
  PROVE  ClockInv'
  <1>1. /\ md \in Md /\ now \in Nat \ {0} /\ md.asof <= md.at /\ md.at <= now
        /\ md.pc # "idle" /\ md.up /\ md.asof # 0 /\ md.asof < md.at
        /\ out1h \in Seq(Nat) /\ failed \in Nat
    <2>1. md.pc # "idle"
      BY DEF BuildFeatures, Publish1h, BlockFails, Finish, ClearingFails
    <2>2. QED
      BY <2>1 DEF ClockInv, ClockTypes, Pass
  <1>2. /\ md' \in Md /\ md'.at = md.at /\ md'.up = md.up
        /\ \/ /\ md'.asof = md.asof /\ md'.pc # "idle"
              /\ md'.pc \in Before1m <=> md.pc \in Before1m
              /\ md'.pc \in Before15m <=> md.pc \in Before15m
           \/ md'.asof = md.at /\ md'.pc = "idle"
    <2>1. CASE BuildFeatures
      BY <1>1, <2>1 DEF BuildFeatures, Md, Steps, Before1m, Before15m
    <2>2. CASE Publish1h
      BY <1>1, <2>2 DEF Publish1h, Md, Steps, Before1m, Before15m
    <2>3. CASE BlockFails
      BY <1>1, <2>3 DEF BlockFails, Md, Steps, Before1m, Before15m
    <2>4. CASE Finish
      BY <1>1, <2>4 DEF Finish, Md, Steps
    <2>5. CASE ClearingFails
      BY <1>1, <2>5, ClockConstants DEF ClearingFails, Md, Steps
    <2>6. QED
      BY <2>1, <2>2, <2>3, <2>4, <2>5
  <1>3. UNCHANGED <<out1m, out15>> /\ failed' \in Nat /\ failed <= failed'
    BY <1>1 DEF BuildFeatures, Publish1h, BlockFails, Finish, ClearingFails
  <1>4. out1h' \in Seq(Nat)
    <2>1. Append(out1h, md.at) \in Seq(Nat)
      BY <1>1 DEF Md
    <2>2. out1h' \in {out1h, Append(out1h, md.at)}
      BY DEF BuildFeatures, Publish1h, BlockFails, Finish, ClearingFails
    <2>3. QED
      BY <1>1, <2>1, <2>2
  <1>5. hitches' \in Nat /\ lastHitch' \in Nat /\ lastHitch' <= now'
    BY HitchTypes DEF ClockInv, BuildFeatures, Publish1h, BlockFails, Finish, ClearingFails
  <1>6. ClockTypes'
    BY <1>1, <1>2, <1>3, <1>4, <1>5 DEF ClockInv, ClockTypes
  <1>7. Pass'
    BY <1>1, <1>2 DEF Pass, Md
  <1>8. QED
    BY <1>1, <1>2, <1>3, <1>6, <1>7, Unpublished DEF Before1m, Before15m, Md

LEMMA DiesKeeps == ClockInv /\ Dies /\ now' = now => ClockInv'
  <1> SUFFICES ASSUME ClockInv, Dies, now' = now PROVE ClockInv'
    OBVIOUS
  <1>1. md' \in Md /\ md'.asof = 0 /\ md'.at = 0 /\ md'.pc = "idle"
    BY DEF Dies, Stopped, Md, Steps
  <1>2. UNCHANGED <<out1m, out15, out1h, failed>> /\ failed \in Nat /\ now \in Nat \ {0}
    BY DEF Dies, ClockInv, ClockTypes
  <1>3. hitches' \in Nat /\ lastHitch' \in Nat /\ lastHitch' <= now'
    BY HitchTypes DEF ClockInv, Dies
  <1>4. ClockTypes' /\ Pass'
    BY <1>1, <1>2, <1>3 DEF ClockInv, ClockTypes, Pass
  <1>5. QED
    BY <1>1, <1>2, <1>4, Unpublished DEF Before1m

\* What a pass at work knows
LEMMA AtWork ==
  ASSUME ClockInv, md.pc # "idle"
  PROVE  /\ md \in Md /\ md.asof \in Nat \ {0} /\ md.asof < md.at /\ md.at <= now /\ md.asof < now
         /\ now \in Nat /\ failed \in Nat /\ out1m \in Seq(Nat) /\ out15 \in Seq(Nat) /\ out1h \in Seq(Nat)
         /\ OrderedIn(out1m, Before1m, now, md.asof, md.pc, failed)
         /\ OrderedIn(out15, Before15m, now, md.asof, md.pc, failed)
         /\ out15 # <<>> => Last(out15) <= md.asof /\ Last(out15) \in Nat
  <1>1. /\ md \in Md /\ md.asof \in Nat \ {0} /\ md.asof < md.at /\ md.at <= now /\ md.at \in Nat
        /\ now \in Nat /\ failed \in Nat /\ out1m \in Seq(Nat) /\ out15 \in Seq(Nat) /\ out1h \in Seq(Nat)
    BY DEF ClockInv, ClockTypes, Pass, Md
  <1>2. /\ OrderedIn(out1m, Before1m, now, md.asof, md.pc, failed)
        /\ OrderedIn(out15, Before15m, now, md.asof, md.pc, failed)
    BY DEF ClockInv
  <1>3. out15 # <<>> => Last(out15) <= md.asof
    BY <1>1, <1>2 DEF OrderedIn
  <1>4. out15 # <<>> => Last(out15) \in Nat
    <2>1. Len(out15) \in Nat /\ (out15 # <<>> => Len(out15) # 0) /\ \A i \in 1 .. Len(out15) : out15[i] \in Nat
      BY <1>1
    <2>2. QED
      BY <2>1 DEF Last
  <1>5. QED
    BY <1>1, <1>2, <1>3, <1>4

\* The minute goes out on md.features.1m.
LEMMA Appended1m ==
  ASSUME ClockInv, md.pc = "1m", now' = now, out1m' = Append(out1m, md.asof),
         UNCHANGED <<out15, out1h>>, md' \in Md, md'.asof = md.asof, md'.at = md.at, md'.up = md.up,
         \/ md'.pc = "15m" /\ failed' = failed
         \/ md'.pc = "idle" /\ failed' = failed + 1,
         Hitch \/ NoHitch
  PROVE  ClockInv'
  <1>1. md.pc # "idle" /\ md.pc \in Before1m /\ md.pc \in Before15m
    BY DEF Before1m, Before15m
  <1>2. /\ md \in Md /\ md.asof \in Nat \ {0} /\ md.asof < md.at /\ md.at <= now /\ md.asof < now
        /\ now \in Nat /\ failed \in Nat /\ out1m \in Seq(Nat) /\ out15 \in Seq(Nat) /\ out1h \in Seq(Nat)
        /\ OrderedIn(out1m, Before1m, now, md.asof, md.pc, failed)
        /\ OrderedIn(out15, Before15m, now, md.asof, md.pc, failed)
        /\ out15 # <<>> => Last(out15) <= md.asof /\ Last(out15) \in Nat
    BY <1>1, AtWork
  <1>3. failed' \in Nat /\ failed <= failed' /\ (md'.pc \in Before1m => failed + 1 <= failed')
    BY <1>2 DEF Before1m
  <1>4. /\ OrderedIn(Append(out1m, md.asof), Before1m, now, md.asof, md'.pc, failed')
        /\ Append(out1m, md.asof) \in Seq(Nat) /\ Append(out1m, md.asof) # <<>>
        /\ Last(Append(out1m, md.asof)) = md.asof
    BY <1>1, <1>2, <1>3, OrderedMore, ZenonT(60)
  <1>5. OrderedIn(out15, Before15m, now, md.asof, md'.pc, failed')
    BY <1>1, <1>2, <1>3, OrderedKept
  <1>6. OrderedIn(out1m, Before1m, now, md.asof, md.pc, failed)'
        /\ OrderedIn(out15, Before15m, now, md.asof, md.pc, failed)'
    BY <1>4, <1>5 DEF OrderedIn, InOrder, Repeats, Before1m, Before15m
  <1>7. hitches' \in Nat /\ lastHitch' \in Nat /\ lastHitch' <= now'
    BY HitchTypes DEF ClockInv
  <1>8. ClockTypes'
    <2>1. now' \in Nat \ {0}
      BY DEF ClockInv, ClockTypes
    <2>2. QED
      BY <1>2, <1>3, <1>4, <1>7, <2>1 DEF ClockTypes
  <1>9. Pass'
    BY <1>1, <1>2 DEF Pass, ClockInv
  <1>10. /\ md'.pc \notin Before1m => out1m' # <<>> /\ Last(out1m') = md'.asof
         /\ out15' # <<>> => out1m' # <<>> /\ Last(out15') <= Last(out1m')
    BY <1>2, <1>4
  <1>11. QED
    BY <1>6, <1>8, <1>9, <1>10 DEF ClockInv, Before1m

\* And on md.features.15m.
LEMMA Appended15m ==
  ASSUME ClockInv, md.pc = "15m", now' = now, out15' = Append(out15, md.asof),
         UNCHANGED <<out1m, out1h>>, md' \in Md, md'.asof = md.asof, md'.at = md.at, md'.up = md.up,
         \/ md'.pc = "1h" /\ failed' = failed
         \/ md'.pc = "idle" /\ failed' = failed + 1,
         Hitch \/ NoHitch
  PROVE  ClockInv'
  <1>1. md.pc # "idle" /\ md.pc \notin Before1m /\ md.pc \in Before15m
    BY DEF Before1m, Before15m
  <1>2. /\ md \in Md /\ md.asof \in Nat \ {0} /\ md.asof < md.at /\ md.at <= now /\ md.asof < now
        /\ now \in Nat /\ failed \in Nat /\ out1m \in Seq(Nat) /\ out15 \in Seq(Nat) /\ out1h \in Seq(Nat)
        /\ OrderedIn(out1m, Before1m, now, md.asof, md.pc, failed)
        /\ OrderedIn(out15, Before15m, now, md.asof, md.pc, failed)
    BY <1>1, AtWork
  <1>3. failed' \in Nat /\ failed <= failed' /\ (md'.pc \in Before15m => failed + 1 <= failed')
        /\ (md'.pc \in Before1m => failed + 1 <= failed')
    BY <1>2 DEF Before15m, Before1m
  <1>4. /\ OrderedIn(Append(out15, md.asof), Before15m, now, md.asof, md'.pc, failed')
        /\ Append(out15, md.asof) \in Seq(Nat) /\ Append(out15, md.asof) # <<>>
        /\ Last(Append(out15, md.asof)) = md.asof
    <2>1. /\ md.pc \in Before15m /\ md.asof \in Nat \ {0} /\ md.asof < now /\ now \in Nat
          /\ failed \in Nat /\ failed' \in Nat /\ failed <= failed' /\ out15 \in Seq(Nat)
          /\ OrderedIn(out15, Before15m, now, md.asof, md.pc, failed)
          /\ md'.pc \in Before15m => failed + 1 <= failed'
      BY <1>1, <1>2, <1>3
    <2>2. QED
      BY ONLY <2>1, OrderedMore
  <1>5. OrderedIn(out1m, Before1m, now, md.asof, md'.pc, failed')
    BY <1>1, <1>2, <1>3, OrderedKept
  <1>6. OrderedIn(out1m, Before1m, now, md.asof, md.pc, failed)'
        /\ OrderedIn(out15, Before15m, now, md.asof, md.pc, failed)'
    BY <1>4, <1>5 DEF OrderedIn, InOrder, Repeats, Before1m, Before15m
  <1>7. hitches' \in Nat /\ lastHitch' \in Nat /\ lastHitch' <= now'
    BY HitchTypes DEF ClockInv
  <1>8. ClockTypes'
    <2>1. now' \in Nat \ {0}
      BY DEF ClockInv, ClockTypes
    <2>2. QED
      BY <1>2, <1>3, <1>4, <1>7, <2>1 DEF ClockTypes
  <1>9. Pass'
    BY <1>1, <1>2 DEF Pass, ClockInv
  <1>10. out1m # <<>> /\ Last(out1m) = md.asof
    BY <1>1 DEF ClockInv
  <1>11. QED
    BY <1>2, <1>4, <1>6, <1>8, <1>9, <1>10 DEF ClockInv, Before1m

LEMMA PublishKeeps == ClockInv /\ (Publish1m \/ Publish15m) /\ now' = now => ClockInv'
  <1> SUFFICES ASSUME ClockInv, Publish1m \/ Publish15m, now' = now PROVE ClockInv'
    OBVIOUS
  <1>1. md \in Md
    BY DEF ClockInv, ClockTypes
  <1>2. CASE Publish1m
    <2>1. md' \in Md /\ md'.asof = md.asof /\ md'.at = md.at /\ md'.up = md.up /\ md'.pc = "15m"
      BY <1>1, <1>2 DEF Publish1m, Md, Steps
    <2>2. QED
      BY <1>2, <2>1, Appended1m DEF Publish1m
  <1>3. CASE Publish15m
    <2>1. md' \in Md /\ md'.asof = md.asof /\ md'.at = md.at /\ md'.up = md.up /\ md'.pc = "1h"
      BY <1>1, <1>3 DEF Publish15m, Md, Steps
    <2>2. QED
      BY <1>3, <2>1, Appended15m DEF Publish15m
  <1>4. QED
    BY <1>2, <1>3

LEMMA PassFailsKeeps ==
  ASSUME ClockInv, NEW done \in BOOLEAN, PassFails(done), now' = now PROVE ClockInv'
  <1>1. /\ md \in Md /\ now \in Nat \ {0} /\ failed \in Nat /\ failed' = failed + 1 /\ Hitch
        /\ md.asof <= md.at /\ md.at <= now /\ md.up
    BY DEF ClockInv, ClockTypes, Pass, PassFails
  <1>2. md' \in Md /\ md'.asof = md.asof /\ md'.at = md.at /\ md'.up = md.up /\ md'.pc = "idle"
    <2>1. md.streak \in Nat /\ md.alarm \in BOOLEAN /\ Streak \in Nat
      BY <1>1, ClockConstants DEF Md
    <2>2. (IF md.streak < Streak THEN md.streak + 1 ELSE md.streak) \in Nat
      BY <2>1
    <2>3. (md.alarm \/ md.streak + 1 >= Streak) \in BOOLEAN
      OBVIOUS
    <2>4. PICK s \in Nat, a \in BOOLEAN : md' = [md EXCEPT !.streak = s, !.alarm = a, !.pc = "idle"]
      BY <2>2, <2>3, Zenon DEF PassFails
    <2>5. QED
      BY <1>1, <2>4 DEF Md, Steps
  <1>3. CASE done /\ md.pc = "1m"
    <2>1. out1m' = Append(out1m, md.asof) /\ UNCHANGED <<out15, out1h>>
      BY <1>3 DEF PassFails
    <2>2. QED
      BY <1>1, <1>2, <1>3, <2>1, Appended1m
  <1>4. CASE done /\ md.pc = "15m"
    <2>1. out15' = Append(out15, md.asof) /\ UNCHANGED <<out1m, out1h>>
      BY <1>4 DEF PassFails
    <2>2. QED
      BY <1>1, <1>2, <1>4, <2>1, Appended15m
  <1>5. CASE ~done
    <2>1. UNCHANGED <<out1m, out15, out1h>>
      BY <1>5 DEF PassFails
    <2>2. hitches' \in Nat /\ lastHitch' \in Nat /\ lastHitch' <= now'
      BY <1>1, HitchTypes DEF ClockInv
    <2>3. ClockTypes'
      BY <1>1, <1>2, <2>1, <2>2 DEF ClockInv, ClockTypes
    <2>4. Pass'
      BY <1>1, <1>2 DEF Pass, ClockInv
    <2>5. QED
      BY <1>1, <1>2, <2>1, <2>3, <2>4, Unpublished DEF Before1m, Md
  <1>6. QED
    BY <1>3, <1>4, <1>5 DEF PassFails

LEMMA ClockStepKeeps == ClockInv /\ ClockStep /\ now' = now => ClockInv'
  BY StartClockKeeps, SampleKeeps, PassKeeps, PublishKeeps, PassFailsKeeps, DiesKeeps DEF ClockStep

\* The other process only adds hitches; the minute hand adds a minute.
LEMMA OthersKeep ==
  ASSUME ClockInv, UNCHANGED <<md, out1m, out15, out1h, failed>>,
         now' \in Nat \ {0}, now <= now', hitches' \in Nat, lastHitch' \in Nat, lastHitch' <= now'
  PROVE  ClockInv'
  <1>1. md \in Md /\ now \in Nat \ {0} /\ failed \in Nat
    BY DEF ClockInv, ClockTypes
  <1>2. ClockTypes'
    BY DEF ClockInv, ClockTypes
  <1>3. Pass'
    BY <1>1 DEF ClockInv, Pass, Md
  <1>4. QED
    BY <1>1, <1>2, <1>3, Unpublished

LEMMA AIStepHitches ==
  ASSUME AIStep PROVE Hitch \/ NoHitch \/ (lastHitch' = now /\ hitches' = hitches)
  BY DEF AIStep, StartAI, PollBlocks, PollBlocksFails, ProcessBlock, BlockRaises, PollSnapshots,
         DecideSnapshot, AIDies

LEMMA ClockNext == ClockInv /\ [FlowNext]_flowVars => ClockInv'
  <1> SUFFICES ASSUME ClockInv, [FlowNext]_flowVars PROVE ClockInv'
    OBVIOUS
  <1>1. now \in Nat \ {0} /\ hitches \in Nat /\ lastHitch \in Nat /\ lastHitch <= now
    BY DEF ClockInv, ClockTypes
  <1>2. CASE ClockStep /\ UNCHANGED now /\ UNCHANGED flow
    BY <1>2, ClockStepKeeps
  <1>3. CASE AIStep /\ UNCHANGED <<now, md, out1m, out15, out1h, failed>>
    <2>1. hitches' \in Nat /\ lastHitch' \in Nat /\ lastHitch' <= now'
      BY <1>1, <1>3, AIStepHitches DEF Hitch, NoHitch, damage
    <2>2. QED
      BY <1>1, <1>3, <2>1, OthersKeep
  <1>4. CASE Tick
    <2>1. hitches' \in Nat /\ lastHitch' \in Nat /\ lastHitch' <= now'
      BY <1>1, <1>4 DEF Tick, NoHitch, damage
    <2>2. now' \in Nat \ {0} /\ now <= now' /\ UNCHANGED <<md, out1m, out15, out1h, failed>>
      BY <1>1, <1>4 DEF Tick
    <2>3. QED
      BY <2>1, <2>2, OthersKeep
  <1>5. CASE UNCHANGED flowVars
    BY <1>1, <1>5, OthersKeep DEF flowVars
  <1>6. QED
    BY <1>2, <1>3, <1>4, <1>5 DEF FlowNext

LEMMA ClockAlways == FlowSpec => []ClockInv
  <1>1. QED
    BY InitClockInv, ClockNext, PTL DEF FlowSpec

\* Whatever dies, raises or is late, the minutes come out of market_data in order:
\* no entry is older than the one before it, each repeat answers for a pass that
\* failed, and md.features.15m never runs ahead of md.features.1m.
THEOREM SnapshotsStayInOrder == FlowSpec => []SnapshotsInOrder
  <1>1. ClockInv => SnapshotsInOrder
    BY DEF ClockInv, OrderedIn, SnapshotsInOrder
  <1>2. QED
    BY <1>1, ClockAlways, PTL

-----------------------------------------------------------------------------
(* A calm minute: what keeps the bias of the hour in memory *)

Bias == [block : Nat, at : Nat, until : Nat, gone : Nat]

\* Entries of a stream that are not yet read or still in hand
Unread(seq, from, hand) == {seq[i] : i \in from + 1 .. Len(seq)} \cup Range(hand)

NewBlocks == Unread(out1h, read1h, ai.blocks)
NewSnaps == Unread(out15, read15, ai.snaps)

Ai == [up : BOOLEAN, joined : BOOLEAN, pc : {"layer1", "layer2"}, blocks : Seq(Nat),
       snaps : Seq(Nat), cached : Bias]

FlowTypes ==
  /\ ai \in Ai
  /\ read1h \in Nat /\ read15 \in Nat
  /\ read1h <= Len(out1h) /\ read15 <= Len(out15)
  /\ pending15 \subseteq Nat
  /\ stamp \in Nat /\ stamp <= now
  /\ kept \in Bias
  /\ decision \in [asof : Nat, bias : Bias]

\* No hitch and no start in this minute
Calm == now > lastHitch
Top(t) == t % Hour = 0
GuidedBy(h) == ai.cached.block = h /\ ai.cached.until = h + Hour

\* The pass of this minute is done, or it is the next to end one.
MdCalm ==
  md.up /\ Calm =>
    \/ md.pc = "idle" /\ md.asof = now
    \/ md.asof = now - 1 /\ (md.pc # "idle" => md.at = now /\ md.seen)

\* Snapshots are of minutes that have ended; one that is not yet decided on is of
\* the minute that has just ended unless it is older than the last hitch.
SnapsCalm ==
  /\ \A x \in Range(out15) \cup NewSnaps : x < now
  /\ \A x \in pending15 : x < lastHitch
  /\ ai.up => \A x \in NewSnaps : x < lastHitch \/ (x = now - 1 /\ md.up)

\* A block is processed in the minute it was made in, the top of the hour.
BlocksCalm == ai.up /\ Calm => \A b \in NewBlocks : b = now /\ Top(now)

\* A bias computed since the last hitch was computed at the top of an hour, and the
\* one computed in this minute is in memory.
StampCalm ==
  ai.up /\ Calm =>
    /\ stamp <= lastHitch \/ Top(stamp)
    /\ stamp = now => GuidedBy(now)

\* The block of this minute is still to be made or to be processed.
Coming ==
  \/ md.asof = now - 1 /\ md.pc # "audit"
  \/ now \in NewBlocks

\* The bias in memory is that of the block of the hour, from a debounce after the
\* last hitch; at the top of the hour it may still be that of the hour before.
Guided ==
  ai.up /\ md.up /\ HourOf(now) > lastHitch + Debounce =>
    \/ GuidedBy(HourOf(now))
    \/ /\ Top(now) /\ Coming
       /\ now - Hour > lastHitch + Debounce => GuidedBy(now - Hour)

FlowInv == FlowTypes /\ MdCalm /\ SnapsCalm /\ BlocksCalm /\ StampCalm /\ Guided

\* Hours
LEMMA HourParts ==
  ASSUME NEW t \in Nat
  PROVE  /\ t \div Hour \in Nat /\ t % Hour \in 0 .. Hour - 1
         /\ t = Hour * (t \div Hour) + (t % Hour)
  BY ClockConstants

\* A multiple of the hour plus less than an hour
LEMMA HourUnique ==
  ASSUME NEW t \in Nat, NEW q \in Nat, NEW r \in 0 .. Hour - 1, t = Hour * q + r
  PROVE  t % Hour = r
  <1>1. /\ t \div Hour \in Nat /\ t % Hour \in 0 .. Hour - 1
        /\ t = Hour * (t \div Hour) + (t % Hour)
    BY HourParts
  <1> DEFINE p == t \div Hour
             s == t % Hour
  <1>2. p \in Nat /\ s \in 0 .. Hour - 1 /\ Hour \in Nat \ {0} /\ Hour * q + r = Hour * p + s
    BY <1>1, ClockConstants
  <1> HIDE DEF p, s
  <1>3. q = p
    <2>1. Hour * (q - p) = s - r
      BY <1>2
    <2>2. q - p < 1
      <3> SUFFICES ASSUME q - p >= 1 PROVE FALSE
        BY <1>2
      <3>1. Hour * (q - p) >= Hour
        BY <1>2
      <3>2. QED
        BY <1>2, <2>1, <3>1
    <2>3. p - q < 1
      <3> SUFFICES ASSUME p - q >= 1 PROVE FALSE
        BY <1>2
      <3>1. Hour * (p - q) >= Hour
        BY <1>2
      <3>2. Hour * (p - q) = r - s
        BY <1>2
      <3>3. QED
        BY <1>2, <3>1, <3>2
    <2>4. QED
      BY <1>2, <2>2, <2>3
  <1>4. s = r
    BY <1>2, <1>3
  <1>5. QED
    BY <1>4 DEF s

\* The next minute begins an hour or belongs to the same one.
LEMMA NextMinute ==
  ASSUME NEW t \in Nat
  PROVE  /\ HourOf(t) \in Nat /\ HourOf(t) <= t /\ t < HourOf(t) + Hour
         /\ Top(t) <=> HourOf(t) = t
         /\ Top(t + 1) => HourOf(t) = t + 1 - Hour
         /\ ~Top(t + 1) => HourOf(t + 1) = HourOf(t)
  <1>1. /\ t \div Hour \in Nat /\ t % Hour \in 0 .. Hour - 1
        /\ t = Hour * (t \div Hour) + (t % Hour)
    BY HourParts
  <1> DEFINE p == t \div Hour
             s == t % Hour
  <1>2. p \in Nat /\ s \in 0 .. Hour - 1 /\ Hour \in Nat \ {0} /\ t = Hour * p + s
        /\ Hour * p \in Nat /\ HourOf(t) = t - s /\ (Top(t) <=> s = 0)
    BY <1>1, ClockConstants DEF HourOf, Top
  <1> HIDE DEF p, s
  <1>3. HourOf(t) \in Nat /\ HourOf(t) <= t /\ t < HourOf(t) + Hour /\ (Top(t) <=> HourOf(t) = t)
    BY <1>2
  <1>4. CASE s + 1 = Hour
    <2>1. t + 1 = Hour * (p + 1) + 0
      BY <1>2, <1>4
    <2>2. (t + 1) % Hour = 0
      BY <1>2, <2>1, HourUnique
    <2>3. Top(t + 1) /\ HourOf(t) = t + 1 - Hour
      BY <1>2, <1>4, <2>2 DEF Top
    <2>4. QED
      BY <1>3, <2>3
  <1>5. CASE s + 1 # Hour
    <2>1. t + 1 = Hour * p + (s + 1) /\ s + 1 \in 0 .. Hour - 1
      BY <1>2, <1>5
    <2>2. (t + 1) % Hour = s + 1
      BY <1>2, <2>1, HourUnique
    <2>3. ~Top(t + 1) /\ HourOf(t + 1) = HourOf(t)
      BY <1>2, <2>2 DEF Top, HourOf
    <2>4. QED
      BY <1>3, <2>3
  <1>6. QED
    BY <1>4, <1>5

\* Two tops less than an hour apart are one.
LEMMA OneTop ==
  ASSUME NEW t \in Nat, NEW u \in Nat, Top(t), Top(u), u <= t, t - u < Hour
  PROVE  u = t
  <1>1. /\ t \div Hour \in Nat /\ t = Hour * (t \div Hour) + (t % Hour)
        /\ u \div Hour \in Nat /\ u = Hour * (u \div Hour) + (u % Hour)
    BY HourParts
  <1> DEFINE p == t \div Hour
             q == u \div Hour
  <1>2. p \in Nat /\ q \in Nat /\ t = Hour * p /\ u = Hour * q /\ Hour \in Nat \ {0}
    BY <1>1, ClockConstants DEF Top
  <1> HIDE DEF p, q
  <1>3. Hour * (p - q) = t - u
    BY <1>2
  <1>4. p - q < 1
    <2> SUFFICES ASSUME p - q >= 1 PROVE FALSE
      BY <1>2
    <2>1. Hour * (p - q) >= Hour
      BY <1>2
    <2>2. QED
      BY <1>2, <1>3, <2>1
  <1>5. q - p < 1
    <2> SUFFICES ASSUME q - p >= 1 PROVE FALSE
      BY <1>2
    <2>1. Hour * (q - p) >= Hour
      BY <1>2
    <2>2. Hour * (q - p) = u - t
      BY <1>2
    <2>3. QED
      BY <1>2, <2>1, <2>2
  <1>6. QED
    BY <1>2, <1>4, <1>5

-----------------------------------------------------------------------------
\* Entries that are not yet read

LEMMA UnreadTyped ==
  ASSUME NEW seq \in Seq(Nat), NEW from \in Nat, NEW hand \in Seq(Nat)
  PROVE  Unread(seq, from, hand) \subseteq Nat /\ Unread(seq, from, <<>>) \subseteq Unread(seq, from, hand)
         /\ Range(hand) \subseteq Unread(seq, from, hand)
  <1>1. Range(hand) \subseteq Nat
    BY DEF Range
  <1>2. {seq[i] : i \in from + 1 .. Len(seq)} \subseteq Nat
    <2>1. \A i \in from + 1 .. Len(seq) : i \in 1 .. Len(seq)
      OBVIOUS
    <2>2. \A i \in 1 .. Len(seq) : seq[i] \in Nat
      OBVIOUS
    <2>3. QED
      BY <2>1, <2>2
  <1>3. Range(<<>>) = {}
    <2>1. DOMAIN <<>> = {}
      OBVIOUS
    <2>2. QED
      BY <2>1 DEF Range
  <1>4. QED
    BY <1>1, <1>2, <1>3 DEF Unread

LEMMA UnreadNone ==
  ASSUME NEW seq \in Seq(Nat)
  PROVE  Unread(seq, Len(seq), <<>>) = {}
  <1>1. Range(<<>>) = {}
    <2>1. DOMAIN <<>> = {}
      OBVIOUS
    <2>2. QED
      BY <2>1 DEF Range
  <1>2. Len(seq) + 1 .. Len(seq) = {}
    <2>1. Len(seq) \in Nat
      OBVIOUS
    <2>2. QED
      BY <2>1
  <1>3. QED
    BY <1>1, <1>2 DEF Unread

LEMMA UnreadMore ==
  ASSUME NEW seq \in Seq(Nat), NEW from \in Nat, from <= Len(seq), NEW hand, NEW x \in Nat
  PROVE  Unread(Append(seq, x), from, hand) = Unread(seq, from, hand) \cup {x}
         /\ from <= Len(Append(seq, x)) /\ Append(seq, x) \in Seq(Nat)
         /\ Range(Append(seq, x)) = Range(seq) \cup {x}
  <1> DEFINE t == Append(seq, x)
             n == Len(seq)
  <1>1. /\ t \in Seq(Nat) /\ Len(t) = n + 1 /\ n \in Nat
        /\ DOMAIN t = 1 .. n + 1 /\ DOMAIN seq = 1 .. n
    OBVIOUS
  <1>2. t[n + 1] = x /\ \A i \in 1 .. n : t[i] = seq[i]
    OBVIOUS
  <1> HIDE DEF t, n
  <1>3. {t[i] : i \in from + 1 .. n + 1} = {seq[i] : i \in from + 1 .. n} \cup {x}
    <2>1. \A i \in from + 1 .. n + 1 : i \in from + 1 .. n \/ i = n + 1
      BY <1>1
    <2>2. \A i \in from + 1 .. n : i \in 1 .. n /\ i \in from + 1 .. n + 1
      BY <1>1
    <2>3. n + 1 \in from + 1 .. n + 1
      BY <1>1 DEF n
    <2>4. QED
      BY <1>2, <2>1, <2>2, <2>3
  <1>4. Range(t) = Range(seq) \cup {x}
    <2>1. \A i \in 1 .. n + 1 : i \in 1 .. n \/ i = n + 1
      BY <1>1
    <2>2. \A i \in 1 .. n : i \in 1 .. n + 1
      BY <1>1
    <2>3. n + 1 \in 1 .. n + 1
      BY <1>1
    <2>4. QED
      BY <1>1, <1>2, <2>1, <2>2, <2>3 DEF Range
  <1>5. Unread(t, from, hand) = {t[i] : i \in from + 1 .. n + 1} \cup Range(hand)
    BY <1>1 DEF Unread
  <1>6. Unread(seq, from, hand) = {seq[i] : i \in from + 1 .. n} \cup Range(hand)
    BY DEF Unread, n
  <1>7. QED
    BY <1>1, <1>3, <1>4, <1>5, <1>6 DEF t, n

LEMMA UnreadTail ==
  ASSUME NEW seq \in Seq(Nat), NEW from \in Nat, NEW hand \in Seq(Nat), hand # <<>>
  PROVE  /\ Unread(seq, from, Tail(hand)) \subseteq Unread(seq, from, hand)
         /\ Head(hand) \in Unread(seq, from, hand) /\ Tail(hand) \in Seq(Nat) /\ Head(hand) \in Nat
  <1>1. Len(hand) \in Nat /\ Len(hand) # 0 /\ DOMAIN hand = 1 .. Len(hand)
    OBVIOUS
  <1>2. /\ Tail(hand) \in Seq(Nat) /\ Len(Tail(hand)) = Len(hand) - 1
        /\ DOMAIN Tail(hand) = 1 .. Len(hand) - 1
    OBVIOUS
  <1>3. \A i \in 1 .. Len(hand) - 1 : Tail(hand)[i] = hand[i + 1]
    OBVIOUS
  <1>4. Head(hand) = hand[1]
    OBVIOUS
  <1>5. Range(Tail(hand)) \subseteq Range(hand)
    <2>1. \A i \in 1 .. Len(hand) - 1 : i + 1 \in 1 .. Len(hand)
      BY <1>1
    <2>2. QED
      BY <1>1, <1>2, <1>3, <2>1 DEF Range
  <1>6. Head(hand) \in Range(hand) /\ Head(hand) \in Nat
    <2>1. 1 \in 1 .. Len(hand)
      BY <1>1
    <2>2. QED
      BY <1>1, <1>4, <2>1 DEF Range
  <1>7. QED
    BY <1>2, <1>5, <1>6 DEF Unread

LEMMA SeqOfFunction ==
  ASSUME NEW k \in Nat, NEW f \in [1 .. k -> Nat]
  PROVE  f \in Seq(Nat) /\ Len(f) = k /\ DOMAIN f = 1 .. k
  OBVIOUS

LEMMA UnreadBatch ==
  ASSUME NEW seq \in Seq(Nat), NEW from \in Nat, from <= Len(seq), NEW most \in Nat
  PROVE  LET got == Batch(seq, from, most)
         IN  /\ got \in Seq(Nat) /\ from + Len(got) \in Nat /\ from + Len(got) <= Len(seq)
             /\ Unread(seq, from + Len(got), got) = Unread(seq, from, <<>>)
  <1> DEFINE m == Least(from + most, Len(seq))
             got == Batch(seq, from, most)
             n == Len(seq)
  <1>1. n \in Nat /\ m \in Nat /\ from <= m /\ m <= n
    <2>1. Len(seq) \in Nat
      OBVIOUS
    <2>2. QED
      BY <2>1 DEF Least
  <1> HIDE DEF m
  <1>2. got = SubSeq(seq, from + 1, m)
    BY DEF Batch, m
  <1> HIDE DEF got
  <1>3. \A i \in 1 .. n : seq[i] \in Nat
    OBVIOUS
  <1>4. got \in Seq(Nat) /\ Len(got) = m - from /\ (\A i \in 1 .. m - from : got[i] = seq[from + i])
        /\ DOMAIN got = 1 .. m - from
    <2>1. got = [i \in 1 .. m - from |-> seq[from + i]]
      BY <1>1, <1>2
    <2>2. \A i \in 1 .. m - from : from + i \in 1 .. n
      BY <1>1
    <2>3. got \in [1 .. m - from -> Nat]
      BY <1>3, <2>1, <2>2
    <2>4. m - from \in Nat
      BY <1>1
    <2>5. got \in Seq(Nat) /\ Len(got) = m - from /\ DOMAIN got = 1 .. m - from
      BY <2>3, <2>4, SeqOfFunction
    <2>6. \A i \in 1 .. m - from : got[i] = seq[from + i]
      BY <2>1
    <2>7. QED
      BY <2>5, <2>6
  <1> HIDE DEF n
  <1>5. Range(got) = {seq[i] : i \in from + 1 .. m}
    <2>1. \A i \in 1 .. m - from : from + i \in from + 1 .. m
      BY <1>1
    <2>2. \A i \in from + 1 .. m : i - from \in 1 .. m - from /\ from + (i - from) = i
      BY <1>1
    <2>3. Range(got) \subseteq {seq[i] : i \in from + 1 .. m}
      BY <1>4, <2>1 DEF Range
    <2>4. {seq[i] : i \in from + 1 .. m} \subseteq Range(got)
      <3> SUFFICES ASSUME NEW i \in from + 1 .. m PROVE seq[i] \in Range(got)
        OBVIOUS
      <3>1. i - from \in 1 .. m - from /\ from + (i - from) = i
        BY <2>2
      <3>2. got[i - from] = seq[i]
        BY <1>4, <3>1
      <3>3. QED
        BY <1>4, <3>1, <3>2 DEF Range
    <2>5. QED
      BY <2>3, <2>4
  <1>6. from + Len(got) = m
    BY <1>1, <1>4
  <1>7. {seq[i] : i \in from + 1 .. n} = {seq[i] : i \in m + 1 .. n} \cup {seq[i] : i \in from + 1 .. m}
    <2>1. \A i : i \in from + 1 .. n <=> i \in m + 1 .. n \/ i \in from + 1 .. m
      BY <1>1
    <2>2. QED
      BY <2>1
  <1>8. Range(<<>>) = {}
    <2>1. DOMAIN <<>> = {}
      OBVIOUS
    <2>2. QED
      BY <2>1 DEF Range
  <1>9. Unread(seq, m, got) = Unread(seq, from, <<>>)
    BY <1>5, <1>7, <1>8 DEF Unread, n
  <1>10. QED
    BY <1>1, <1>4, <1>6, <1>9 DEF got, n

LEMMA LayerConstants == Debounce \in Nat \ {0} /\ Ttl \in Nat \ {0} /\ Debounce < Hour
  <1>1. {Debounce, Ttl} \subseteq Nat \ {0} /\ Debounce < Hour
    BY LayersAssumption DEF LayersAssumption
  <1>2. QED
    BY <1>1, Zenon

\* The streams and the clock, as Layer 1 and Layer 2 see them
Streams == now \in Nat \ {0} /\ out15 \in Seq(Nat) /\ out1h \in Seq(Nat)

LEMMA ClockStreams == ClockInv => Streams
  BY DEF ClockInv, ClockTypes, Streams

LEMMA BiasTyped ==
  ASSUME now \in Nat, NEW b \in Nat
  PROVE  /\ BiasOf(b) \in Bias /\ BiasOf(b).block = b /\ BiasOf(b).until = now + Hour
         /\ NoBias \in Bias
  BY ClockConstants, LayerConstants DEF BiasOf, Bias, NoBias

\* What the steps do to the process: its fields one by one
LEMMA StartFields ==
  ASSUME FlowTypes, StartAI
  PROVE  /\ ai' \in Ai /\ ai'.blocks = <<>> /\ ai'.snaps = <<>> /\ ai'.cached = NoBias
         /\ read1h' \in {read1h, Len(out1h)} /\ read15' \in {read15, Len(out15)}
         /\ lastHitch' = now /\ UNCHANGED <<pending15, stamp, kept, decision>>
  <1>1. NoBias \in Bias /\ <<>> \in Seq(Nat)
    BY DEF NoBias, Bias
  <1>2. ai' = [Down EXCEPT !.up = TRUE, !.joined = TRUE]
    BY DEF StartAI
  <1>3. ai' \in Ai /\ ai'.blocks = <<>> /\ ai'.snaps = <<>> /\ ai'.cached = NoBias
    BY <1>1, <1>2 DEF Down, Ai
  <1>4. QED
    BY <1>3 DEF StartAI

LEMMA PollFields ==
  ASSUME FlowTypes, Streams, PollBlocks
  PROVE  /\ ai' \in Ai /\ ai.up /\ ai'.up /\ ai.blocks = <<>> /\ ai'.snaps = ai.snaps /\ ai'.cached = ai.cached
         /\ ai'.blocks = Batch(out1h, read1h, 5) /\ read1h' = read1h + Len(Batch(out1h, read1h, 5))
         /\ UNCHANGED <<read15, pending15, stamp, kept, decision, hitches, lastHitch>>
  <1> DEFINE got == Batch(out1h, read1h, 5)
  <1>1. got \in Seq(Nat) /\ ai \in Ai
    BY UnreadBatch DEF FlowTypes, Streams
  <1>2. ai' = [ai EXCEPT !.blocks = got, !.pc = IF got = <<>> THEN "layer2" ELSE @]
        /\ read1h' = read1h + Len(got) /\ ai.up /\ ai.blocks = <<>>
        /\ UNCHANGED <<read15, pending15, stamp, kept, decision, hitches, lastHitch>>
    BY DEF PollBlocks, NoHitch, damage
  <1> HIDE DEF got
  <1>3. ai' \in Ai /\ ai'.up = ai.up /\ ai'.snaps = ai.snaps /\ ai'.cached = ai.cached /\ ai'.blocks = got
    BY <1>1, <1>2 DEF Ai
  <1>4. QED
    BY <1>2, <1>3 DEF got

LEMMA PollFailsFields ==
  ASSUME FlowTypes, Streams, PollBlocksFails
  PROVE  /\ ai' \in Ai /\ ai'.blocks = ai.blocks /\ ai'.snaps = ai.snaps /\ ai'.cached = ai.cached
         /\ read1h' \in Nat /\ read1h' <= Len(out1h)
         /\ lastHitch' = now /\ UNCHANGED <<read15, pending15, stamp, kept, decision>>
  <1> DEFINE got == Batch(out1h, read1h, 5)
  <1>1. ai \in Ai /\ read1h \in Nat /\ read1h <= Len(out1h)
        /\ read1h + Len(got) \in Nat /\ read1h + Len(got) <= Len(out1h)
    BY UnreadBatch DEF FlowTypes, Streams
  <1>2. ai' = [ai EXCEPT !.pc = "layer2"] /\ read1h' \in {read1h, read1h + Len(got)}
        /\ lastHitch' = now /\ UNCHANGED <<read15, pending15, stamp, kept, decision>>
    BY DEF PollBlocksFails, Hitch
  <1> HIDE DEF got
  <1>3. ai' \in Ai /\ ai'.blocks = ai.blocks /\ ai'.snaps = ai.snaps /\ ai'.cached = ai.cached
    BY <1>1, <1>2 DEF Ai
  <1>4. QED
    BY <1>1, <1>2, <1>3

LEMMA DoneFields ==
  ASSUME FlowTypes, Streams, ai.blocks # <<>>, NEW c \in Bias, BlockDone(c)
  PROVE  /\ ai' \in Ai /\ ai'.up = ai.up /\ ai'.blocks = Tail(ai.blocks) /\ ai'.snaps = ai.snaps
         /\ ai'.cached = c
  <1>1. ai \in Ai /\ Tail(ai.blocks) \in Seq(Nat)
    <2>1. ai \in Ai /\ ai.blocks \in Seq(Nat)
      BY DEF FlowTypes, Ai
    <2>2. QED
      BY <2>1, UnreadTail DEF Streams
  <1>2. ai' = [ai EXCEPT !.blocks = Tail(ai.blocks), !.cached = c,
                         !.pc = IF Len(ai.blocks) = 1 THEN "layer2" ELSE ai.pc]
    BY DEF BlockDone
  <1>3. QED
    BY <1>1, <1>2 DEF Ai

LEMMA ProcessFields ==
  ASSUME FlowTypes, Streams, ProcessBlock
  PROVE  /\ ai' \in Ai /\ ai.up /\ ai'.up /\ ai'.blocks = Tail(ai.blocks) /\ ai'.snaps = ai.snaps
         /\ ai.blocks # <<>> /\ Head(ai.blocks) \in Nat
         /\ IF Debounced(now) THEN ai'.cached = ai.cached /\ UNCHANGED <<stamp, kept>>
            ELSE ai'.cached = BiasOf(Head(ai.blocks)) /\ stamp' = now /\ kept' = BiasOf(Head(ai.blocks))
         /\ UNCHANGED <<read1h, read15, pending15, decision, hitches, lastHitch>>
  <1>1. ai \in Ai /\ ai.cached \in Bias /\ ai.blocks \in Seq(Nat) /\ ai.blocks # <<>> /\ ai.up
    BY DEF FlowTypes, Ai, ProcessBlock
  <1>2. Head(ai.blocks) \in Nat
    BY <1>1, UnreadTail DEF Streams
  <1>3. BiasOf(Head(ai.blocks)) \in Bias
    BY <1>2, BiasTyped DEF Streams
  <1>4. UNCHANGED <<read1h, read15, pending15, decision, hitches, lastHitch>>
    BY DEF ProcessBlock, NoHitch, damage
  <1>5. CASE Debounced(now)
    <2>1. BlockDone(ai.cached) /\ UNCHANGED <<stamp, kept>>
      BY <1>5 DEF ProcessBlock
    <2>2. QED
      BY <1>1, <1>2, <1>4, <1>5, <2>1, DoneFields
  <1>6. CASE ~Debounced(now)
    <2>1. BlockDone(BiasOf(Head(ai.blocks))) /\ stamp' = now /\ kept' = BiasOf(Head(ai.blocks))
      BY <1>6 DEF ProcessBlock
    <2>2. QED
      BY <1>1, <1>2, <1>3, <1>4, <1>6, <2>1, DoneFields
  <1>7. QED
    BY <1>5, <1>6

LEMMA RaisesFields ==
  ASSUME FlowTypes, Streams, BlockRaises
  PROVE  /\ ai' \in Ai /\ ai'.blocks = Tail(ai.blocks) /\ ai'.snaps = ai.snaps /\ ai.blocks # <<>>
         /\ stamp' \in {stamp, now} /\ kept' \in Bias
         /\ lastHitch' = now /\ UNCHANGED <<read1h, read15, pending15, decision>>
  <1>1. /\ ai \in Ai /\ ai.cached \in Bias /\ ai.blocks \in Seq(Nat) /\ ai.blocks # <<>> /\ kept \in Bias
        /\ BlockDone(ai.cached)
    BY DEF FlowTypes, Ai, BlockRaises
  <1>2. BiasOf(Head(ai.blocks)) \in Bias
    BY <1>1, UnreadTail, BiasTyped DEF Streams
  <1>3. ai' \in Ai /\ ai'.blocks = Tail(ai.blocks) /\ ai'.snaps = ai.snaps
    BY <1>1, DoneFields
  <1>4. QED
    BY <1>1, <1>2, <1>3 DEF BlockRaises, Hitch

LEMMA SnapshotsFields ==
  ASSUME FlowTypes, Streams, PollSnapshots
  PROVE  /\ ai' \in Ai /\ ai.up /\ ai'.up /\ ai'.blocks = ai.blocks /\ ai'.cached = ai.cached /\ ai.snaps = <<>>
         /\ \/ \E old \in pending15 :
                 ai'.snaps = <<old>> /\ pending15' = pending15 \ {old} /\ read15' = read15
            \/ /\ ai'.snaps = Batch(out15, read15, 10) /\ pending15' = pending15
               /\ read15' = read15 + Len(Batch(out15, read15, 10))
         /\ UNCHANGED <<read1h, stamp, kept, decision, hitches, lastHitch>>
  <1>1. ai \in Ai /\ ai.up /\ ai.snaps = <<>> /\ UNCHANGED <<read1h, stamp, kept, decision, hitches, lastHitch>>
        /\ pending15 \subseteq Nat
    BY DEF FlowTypes, PollSnapshots, NoHitch, damage
  <1>2. CASE \E old \in pending15 :
               /\ ai' = [ai EXCEPT !.snaps = <<old>>]
               /\ pending15' = pending15 \ {old}
               /\ UNCHANGED read15
    <2>1. PICK old \in pending15 :
               /\ ai' = [ai EXCEPT !.snaps = <<old>>]
               /\ pending15' = pending15 \ {old}
               /\ UNCHANGED read15
      BY <1>2
    <2>2. <<old>> \in Seq(Nat)
      <3>1. old \in Nat
        BY <1>1
      <3>2. QED
        BY <3>1
    <2>3. ai' \in Ai /\ ai'.up = ai.up /\ ai'.blocks = ai.blocks /\ ai'.cached = ai.cached /\ ai'.snaps = <<old>>
      BY <1>1, <2>1, <2>2 DEF Ai
    <2>4. QED
      BY <1>1, <2>1, <2>3
  <1>3. CASE LET got == Batch(out15, read15, 10)
             IN  /\ read15' = read15 + Len(got)
                 /\ ai' = [ai EXCEPT !.snaps = got,
                                     !.pc = IF got = <<>> THEN "layer1" ELSE @]
                 /\ UNCHANGED pending15
    <2> DEFINE got == Batch(out15, read15, 10)
    <2>1. /\ read15' = read15 + Len(got)
          /\ ai' = [ai EXCEPT !.snaps = got, !.pc = IF got = <<>> THEN "layer1" ELSE @]
          /\ UNCHANGED pending15
      BY <1>3
    <2>2. got \in Seq(Nat)
      BY UnreadBatch DEF FlowTypes, Streams
    <2> HIDE DEF got
    <2>3. ai' \in Ai /\ ai'.up = ai.up /\ ai'.blocks = ai.blocks /\ ai'.cached = ai.cached /\ ai'.snaps = got
      BY <1>1, <2>1, <2>2 DEF Ai
    <2>4. QED
      BY <1>1, <2>1, <2>3 DEF got
  <1>4. QED
    BY <1>2, <1>3 DEF PollSnapshots

LEMMA DecideFields ==
  ASSUME FlowTypes, Streams, DecideSnapshot
  PROVE  /\ ai' \in Ai /\ ai.up /\ ai'.up /\ ai'.blocks = ai.blocks /\ ai.snaps # <<>> /\ ai'.snaps = Tail(ai.snaps)
         /\ Head(ai.snaps) \in Nat /\ ai'.cached = Refreshed(Head(ai.snaps))
         /\ decision' \in [asof : Nat, bias : Bias] /\ decision'.asof = Head(ai.snaps)
         /\ Valid(ai'.cached, Head(ai.snaps)) => decision'.bias = ai'.cached
         /\ UNCHANGED <<read1h, read15, pending15, stamp, kept, hitches, lastHitch>>
  <1> DEFINE x == Head(ai.snaps)
             c == Refreshed(x)
  <1>1. ai \in Ai /\ ai.up /\ ai.snaps # <<>> /\ UNCHANGED <<read1h, read15, pending15, stamp, kept, hitches, lastHitch>>
        /\ ai.cached \in Bias /\ kept \in Bias /\ ai.snaps \in Seq(Nat)
    BY DEF FlowTypes, Ai, DecideSnapshot, NoHitch, damage
  <1>2. x \in Nat /\ Tail(ai.snaps) \in Seq(Nat)
    BY <1>1, UnreadTail DEF Streams
  <1>3. NoBias \in Bias
    BY DEF NoBias, Bias
  <1>4. c \in Bias
    BY <1>1, <1>3 DEF Refreshed, KeptBias
  <1>5. /\ decision' = [asof |-> x, bias |-> IF Valid(c, x) THEN c ELSE NoBias]
        /\ ai' = [ai EXCEPT !.snaps = Tail(ai.snaps), !.cached = c,
                            !.pc = IF Len(ai.snaps) = 1 THEN "layer1" ELSE ai.pc]
    BY DEF DecideSnapshot
  <1> HIDE DEF x, c
  <1>6. ai' \in Ai /\ ai'.up = ai.up /\ ai'.blocks = ai.blocks /\ ai'.snaps = Tail(ai.snaps) /\ ai'.cached = c
    BY <1>1, <1>2, <1>4, <1>5 DEF Ai
  <1>7. decision' \in [asof : Nat, bias : Bias] /\ decision'.asof = x /\ (Valid(c, x) => decision'.bias = c)
    BY <1>2, <1>3, <1>4, <1>5
  <1>8. QED
    BY <1>1, <1>2, <1>6, <1>7 DEF x, c

LEMMA DiesFields ==
  ASSUME FlowTypes, AIDies
  PROVE  /\ ai' \in Ai /\ ai'.blocks = <<>> /\ ai'.snaps = <<>> /\ ~ai'.up
         /\ pending15' = pending15 \cup Range(ai.snaps)
         /\ lastHitch' = now /\ UNCHANGED <<read1h, read15, stamp, kept, decision>>
  <1>1. NoBias \in Bias /\ <<>> \in Seq(Nat)
    BY DEF NoBias, Bias
  <1>2. ai' = [Down EXCEPT !.joined = TRUE]
    BY DEF AIDies
  <1>3. ai' \in Ai /\ ai'.blocks = <<>> /\ ai'.snaps = <<>> /\ ~ai'.up
    BY <1>1, <1>2 DEF Down, Ai
  <1>4. QED
    BY <1>3 DEF AIDies, Hitch

LEMMA InitFlowInv == FlowInit => FlowInv /\ CurrentBlockGuides
  <1> SUFFICES ASSUME FlowInit PROVE FlowInv /\ CurrentBlockGuides
    OBVIOUS
  <1> USE DEF FlowInit, ClockInit
  <1>1. NoBias \in Bias /\ <<>> \in Seq(Nat) /\ Len(<<>>) = 0
    BY DEF NoBias, Bias
  <1>2. ai \in Ai
    BY <1>1 DEF Down, Ai
  <1>3. now \in Nat \ {0} /\ lastHitch = now
    BY ClockConstants
  <1>4. FlowTypes
    <2>1. [asof |-> 0, bias |-> NoBias] \in [asof : Nat, bias : Bias]
      BY <1>1
    <2>2. QED
      BY <1>1, <1>2, <1>3, <2>1 DEF FlowTypes
  <1>5. ~ai.up /\ ~md.up /\ ai.snaps = <<>>
    BY DEF Down, Stopped
  <1>6. NewSnaps = {} /\ Range(out15) = {}
    <2>1. Unread(<<>>, 0, <<>>) = {}
      BY <1>1, UnreadNone
    <2>2. Range(<<>>) = {}
      <3>1. DOMAIN <<>> = {}
        OBVIOUS
      <3>2. QED
        BY <3>1 DEF Range
    <2>3. QED
      BY <1>5, <2>1, <2>2 DEF NewSnaps
  <1>7. SnapsCalm
    BY <1>5, <1>6 DEF SnapsCalm
  <1>8. CurrentBlockGuides
    <2>1. decision.asof = 0 /\ ~(0 >= lastHitch + Hour + Debounce)
      BY <1>3, ClockConstants, LayerConstants
    <2>2. QED
      BY <2>1 DEF CurrentBlockGuides
  <1>9. MdCalm /\ BlocksCalm /\ StampCalm /\ Guided
    BY <1>5 DEF MdCalm, BlocksCalm, StampCalm, Guided
  <1>10. QED
    BY <1>4, <1>7, <1>8, <1>9 DEF FlowInv

\* A hitch or a start: what has to hold of a calm minute holds of none.
LEMMA Disturbed ==
  ASSUME now' \in Nat, lastHitch' = now'
  PROVE  MdCalm' /\ BlocksCalm' /\ StampCalm' /\ Guided'
  <1>1. ~Calm'
    BY DEF Calm
  <1>2. ~(HourOf(now') > lastHitch' + Debounce)
    <2>1. HourOf(now') \in Nat /\ HourOf(now') <= now'
      BY NextMinute
    <2>2. QED
      BY <2>1, LayerConstants
  <1>3. ~(HourOf(now) > lastHitch + Debounce)'
    BY <1>2 DEF HourOf
  <1>4. QED
    BY <1>1, <1>3 DEF MdCalm, BlocksCalm, StampCalm, Guided

-----------------------------------------------------------------------------
\* market_data

LEMMA ClockEffect ==
  ASSUME ClockInv, ClockStep, now' = now
  PROVE  /\ out15' = out15 \/ (md.pc # "idle" /\ md.up /\ out15' = Append(out15, md.asof))
         /\ out1h' = out1h \/ (md.pc # "idle" /\ md.up /\ BlockDue /\ out1h' = Append(out1h, md.at))
         /\ lastHitch' = now \/ (lastHitch' = lastHitch /\ md.up /\ md'.up)
  <1>1. md \in Md /\ (md.pc # "idle" => md.up)
    BY DEF ClockInv, ClockTypes, Pass
  <1> USE <1>1
  <1>2. CASE StartClock
    BY <1>2 DEF StartClock
  <1>3. ASSUME NEW some \in BOOLEAN, Sample(some)
        PROVE  /\ UNCHANGED <<out15, out1h>>
               /\ lastHitch' = now \/ (lastHitch' = lastHitch /\ md.up /\ md'.up)
    BY <1>3 DEF Sample, Hitch, NoHitch, damage, Md
  <1>4. CASE BuildFeatures
    BY <1>4 DEF BuildFeatures, NoHitch, damage, Md
  <1>5. CASE Publish1m
    BY <1>5 DEF Publish1m, NoHitch, damage, Md
  <1>6. CASE Publish15m
    BY <1>6 DEF Publish15m, NoHitch, damage, Md
  <1>7. CASE Publish1h
    BY <1>7 DEF Publish1h, NoHitch, damage, Md
  <1>8. CASE BlockFails
    BY <1>8 DEF BlockFails, Hitch
  <1>9. CASE Finish
    BY <1>9 DEF Finish, NoHitch, damage, Md
  <1>10. ASSUME NEW done \in BOOLEAN, PassFails(done)
         PROVE  /\ out15' = out15 \/ (md.pc # "idle" /\ md.up /\ out15' = Append(out15, md.asof))
                /\ out1h' = out1h /\ lastHitch' = now
    BY <1>10 DEF PassFails, Hitch
  <1>11. CASE ClearingFails
    BY <1>11 DEF ClearingFails, Hitch
  <1>12. CASE Dies
    BY <1>12 DEF Dies, Hitch
  <1>13. QED
    BY <1>2, <1>3, <1>4, <1>5, <1>6, <1>7, <1>8, <1>9, <1>10, <1>11, <1>12 DEF ClockStep

\* New entries of the streams are unread.
LEMMA ClockUnread ==
  ASSUME ClockInv, FlowTypes, ClockStep, now' = now, UNCHANGED flow
  PROVE  /\ FlowTypes' /\ NewBlocks \subseteq NewBlocks'
         /\ \/ NewSnaps' = NewSnaps /\ Range(out15') = Range(out15)
            \/ /\ md.pc # "idle" /\ md.up
               /\ NewSnaps' = NewSnaps \cup {md.asof} /\ Range(out15') = Range(out15) \cup {md.asof}
         /\ \/ NewBlocks' = NewBlocks
            \/ md.pc # "idle" /\ md.up /\ BlockDue /\ NewBlocks' = NewBlocks \cup {md.at}
  <1>1. /\ md.asof \in Nat /\ md.at \in Nat /\ out15 \in Seq(Nat) /\ out1h \in Seq(Nat)
        /\ read1h \in Nat /\ read15 \in Nat /\ read1h <= Len(out1h) /\ read15 <= Len(out15)
    BY DEF ClockInv, ClockTypes, Md, FlowTypes
  <1>2. ai' = ai /\ read1h' = read1h /\ read15' = read15 /\ UNCHANGED <<pending15, stamp, kept, decision>>
    BY DEF flow
  <1>3. /\ NewSnaps' = Unread(out15', read15, ai.snaps)
        /\ NewBlocks' = Unread(out1h', read1h, ai.blocks)
        /\ NewSnaps = Unread(out15, read15, ai.snaps)
        /\ NewBlocks = Unread(out1h, read1h, ai.blocks)
    BY <1>2 DEF NewSnaps, NewBlocks, Unread, Range
  <1>4. /\ read15 <= Len(out15')
        /\ \/ NewSnaps' = NewSnaps /\ Range(out15') = Range(out15)
           \/ /\ md.pc # "idle" /\ md.up
              /\ NewSnaps' = NewSnaps \cup {md.asof} /\ Range(out15') = Range(out15) \cup {md.asof}
    <2>1. CASE out15' = out15
      BY <1>1, <1>3, <2>1
    <2>2. CASE md.pc # "idle" /\ md.up /\ out15' = Append(out15, md.asof)
      <3>1. /\ Unread(Append(out15, md.asof), read15, ai.snaps) = Unread(out15, read15, ai.snaps) \cup {md.asof}
            /\ read15 <= Len(Append(out15, md.asof))
            /\ Range(Append(out15, md.asof)) = Range(out15) \cup {md.asof}
        BY <1>1, UnreadMore
      <3>2. QED
        BY <1>3, <2>2, <3>1
    <2>3. QED
      BY <2>1, <2>2, ClockEffect
  <1>5. /\ read1h <= Len(out1h')
        /\ \/ NewBlocks' = NewBlocks
           \/ md.pc # "idle" /\ md.up /\ BlockDue /\ NewBlocks' = NewBlocks \cup {md.at}
    <2>1. CASE out1h' = out1h
      BY <1>1, <1>3, <2>1
    <2>2. CASE md.pc # "idle" /\ md.up /\ BlockDue /\ out1h' = Append(out1h, md.at)
      <3>1. /\ Unread(Append(out1h, md.at), read1h, ai.blocks) = Unread(out1h, read1h, ai.blocks) \cup {md.at}
            /\ read1h <= Len(Append(out1h, md.at))
        BY <1>1, UnreadMore
      <3>2. QED
        BY <1>3, <2>2, <3>1
    <2>3. QED
      BY <2>1, <2>2, ClockEffect
  <1>6. FlowTypes'
    BY <1>2, <1>4, <1>5 DEF FlowTypes
  <1>7. NewBlocks \subseteq NewBlocks'
    BY <1>5
  <1>8. QED
    BY <1>4, <1>5, <1>6, <1>7

LEMMA ClockSnaps ==
  ASSUME ClockInv, FlowTypes, MdCalm, SnapsCalm, ClockStep, now' = now, UNCHANGED flow
  PROVE  SnapsCalm'
  <1>1. /\ now \in Nat /\ lastHitch \in Nat /\ lastHitch <= now /\ md.asof \in Nat /\ pending15 \subseteq Nat
        /\ md.pc # "idle" => md.asof < now /\ md.up
        /\ ai' = ai /\ pending15' = pending15
    BY DEF ClockInv, ClockTypes, Md, Pass, FlowTypes, flow
  <1>2. lastHitch' = now \/ (lastHitch' = lastHitch /\ md.up /\ md'.up)
    BY ClockEffect
  <1>3. /\ \/ NewSnaps' = NewSnaps /\ Range(out15') = Range(out15)
           \/ /\ md.pc # "idle" /\ md.up
              /\ NewSnaps' = NewSnaps \cup {md.asof} /\ Range(out15') = Range(out15) \cup {md.asof}
    BY ClockUnread
  <1>4. md.pc # "idle" /\ lastHitch # now => md.asof = now - 1
    BY <1>1 DEF MdCalm, Calm
  <1>5. \A x \in Range(out15') \cup NewSnaps' : x < now'
    BY <1>1, <1>3 DEF SnapsCalm
  <1>6. \A x \in pending15' : x < lastHitch'
    BY <1>1, <1>2 DEF SnapsCalm
  <1>7. ai'.up => \A x \in NewSnaps' : x < lastHitch' \/ (x = now' - 1 /\ md'.up)
    <2> SUFFICES ASSUME ai'.up, NEW x \in NewSnaps' PROVE x < lastHitch' \/ (x = now' - 1 /\ md'.up)
      OBVIOUS
    <2>1. CASE lastHitch' = now
      BY <1>5, <2>1
    <2>2. CASE lastHitch' = lastHitch /\ md.up /\ md'.up
      <3>1. CASE x \in NewSnaps
        BY <1>1, <2>2, <3>1 DEF SnapsCalm
      <3>2. CASE md.pc # "idle" /\ x = md.asof
        BY <1>1, <1>4, <2>2, <3>2
      <3>3. QED
        BY <1>3, <3>1, <3>2
    <2>3. QED
      BY <1>2, <2>1, <2>2
  <1>8. QED
    BY <1>5, <1>6, <1>7 DEF SnapsCalm

\* A calm pass
LEMMA CalmPass ==
  ASSUME ClockInv, MdCalm, ClockStep, now' = now, lastHitch' = lastHitch, lastHitch # now,
         NewBlocks \subseteq NewBlocks', md.pc = "1h" /\ BlockDue => md.at \in NewBlocks'
  PROVE  /\ MdCalm'
         /\ Coming /\ now > 1 /\ Top(now) => Coming'
  <1>1. /\ now \in Nat \ {0} /\ lastHitch < now /\ md \in Md
        /\ md.asof \in Nat /\ md.at \in Nat
        /\ md.asof <= md.at /\ md.at <= now
        /\ md.pc # "idle" => md.up /\ md.asof # 0 /\ md.asof < md.at
    BY DEF ClockInv, ClockTypes, Pass, Md
  <1>2. md.up =>
          \/ md.pc = "idle" /\ md.asof = now
          \/ md.asof = now - 1 /\ (md.pc # "idle" => md.at = now /\ md.seen)
    BY <1>1 DEF MdCalm, Calm
  <1>3. now \in NewBlocks => now' \in NewBlocks'
    OBVIOUS
  <1>4. ~StartClock /\ ~BlockFails /\ ~ClearingFails /\ ~Dies /\ ~Sample(FALSE)
        /\ ~PassFails(TRUE) /\ ~PassFails(FALSE)
    BY DEF StartClock, BlockFails, ClearingFails, Dies, Sample, PassFails, Hitch
  <1>5. Sample(TRUE) \/ BuildFeatures \/ Publish1m \/ Publish15m \/ Publish1h \/ Finish
    BY <1>4 DEF ClockStep
  <1>6. CASE Sample(TRUE)
    <2>1. /\ md.up /\ md.pc = "idle"
          /\ md' = [md EXCEPT !.at = now, !.seen = @ \/ TRUE,
                              !.asof = IF md.asof = 0 THEN now ELSE md.asof,
                              !.pc = IF md.asof \notin {0, now} THEN "features" ELSE "idle"]
      BY <1>6 DEF Sample, Due, FirstMinute
    <2>2. /\ md'.at = now /\ md'.seen /\ md'.up
          /\ md'.asof = IF md.asof = 0 THEN now ELSE md.asof
          /\ md'.pc = IF md.asof \notin {0, now} THEN "features" ELSE "idle"
      BY <1>1, <2>1 DEF Md
    <2>3. MdCalm'
      BY <1>1, <1>2, <2>1, <2>2 DEF MdCalm
    <2>4. md.asof = now - 1 /\ now > 1 => md'.asof = now - 1 /\ md'.pc # "audit"
      BY <1>1, <2>2
    <2>5. QED
      BY <1>3, <2>3, <2>4 DEF Coming
  <1>7. CASE BuildFeatures \/ Publish1m \/ Publish15m
    <2>1. /\ md'.asof = md.asof /\ md'.at = md.at /\ md'.seen = md.seen /\ md'.up = md.up
          /\ md'.pc \in {"1m", "15m", "1h"} /\ md.pc # "idle"
      BY <1>1, <1>7 DEF BuildFeatures, Publish1m, Publish15m, Md
    <2>2. MdCalm'
      BY <1>1, <1>2, <2>1 DEF MdCalm
    <2>3. QED
      BY <1>3, <2>1, <2>2 DEF Coming
  <1>8. CASE Publish1h
    <2>1. /\ md'.asof = md.asof /\ md'.at = md.at /\ md'.seen = md.seen /\ md'.up = md.up
          /\ md'.pc = "audit" /\ md.pc = "1h"
      BY <1>1, <1>8 DEF Publish1h, Md
    <2>2. MdCalm'
      BY <1>1, <1>2, <2>1 DEF MdCalm
    <2>3. md.at = now /\ md.seen
      BY <1>1, <1>2, <2>1
    <2>4. Top(now) => now \in NewBlocks'
      BY <2>1, <2>3 DEF BlockDue, Top
    <2>5. QED
      BY <2>2, <2>4 DEF Coming
  <1>9. CASE Finish
    <2>1. md'.asof = md.at /\ md'.pc = "idle" /\ md.pc = "audit" /\ md'.up = md.up
      BY <1>1, <1>9 DEF Finish, Md
    <2>2. md.at = now
      BY <1>1, <1>2, <2>1
    <2>3. MdCalm'
      BY <1>1, <2>1, <2>2 DEF MdCalm
    <2>4. QED
      BY <1>3, <2>1, <2>3 DEF Coming
  <1>10. QED
    BY <1>5, <1>6, <1>7, <1>8, <1>9

LEMMA BlockUnread ==
  ASSUME ClockInv, FlowTypes, ClockStep, now' = now, UNCHANGED flow, lastHitch' = lastHitch, lastHitch # now,
         md.pc = "1h", BlockDue
  PROVE  md.at \in NewBlocks'
  <1>1. Publish1h
    BY DEF ClockStep, StartClock, Sample, BuildFeatures, Publish1m, Publish15m, BlockFails, Finish,
           PassFails, ClearingFails, Dies, Hitch
  <1>2. out1h' = Append(out1h, md.at) /\ ai' = ai /\ read1h' = read1h
    BY <1>1 DEF Publish1h, flow
  <1>3. md.at \in Nat /\ out1h \in Seq(Nat) /\ read1h \in Nat /\ read1h <= Len(out1h)
    BY DEF ClockInv, ClockTypes, Md, FlowTypes
  <1>4. Unread(Append(out1h, md.at), read1h, ai.blocks) = Unread(out1h, read1h, ai.blocks) \cup {md.at}
    BY <1>3, UnreadMore
  <1>5. NewBlocks' = Unread(Append(out1h, md.at), read1h, ai.blocks)
    BY <1>2 DEF NewBlocks, Unread, Range
  <1>6. QED
    BY <1>4, <1>5

LEMMA ClockFlow ==
  ASSUME ClockInv, FlowInv, ClockStep, now' = now, UNCHANGED flow
  PROVE  FlowInv'
  <1> USE DEF FlowInv
  <1>1. FlowTypes' /\ SnapsCalm'
    BY ClockUnread, ClockSnaps
  <1>2. /\ now \in Nat \ {0} /\ now' \in Nat /\ lastHitch \in Nat /\ lastHitch <= now
        /\ md.at <= now /\ md.pc # "idle" => md.asof < md.at
        /\ stamp \in Nat /\ md \in Md
    BY DEF ClockInv, ClockTypes, Pass, FlowTypes
  <1>3. CASE lastHitch' = now
    BY <1>1, <1>2, <1>3, Disturbed
  <1>4. CASE lastHitch' = lastHitch /\ lastHitch # now /\ md.up /\ md'.up
    <2>1. /\ NewBlocks \subseteq NewBlocks'
          /\ \/ NewBlocks' = NewBlocks
             \/ md.pc # "idle" /\ md.up /\ BlockDue /\ NewBlocks' = NewBlocks \cup {md.at}
      BY ClockUnread
    <2>2. md.pc = "1h" /\ BlockDue => md.at \in NewBlocks'
      BY <1>4, BlockUnread
    <2>3. MdCalm' /\ (Coming /\ now > 1 /\ Top(now) => Coming')
      BY <1>4, <2>1, <2>2, CalmPass
    <2>4. ai' = ai /\ stamp' = stamp
      BY DEF flow
    <2>5. lastHitch < now
      BY <1>2, <1>4
    <2>6. BlocksCalm'
      <3>1. md.pc # "idle" /\ BlockDue => md.at = now /\ Top(now)
        BY <1>2, <1>4, <2>5 DEF MdCalm, Calm, BlockDue, Top, Md
      <3>2. ai.up => \A b \in NewBlocks : b = now /\ Top(now)
        BY <2>5 DEF BlocksCalm, Calm
      <3>3. ai.up => \A b \in NewBlocks' : b = now /\ Top(now)
        BY <2>1, <3>1, <3>2
      <3>4. Top(now)' <=> Top(now)
        BY DEF Top
      <3>5. QED
        BY <2>4, <3>3, <3>4 DEF BlocksCalm
    <2>7. StampCalm'
      BY <1>4, <2>4 DEF StampCalm, Calm, Top, GuidedBy
    <2>8. Guided'
      <3> SUFFICES ASSUME ai.up, HourOf(now) > lastHitch + Debounce
                   PROVE  \/ GuidedBy(HourOf(now))
                          \/ /\ Top(now) /\ Coming'
                             /\ now - Hour > lastHitch + Debounce => GuidedBy(now - Hour)
        BY <1>4, <2>4 DEF Guided, GuidedBy, Top, HourOf, Coming
      <3>1. now > 1
        <4>1. HourOf(now) <= now /\ HourOf(now) \in Nat
          BY <1>2, NextMinute
        <4>2. QED
          BY <1>2, <4>1, LayerConstants
      <3>2. QED
        BY <1>4, <2>3, <3>1 DEF Guided
    <2>9. QED
      BY <1>1, <2>3, <2>6, <2>7, <2>8
  <1>5. QED
    BY <1>3, <1>4, ClockEffect

-----------------------------------------------------------------------------
\* ai_decision

LEMMA SetsPrimed ==
  ASSUME UNCHANGED <<out1h, out15>>
  PROVE  /\ NewBlocks' = Unread(out1h, read1h', ai'.blocks) /\ NewSnaps' = Unread(out15, read15', ai'.snaps)
         /\ NewBlocks = Unread(out1h, read1h, ai.blocks) /\ NewSnaps = Unread(out15, read15, ai.snaps)
  BY DEF NewBlocks, NewSnaps, Unread, Range

\* What a step of ai_decision does to what is still to be read
LEMMA AIEffect ==
  ASSUME FlowTypes, Streams, AIStep, UNCHANGED <<now, md, out1m, out15, out1h, failed>>
  PROVE  /\ FlowTypes'
         /\ NewSnaps' \subseteq NewSnaps \cup pending15 /\ pending15' \subseteq pending15 \cup NewSnaps
         /\ \/ lastHitch' = now
            \/ /\ lastHitch' = lastHitch /\ pending15' \subseteq pending15 /\ ai.up
               /\ NewBlocks' \subseteq NewBlocks
               /\ PollBlocks \/ ProcessBlock \/ PollSnapshots \/ DecideSnapshot
  <1>1. /\ NewBlocks' = Unread(out1h, read1h', ai'.blocks) /\ NewSnaps' = Unread(out15, read15', ai'.snaps)
        /\ NewBlocks = Unread(out1h, read1h, ai.blocks) /\ NewSnaps = Unread(out15, read15, ai.snaps)
    BY SetsPrimed
  <1>2. /\ ai \in Ai /\ ai.blocks \in Seq(Nat) /\ ai.snaps \in Seq(Nat)
        /\ read1h \in Nat /\ read15 \in Nat /\ read1h <= Len(out1h) /\ read15 <= Len(out15)
        /\ pending15 \subseteq Nat /\ now \in Nat /\ out1h \in Seq(Nat) /\ out15 \in Seq(Nat)
        /\ Len(out1h) \in Nat /\ Len(out15) \in Nat
        /\ stamp \in Nat /\ stamp <= now /\ kept \in Bias /\ decision \in [asof : Nat, bias : Bias]
    <2>1. /\ ai \in Ai /\ read1h \in Nat /\ read15 \in Nat /\ read1h <= Len(out1h) /\ read15 <= Len(out15)
          /\ pending15 \subseteq Nat /\ stamp \in Nat /\ stamp <= now /\ kept \in Bias
          /\ decision \in [asof : Nat, bias : Bias]
          /\ now \in Nat /\ out1h \in Seq(Nat) /\ out15 \in Seq(Nat)
      BY DEF FlowTypes, Streams
    <2>2. ai.blocks \in Seq(Nat) /\ ai.snaps \in Seq(Nat)
      BY <2>1 DEF Ai
    <2>3. Len(out1h) \in Nat /\ Len(out15) \in Nat
      BY <2>1
    <2>4. QED
      BY <2>1, <2>2, <2>3
  <1>3. now' = now /\ out1h' = out1h /\ out15' = out15
    OBVIOUS
  <1>4. CASE StartAI
    <2>1. /\ ai' \in Ai /\ ai'.blocks = <<>> /\ ai'.snaps = <<>>
          /\ read1h' \in {read1h, Len(out1h)} /\ read15' \in {read15, Len(out15)}
          /\ lastHitch' = now /\ UNCHANGED <<pending15, stamp, kept, decision>>
      BY <1>4, StartFields
    <2>2. NewSnaps' \subseteq NewSnaps
      <3>1. Unread(out15, Len(out15), <<>>) = {} /\ Unread(out15, read15, <<>>) \subseteq Unread(out15, read15, ai.snaps)
        BY <1>2, UnreadNone, UnreadTyped
      <3>2. QED
        BY <1>1, <2>1, <3>1
    <2>3. FlowTypes'
      BY <1>2, <1>3, <2>1 DEF FlowTypes
    <2>4. QED
      BY <2>1, <2>2, <2>3
  <1>5. CASE PollBlocks
    <2>1. /\ ai' \in Ai /\ ai.up /\ ai.blocks = <<>> /\ ai'.snaps = ai.snaps
          /\ ai'.blocks = Batch(out1h, read1h, 5) /\ read1h' = read1h + Len(Batch(out1h, read1h, 5))
          /\ UNCHANGED <<read15, pending15, stamp, kept, decision, hitches, lastHitch>>
      BY <1>5, PollFields
    <2>2. LET got == Batch(out1h, read1h, 5)
          IN  /\ read1h + Len(got) \in Nat /\ read1h + Len(got) <= Len(out1h)
              /\ Unread(out1h, read1h + Len(got), got) = Unread(out1h, read1h, <<>>)
      BY <1>2, UnreadBatch
    <2>3. read1h' \in Nat /\ read1h' <= Len(out1h) /\ NewBlocks' = NewBlocks /\ NewSnaps' = NewSnaps
      BY <1>1, <2>1, <2>2
    <2>4. FlowTypes'
      BY <1>2, <1>3, <2>1, <2>3 DEF FlowTypes
    <2>5. QED
      BY <1>5, <2>1, <2>3, <2>4
  <1>6. CASE PollBlocksFails
    <2>1. /\ ai' \in Ai /\ ai'.snaps = ai.snaps
          /\ read1h' \in Nat /\ read1h' <= Len(out1h)
          /\ lastHitch' = now /\ UNCHANGED <<read15, pending15, stamp, kept, decision>>
      BY <1>6, PollFailsFields
    <2>2. FlowTypes'
      BY <1>2, <1>3, <2>1 DEF FlowTypes
    <2>3. QED
      BY <1>1, <2>1, <2>2
  <1>7. CASE ProcessBlock
    <2>1. /\ ai' \in Ai /\ ai.up /\ ai'.blocks = Tail(ai.blocks) /\ ai'.snaps = ai.snaps
          /\ ai.blocks # <<>> /\ Head(ai.blocks) \in Nat
          /\ IF Debounced(now) THEN ai'.cached = ai.cached /\ UNCHANGED <<stamp, kept>>
             ELSE ai'.cached = BiasOf(Head(ai.blocks)) /\ stamp' = now /\ kept' = BiasOf(Head(ai.blocks))
          /\ UNCHANGED <<read1h, read15, pending15, decision, hitches, lastHitch>>
      BY <1>7, ProcessFields
    <2>2. stamp' \in {stamp, now} /\ kept' \in Bias
      <3>1. BiasOf(Head(ai.blocks)) \in Bias
        BY <1>2, <2>1, BiasTyped
      <3>2. QED
        BY <1>2, <2>1, <3>1
    <2>3. NewBlocks' \subseteq NewBlocks /\ NewSnaps' = NewSnaps
      BY <1>1, <1>2, <2>1, UnreadTail
    <2>4. FlowTypes'
      BY <1>2, <1>3, <2>1, <2>2 DEF FlowTypes
    <2>5. QED
      BY <1>7, <2>1, <2>3, <2>4
  <1>8. CASE BlockRaises
    <2>1. /\ ai' \in Ai /\ ai'.snaps = ai.snaps
          /\ stamp' \in {stamp, now} /\ kept' \in Bias
          /\ lastHitch' = now /\ UNCHANGED <<read1h, read15, pending15, decision>>
      BY <1>8, RaisesFields
    <2>2. FlowTypes'
      BY <1>2, <1>3, <2>1 DEF FlowTypes
    <2>3. QED
      BY <1>1, <2>1, <2>2
  <1>9. CASE PollSnapshots
    <2>1. /\ ai' \in Ai /\ ai.up /\ ai'.blocks = ai.blocks /\ ai.snaps = <<>>
          /\ \/ \E old \in pending15 :
                  ai'.snaps = <<old>> /\ pending15' = pending15 \ {old} /\ read15' = read15
             \/ /\ ai'.snaps = Batch(out15, read15, 10) /\ pending15' = pending15
                /\ read15' = read15 + Len(Batch(out15, read15, 10))
          /\ UNCHANGED <<read1h, stamp, kept, decision, hitches, lastHitch>>
      BY <1>9, SnapshotsFields
    <2>2. NewBlocks' = NewBlocks
      BY <1>1, <2>1
    <2>3. ASSUME NEW old \in pending15,
                 ai'.snaps = <<old>>, pending15' = pending15 \ {old}, read15' = read15
          PROVE  FlowTypes' /\ NewSnaps' \subseteq NewSnaps \cup pending15 /\ pending15' \subseteq pending15
      <3>1. Range(<<old>>) = {old}
        <4>1. DOMAIN <<old>> = {1} /\ <<old>>[1] = old
          OBVIOUS
        <4>2. QED
          BY <4>1 DEF Range
      <3>2. Unread(out15, read15, <<old>>) \subseteq Unread(out15, read15, <<>>) \cup {old}
        BY <3>1 DEF Unread
      <3>3. NewSnaps' \subseteq NewSnaps \cup pending15
        <4>1. NewSnaps' = Unread(out15, read15, <<old>>) /\ NewSnaps = Unread(out15, read15, <<>>)
          BY <1>1, <2>1, <2>3
        <4>2. QED
          BY <2>3, <3>2, <4>1
      <3>4. FlowTypes'
        BY <1>2, <1>3, <2>1, <2>3 DEF FlowTypes
      <3>5. QED
        BY <2>3, <3>3, <3>4
    <2>4. CASE /\ ai'.snaps = Batch(out15, read15, 10) /\ pending15' = pending15
               /\ read15' = read15 + Len(Batch(out15, read15, 10))
      <3>1. LET got == Batch(out15, read15, 10)
            IN  /\ read15 + Len(got) \in Nat /\ read15 + Len(got) <= Len(out15)
                /\ Unread(out15, read15 + Len(got), got) = Unread(out15, read15, <<>>)
        BY <1>2, UnreadBatch
      <3>2. read15' \in Nat /\ read15' <= Len(out15) /\ NewSnaps' = NewSnaps
        <4> DEFINE got == Batch(out15, read15, 10)
        <4>1. /\ read15 + Len(got) \in Nat /\ read15 + Len(got) <= Len(out15)
              /\ Unread(out15, read15 + Len(got), got) = Unread(out15, read15, <<>>)
          BY <3>1
        <4>2. ai'.snaps = got /\ read15' = read15 + Len(got)
          BY <2>4
        <4> HIDE DEF got
        <4>3. NewSnaps' = Unread(out15, read15 + Len(got), got) /\ NewSnaps = Unread(out15, read15, <<>>)
          BY <1>1, <2>1, <4>2
        <4>4. QED
          BY <4>1, <4>2, <4>3
      <3>3. FlowTypes'
        BY <1>2, <1>3, <2>1, <2>4, <3>2 DEF FlowTypes
      <3>4. QED
        BY <1>9, <2>1, <2>2, <2>4, <3>2, <3>3
    <2>5. QED
      BY <1>9, <2>1, <2>2, <2>3, <2>4
  <1>10. CASE DecideSnapshot
    <2>1. /\ ai' \in Ai /\ ai.up /\ ai'.blocks = ai.blocks /\ ai.snaps # <<>> /\ ai'.snaps = Tail(ai.snaps)
          /\ decision' \in [asof : Nat, bias : Bias]
          /\ UNCHANGED <<read1h, read15, pending15, stamp, kept, hitches, lastHitch>>
      BY <1>10, DecideFields
    <2>2. NewBlocks' = NewBlocks /\ NewSnaps' \subseteq NewSnaps
      BY <1>1, <1>2, <2>1, UnreadTail
    <2>3. FlowTypes'
      BY <1>2, <1>3, <2>1 DEF FlowTypes
    <2>4. QED
      BY <1>10, <2>1, <2>2, <2>3
  <1>11. CASE AIDies
    <2>1. /\ ai' \in Ai /\ ai'.snaps = <<>> /\ pending15' = pending15 \cup Range(ai.snaps)
          /\ lastHitch' = now /\ UNCHANGED <<read1h, read15, stamp, kept, decision>>
      BY <1>11, DiesFields
    <2>2. /\ Unread(out15, read15, <<>>) \subseteq Unread(out15, read15, ai.snaps)
          /\ Range(ai.snaps) \subseteq Unread(out15, read15, ai.snaps)
          /\ Unread(out15, read15, ai.snaps) \subseteq Nat
      BY <1>2, UnreadTyped
    <2>3. NewSnaps' \subseteq NewSnaps /\ pending15' \subseteq pending15 \cup NewSnaps /\ pending15' \subseteq Nat
      BY <1>1, <1>2, <2>1, <2>2
    <2>4. FlowTypes'
      BY <1>2, <1>3, <2>1, <2>3 DEF FlowTypes
    <2>5. QED
      BY <2>1, <2>3, <2>4
  <1>12. QED
    BY <1>4, <1>5, <1>6, <1>7, <1>8, <1>9, <1>10, <1>11 DEF AIStep

LEMMA AISnaps ==
  ASSUME ClockInv, FlowTypes, SnapsCalm, AIStep, UNCHANGED <<now, md, out1m, out15, out1h, failed>>
  PROVE  SnapsCalm'
  <1>1. now \in Nat /\ lastHitch \in Nat /\ lastHitch <= now /\ Streams /\ pending15 \subseteq Nat
        /\ NewSnaps \subseteq Nat
    <2>1. now \in Nat /\ lastHitch \in Nat /\ lastHitch <= now /\ Streams /\ pending15 \subseteq Nat
      BY ClockStreams DEF ClockInv, ClockTypes, FlowTypes
    <2>2. NewSnaps \subseteq Nat
      <3>1. ai.snaps \in Seq(Nat) /\ read15 \in Nat /\ out15 \in Seq(Nat)
        BY <2>1 DEF FlowTypes, Ai, Streams
      <3>2. QED
        BY <3>1, UnreadTyped DEF NewSnaps
    <2>3. QED
      BY <2>1, <2>2
  <1>2. /\ NewSnaps' \subseteq NewSnaps \cup pending15 /\ pending15' \subseteq pending15 \cup NewSnaps
        /\ \/ lastHitch' = now
           \/ lastHitch' = lastHitch /\ pending15' \subseteq pending15 /\ ai.up
    BY <1>1, AIEffect
  <1>3. /\ \A x \in Range(out15) \cup NewSnaps : x < now
        /\ \A x \in pending15 : x < lastHitch
        /\ ai.up => \A x \in NewSnaps : x < lastHitch \/ (x = now - 1 /\ md.up)
    BY DEF SnapsCalm
  <1>4. \A x \in pending15 : x < now
    BY <1>1, <1>3
  <1>5. \A x \in Range(out15') \cup NewSnaps' : x < now'
    <2>1. Range(out15') = Range(out15)
      OBVIOUS
    <2>2. QED
      BY <1>2, <1>3, <1>4, <2>1
  <1>6. \A x \in pending15' : x < lastHitch'
    BY <1>2, <1>3, <1>4
  <1>7. ai'.up => \A x \in NewSnaps' : x < lastHitch' \/ (x = now' - 1 /\ md'.up)
    <2>1. CASE lastHitch' = now
      BY <1>5, <2>1
    <2>2. CASE lastHitch' = lastHitch /\ ai.up
      BY <1>2, <1>3, <2>2
    <2>3. QED
      BY <1>2, <2>1, <2>2
  <1>8. QED
    BY <1>5, <1>6, <1>7 DEF SnapsCalm

\* Under a valid copy in memory nothing else is looked up.
LEMMA StaysGuided ==
  ASSUME NEW h \in Nat, NEW x \in Nat, GuidedBy(h), x < h + Hour
  PROVE  Refreshed(x) = ai.cached /\ Valid(ai.cached, x)
  BY ClockConstants DEF GuidedBy, Refreshed, Valid

\* What guides this minute holds for the snapshots in hand too.
LEMMA GuidedNow ==
  ASSUME ClockInv, FlowInv, ai.up, ai.snaps # <<>>, lastHitch < now
  PROVE  LET x == Head(ai.snaps)
         IN  /\ x \in NewSnaps /\ x \in Nat /\ x < now
             /\ stamp = now => Refreshed(x) = ai.cached
             /\ GuidedBy(HourOf(now)) => Refreshed(x) = ai.cached /\ Valid(ai.cached, x)
             /\ now - Hour > 0 /\ GuidedBy(now - Hour) => Refreshed(x) = ai.cached /\ Valid(ai.cached, x)
  <1> DEFINE x == Head(ai.snaps)
  <1>1. now \in Nat /\ ai.snaps \in Seq(Nat) /\ read15 \in Nat /\ out15 \in Seq(Nat)
    BY DEF ClockInv, ClockTypes, FlowInv, FlowTypes, Ai
  <1>2. x \in NewSnaps /\ x \in Nat
    BY <1>1, UnreadTail DEF NewSnaps
  <1> HIDE DEF x
  <1>3. x < now
    BY <1>2 DEF FlowInv, SnapsCalm
  <1>4. stamp = now => Refreshed(x) = ai.cached
    <2> SUFFICES ASSUME stamp = now PROVE Refreshed(x) = ai.cached
      OBVIOUS
    <2>1. GuidedBy(now)
      BY DEF FlowInv, StampCalm, Calm
    <2>2. x < now + Hour
      BY <1>1, <1>2, <1>3, ClockConstants
    <2>3. QED
      BY <1>1, <1>2, <2>1, <2>2, StaysGuided
  <1>5. GuidedBy(HourOf(now)) => Refreshed(x) = ai.cached /\ Valid(ai.cached, x)
    <2>1. HourOf(now) \in Nat /\ now < HourOf(now) + Hour
      BY <1>1, NextMinute
    <2>2. x < HourOf(now) + Hour
      BY <1>1, <1>2, <1>3, <2>1, ClockConstants
    <2>3. QED
      BY <1>2, <2>1, <2>2, StaysGuided
  <1>6. now - Hour > 0 /\ GuidedBy(now - Hour) => Refreshed(x) = ai.cached /\ Valid(ai.cached, x)
    <2> SUFFICES ASSUME now - Hour > 0, GuidedBy(now - Hour)
                 PROVE  Refreshed(x) = ai.cached /\ Valid(ai.cached, x)
      OBVIOUS
    <2>1. now - Hour \in Nat /\ x < now - Hour + Hour
      BY <1>1, <1>2, <1>3, ClockConstants
    <2>2. QED
      BY <1>2, <2>1, StaysGuided
  <1>7. QED
    BY <1>2, <1>3, <1>4, <1>5, <1>6 DEF x


\* The bias stays what it was, or the block of this minute is processed.
LEMMA AIFlow ==
  ASSUME ClockInv, FlowInv, AIStep, UNCHANGED <<now, md, out1m, out15, out1h, failed>>
  PROVE  FlowInv'
  <1>1. Streams /\ FlowTypes /\ SnapsCalm /\ MdCalm /\ BlocksCalm /\ StampCalm /\ Guided
    BY ClockStreams DEF FlowInv
  <1>2. FlowTypes' /\ SnapsCalm'
    BY <1>1, AIEffect, AISnaps
  <1>3. now \in Nat /\ now' = now /\ lastHitch \in Nat /\ lastHitch <= now /\ md' = md /\ stamp \in Nat /\ stamp <= now
    BY DEF ClockInv, ClockTypes, FlowInv, FlowTypes
  <1>4. CASE lastHitch' = now
    BY <1>2, <1>3, <1>4, Disturbed DEF FlowInv
  <1>5. CASE lastHitch' # now
    <2>1. /\ lastHitch' = lastHitch /\ lastHitch < now /\ ai.up
          /\ NewBlocks' \subseteq NewBlocks
          /\ PollBlocks \/ ProcessBlock \/ PollSnapshots \/ DecideSnapshot
      BY <1>1, <1>3, <1>5, AIEffect
    <2>2. MdCalm'
      BY <1>1, <1>3, <2>1 DEF MdCalm, Calm
    <2>3. \A b \in NewBlocks : b = now /\ Top(now)
      BY <1>1, <2>1 DEF BlocksCalm, Calm
    <2>4. BlocksCalm'
      BY <1>3, <2>1, <2>3 DEF BlocksCalm, Top
    <2>5. /\ stamp <= lastHitch \/ Top(stamp)
          /\ stamp = now => GuidedBy(now)
      BY <1>1, <2>1 DEF StampCalm, Calm
    \* When the copy and the blocks stay as they are
    <2>6. ASSUME ai'.cached = ai.cached, NewBlocks' = NewBlocks, stamp' = stamp
          PROVE  StampCalm' /\ Guided'
      <3>1. StampCalm'
        BY <1>3, <2>1, <2>5, <2>6 DEF StampCalm, GuidedBy, Top
      <3>2. Coming => Coming'
        BY <1>3, <2>6 DEF Coming
      <3>3. Guided'
        <4> SUFFICES ASSUME md.up, HourOf(now) > lastHitch + Debounce
                     PROVE  \/ GuidedBy(HourOf(now))
                            \/ /\ Top(now) /\ Coming'
                               /\ now - Hour > lastHitch + Debounce => GuidedBy(now - Hour)
          BY <1>3, <2>1, <2>6 DEF Guided, GuidedBy, Top, HourOf, Coming
        <4>1. QED
          BY <1>1, <2>1, <3>2 DEF Guided
      <3>4. QED
        BY <3>1, <3>3
    <2>7. CASE PollBlocks
      <3>1. /\ ai.blocks = <<>> /\ ai'.cached = ai.cached /\ stamp' = stamp
            /\ ai'.blocks = Batch(out1h, read1h, 5) /\ read1h' = read1h + Len(Batch(out1h, read1h, 5))
        BY <1>1, <2>7, PollFields
      <3>2. LET got == Batch(out1h, read1h, 5)
            IN  Unread(out1h, read1h + Len(got), got) = Unread(out1h, read1h, <<>>)
        BY <1>1, UnreadBatch DEF FlowTypes, Streams
      <3>3. NewBlocks' = Unread(out1h, read1h', ai'.blocks) /\ NewBlocks = Unread(out1h, read1h, ai.blocks)
        BY SetsPrimed
      <3>4. NewBlocks' = NewBlocks
        BY <3>1, <3>2, <3>3
      <3>5. QED
        BY <1>2, <2>2, <2>4, <2>6, <3>1, <3>4 DEF FlowInv
    <2>8. CASE PollSnapshots
      <3>1. ai'.blocks = ai.blocks /\ ai'.cached = ai.cached /\ stamp' = stamp /\ read1h' = read1h
        BY <1>1, <2>8, SnapshotsFields
      <3>2. NewBlocks' = NewBlocks
        BY <3>1, SetsPrimed
      <3>3. QED
        BY <1>2, <2>2, <2>4, <2>6, <3>1, <3>2 DEF FlowInv
    <2>9. CASE DecideSnapshot
      <3>1. /\ ai'.blocks = ai.blocks /\ ai.snaps # <<>> /\ ai'.cached = Refreshed(Head(ai.snaps))
            /\ stamp' = stamp /\ read1h' = read1h
        BY <1>1, <2>9, DecideFields
      <3>2. NewBlocks' = NewBlocks
        BY <3>1, SetsPrimed
      <3>3. LET x == Head(ai.snaps)
            IN  /\ stamp = now => Refreshed(x) = ai.cached
                /\ GuidedBy(HourOf(now)) => Refreshed(x) = ai.cached
                /\ now - Hour > 0 /\ GuidedBy(now - Hour) => Refreshed(x) = ai.cached
        BY <2>1, <3>1, GuidedNow
      <3>4. (ai'.cached = ai.cached) \/ (stamp # now /\ ~GuidedBy(HourOf(now)) /\ ~(now - Hour > 0 /\ GuidedBy(now - Hour)))
        BY <3>1, <3>3
      <3>5. CASE ai'.cached = ai.cached
        BY <1>2, <2>2, <2>4, <2>6, <3>1, <3>2, <3>5 DEF FlowInv
      <3>6. CASE stamp # now /\ ~GuidedBy(HourOf(now)) /\ ~(now - Hour > 0 /\ GuidedBy(now - Hour))
        <4>1. StampCalm'
          BY <1>3, <2>1, <2>5, <3>1, <3>6 DEF StampCalm, Top
        <4>2. Coming => Coming'
          BY <1>3, <3>2 DEF Coming
        <4>3. Guided'
          <5> SUFFICES ASSUME md.up, HourOf(now) > lastHitch + Debounce
                       PROVE  /\ Top(now) /\ Coming'
                              /\ ~(now - Hour > lastHitch + Debounce)
            BY <1>3, <2>1, <3>1 DEF Guided, GuidedBy, Top, HourOf, Coming
          <5>1. now - Hour > lastHitch + Debounce => now - Hour > 0
            BY <1>3, ClockConstants, LayerConstants
          <5>2. QED
            BY <1>1, <2>1, <3>6, <4>2, <5>1 DEF Guided
        <4>4. QED
          BY <1>2, <2>2, <2>4, <4>1, <4>3 DEF FlowInv
      <3>7. QED
        BY <3>4, <3>5, <3>6
    <2>10. CASE ProcessBlock
      <3>1. /\ ai.blocks # <<>>
            /\ IF Debounced(now) THEN ai'.cached = ai.cached /\ UNCHANGED <<stamp, kept>>
               ELSE ai'.cached = BiasOf(Head(ai.blocks)) /\ stamp' = now
        BY <1>1, <2>10, ProcessFields
      <3>2. Head(ai.blocks) = now /\ Top(now)
        <4>1. ai.blocks \in Seq(Nat) /\ out1h \in Seq(Nat) /\ read1h \in Nat
          BY <1>1 DEF FlowTypes, Ai, Streams
        <4>2. Head(ai.blocks) \in NewBlocks
          BY <3>1, <4>1, UnreadTail DEF NewBlocks
        <4>3. QED
          BY <2>3, <4>2
      <3>3. HourOf(now) = now
        BY <1>3, <3>2, NextMinute
      <3>4. CASE ~Debounced(now)
        <4>1. ai'.cached.block = now /\ ai'.cached.until = now + Hour /\ stamp' = now
          BY <1>3, <3>1, <3>2, <3>4, BiasTyped
        <4>2. StampCalm'
          BY <1>3, <3>2, <4>1 DEF StampCalm, GuidedBy, Top
        <4>3. Guided'
          BY <1>3, <3>3, <4>1 DEF Guided, GuidedBy, HourOf
        <4>4. QED
          BY <1>2, <2>2, <2>4, <4>2, <4>3 DEF FlowInv
      <3>5. CASE Debounced(now)
        <4>1. ai'.cached = ai.cached /\ stamp' = stamp /\ stamp # 0 /\ now - stamp < Debounce
          BY <3>1, <3>5 DEF Debounced
        <4>2. StampCalm'
          BY <1>3, <2>1, <2>5, <4>1 DEF StampCalm, GuidedBy, Top
        <4>3. Guided'
          <5> SUFFICES ASSUME HourOf(now) > lastHitch + Debounce PROVE GuidedBy(HourOf(now))
            BY <1>3, <2>1, <4>1 DEF Guided, GuidedBy, HourOf
          <5>1. Top(stamp)
            BY <1>3, <2>5, <3>3, <4>1, LayerConstants
          <5>2. stamp = now
            <6>1. now - stamp < Hour
              BY <1>3, <4>1, ClockConstants, LayerConstants
            <6>2. QED
              BY <1>3, <3>2, <5>1, <6>1, OneTop
          <5>3. QED
            BY <2>5, <3>3, <5>2
        <4>4. QED
          BY <1>2, <2>2, <2>4, <4>2, <4>3 DEF FlowInv
      <3>6. QED
        BY <3>4, <3>5
    <2>11. QED
      BY <2>1, <2>7, <2>8, <2>9, <2>10
  <1>6. QED
    BY <1>4, <1>5

-----------------------------------------------------------------------------
\* The minute hand

LEMMA TickFlow ==
  ASSUME ClockInv, FlowInv, Tick
  PROVE  FlowInv'
  <1>1. Streams /\ FlowTypes /\ SnapsCalm /\ MdCalm /\ BlocksCalm /\ StampCalm /\ Guided
    BY ClockStreams DEF FlowInv
  <1>2. /\ now \in Nat \ {0} /\ now' = now + 1 /\ now' \in Nat /\ lastHitch \in Nat /\ lastHitch <= now
        /\ stamp \in Nat /\ stamp <= now /\ md \in Md
        /\ UNCHANGED <<md, out1m, out15, out1h, failed, ai, read1h, read15, pending15, stamp, kept, decision>>
    BY <1>1 DEF ClockInv, ClockTypes, FlowTypes, Tick
  <1>3. /\ NewBlocks' = NewBlocks /\ NewSnaps' = NewSnaps /\ Range(out15') = Range(out15)
    BY <1>2, SetsPrimed
  <1>4. FlowTypes'
    BY <1>1, <1>2 DEF FlowTypes
  <1>5. \/ lastHitch' = now + 1
        \/ lastHitch' = lastHitch /\ ClockRests /\ AIRests
    BY DEF Tick, NoHitch, damage
  <1>6. NewSnaps \subseteq Nat /\ pending15 \subseteq Nat /\ Range(out15) \subseteq Nat
    <2>1. ai.snaps \in Seq(Nat) /\ read15 \in Nat /\ out15 \in Seq(Nat) /\ pending15 \subseteq Nat
      BY <1>1 DEF FlowTypes, Ai, Streams
    <2>2. Range(out15) \subseteq Nat
      BY <2>1 DEF Range
    <2>3. NewSnaps \subseteq Nat
      BY <2>1, UnreadTyped DEF NewSnaps
    <2>4. QED
      BY <2>1, <2>2, <2>3
  <1>7. /\ \A x \in Range(out15') \cup NewSnaps' : x < now'
        /\ \A x \in pending15' : x < lastHitch'
    <2>1. /\ \A x \in Range(out15) \cup NewSnaps : x < now
          /\ \A x \in pending15 : x < lastHitch
      BY <1>1 DEF SnapsCalm
    <2>2. \A x \in Range(out15) \cup NewSnaps : x < now + 1
      <3> SUFFICES ASSUME NEW x \in Range(out15) \cup NewSnaps PROVE x < now + 1
        OBVIOUS
      <3>1. x < now /\ x \in Nat
        BY <1>6, <2>1
      <3>2. QED
        BY <1>2, <3>1
    <2>3. \A x \in pending15 : x < lastHitch'
      BY <1>2, <1>5, <1>6, <2>1
    <2>4. QED
      BY <1>2, <1>3, <2>2, <2>3
  <1>8. CASE lastHitch' = now + 1
    <2>1. MdCalm' /\ BlocksCalm' /\ StampCalm' /\ Guided'
      BY <1>2, <1>8, Disturbed
    <2>2. SnapsCalm'
      BY <1>2, <1>7, <1>8 DEF SnapsCalm
    <2>3. QED
      BY <1>4, <2>1, <2>2 DEF FlowInv
  <1>9. CASE lastHitch' = lastHitch /\ ClockRests /\ AIRests
    <2>1. md.up => md.pc = "idle" /\ md.asof = now
      BY <1>9 DEF ClockRests
    <2>2. ai.up => NewBlocks = {} /\ NewSnaps = {}
      <3>1. ai.up => read1h = Len(out1h) /\ ai.blocks = <<>> /\ read15 = Len(out15) /\ ai.snaps = <<>>
        BY <1>9 DEF AIRests
      <3>2. Unread(out1h, Len(out1h), <<>>) = {} /\ Unread(out15, Len(out15), <<>>) = {}
        BY <1>1, UnreadNone DEF Streams
      <3>3. QED
        BY <3>1, <3>2 DEF NewBlocks, NewSnaps
    <2>3. MdCalm'
      BY <1>2, <2>1 DEF MdCalm
    <2>4. SnapsCalm'
      BY <1>2, <1>3, <1>7, <2>2 DEF SnapsCalm
    <2>5. BlocksCalm'
      BY <1>2, <1>3, <2>2 DEF BlocksCalm
    <2>6. StampCalm'
      <3> SUFFICES ASSUME ai.up PROVE (stamp <= lastHitch \/ Top(stamp)) /\ stamp # now + 1
        BY <1>2, <1>9 DEF StampCalm, Top
      <3>1. CASE lastHitch < now
        BY <1>1, <1>2, <3>1 DEF StampCalm, Calm
      <3>2. CASE lastHitch = now
        BY <1>2, <3>2
      <3>3. QED
        BY <1>2, <3>1, <3>2
    <2>7. ai.up /\ md.up /\ HourOf(now) > lastHitch + Debounce => GuidedBy(HourOf(now))
      <3> SUFFICES ASSUME ai.up, md.up, HourOf(now) > lastHitch + Debounce PROVE GuidedBy(HourOf(now))
        OBVIOUS
      <3>1. ~Coming
        BY <1>2, <2>1, <2>2 DEF Coming
      <3>2. QED
        BY <1>1, <3>1 DEF Guided
    <2>8. Guided'
      <3> SUFFICES ASSUME ai.up, md.up, HourOf(now') > lastHitch + Debounce
                   PROVE  \/ GuidedBy(HourOf(now'))
                          \/ /\ Top(now') /\ Coming'
                             /\ now' - Hour > lastHitch + Debounce => GuidedBy(now' - Hour)
        <4>1. ai' = ai /\ md' = md /\ lastHitch' = lastHitch
          BY <1>2, <1>9
        <4>3. QED
          BY <4>1 DEF Guided, GuidedBy, Top, HourOf
      <3> USE <1>2
      <3>1. /\ Top(now + 1) => HourOf(now) = now + 1 - Hour
            /\ ~Top(now + 1) => HourOf(now + 1) = HourOf(now)
        BY <1>2, NextMinute
      <3>2. Coming'
        BY <1>2, <2>1 DEF Coming
      <3>3. CASE Top(now + 1)
        <4>1. HourOf(now) = now' - Hour /\ Top(now')
          <5>1. now' - Hour = now + 1 - Hour
            BY <1>2, ClockConstants
          <5>2. Top(now')
            BY <1>2, <3>3, Zenon
          <5>3. QED
            BY <3>1, <3>3, <5>1, <5>2
        <4>2. now' - Hour > lastHitch + Debounce => GuidedBy(now' - Hour)
          BY <2>7, <4>1
        <4>3. QED
          BY <3>2, <4>1, <4>2
      <3>4. CASE ~Top(now + 1)
        BY <1>2, <2>7, <3>1, <3>4
      <3>5. QED
        BY <3>3, <3>4
    <2>9. QED
      BY <1>4, <2>3, <2>4, <2>5, <2>6, <2>8 DEF FlowInv
  <1>10. QED
    BY <1>5, <1>8, <1>9

LEMMA StutterFlow ==
  ASSUME FlowInv, UNCHANGED flowVars
  PROVE  FlowInv'
  <1>1. UNCHANGED <<now, md, out1m, out15, out1h, failed, hitches, lastHitch, ai, read1h, read15,
                    pending15, stamp, kept, decision>>
    BY DEF flowVars
  <1>2. NewBlocks' = NewBlocks /\ NewSnaps' = NewSnaps /\ Range(out15') = Range(out15)
    BY <1>1, SetsPrimed
  <1>3. FlowTypes'
    BY <1>1 DEF FlowInv, FlowTypes
  <1>4. MdCalm' /\ SnapsCalm'
    BY <1>1, <1>2 DEF FlowInv, MdCalm, Calm, SnapsCalm
  <1>5. BlocksCalm' /\ StampCalm'
    BY <1>1, <1>2 DEF FlowInv, BlocksCalm, StampCalm, Calm, Top, GuidedBy
  <1>6. Guided'
    BY <1>1, <1>2 DEF FlowInv, Guided, Coming, GuidedBy, HourOf, Top
  <1>7. QED
    BY <1>3, <1>4, <1>5, <1>6 DEF FlowInv

LEMMA FlowNextKeeps == ClockInv /\ FlowInv /\ [FlowNext]_flowVars => FlowInv'
  BY ClockFlow, AIFlow, TickFlow, StutterFlow DEF FlowNext

-----------------------------------------------------------------------------
\* The decision itself

LEMMA Decides ==
  ASSUME ClockInv, FlowInv, DecideSnapshot
  PROVE  CurrentBlockGuides'
  <1> DEFINE x == Head(ai.snaps)
  <1>1. Streams /\ FlowTypes
    BY ClockStreams DEF FlowInv
  <1>2. now \in Nat /\ lastHitch \in Nat /\ lastHitch <= now
    BY DEF ClockInv, ClockTypes
  <1>3. /\ ai.up /\ ai.snaps # <<>> /\ x \in Nat /\ lastHitch' = lastHitch
        /\ ai'.cached = Refreshed(x) /\ decision'.asof = x
        /\ Valid(ai'.cached, x) => decision'.bias = ai'.cached
    BY <1>1, DecideFields
  <1>4. CASE lastHitch = now
    <2>1. ai.snaps \in Seq(Nat) /\ read15 \in Nat /\ out15 \in Seq(Nat)
      BY <1>1 DEF FlowTypes, Ai, Streams
    <2>2. x \in NewSnaps
      BY <1>3, <2>1, UnreadTail DEF NewSnaps
    <2>3. x < now
      BY <2>2 DEF FlowInv, SnapsCalm
    <2>4. ~(x >= lastHitch + Hour + Debounce)
      BY <1>2, <1>3, <1>4, <2>3, ClockConstants, LayerConstants
    <2>5. QED
      BY <1>3, <2>4 DEF CurrentBlockGuides
  <1>5. CASE lastHitch < now
    <2>1. /\ x \in NewSnaps /\ x < now
          /\ GuidedBy(HourOf(now)) => Refreshed(x) = ai.cached /\ Valid(ai.cached, x)
          /\ now - Hour > 0 /\ GuidedBy(now - Hour) => Refreshed(x) = ai.cached /\ Valid(ai.cached, x)
      BY <1>3, <1>5, GuidedNow
    <2> HIDE DEF x
    <2> SUFFICES ASSUME x >= lastHitch + Hour + Debounce
                 PROVE  decision'.bias.block \in {HourOf(x), HourOf(x + 1)}
      BY <1>3 DEF CurrentBlockGuides, HourOf
    <2>2. Hour \in Nat \ {0} /\ Debounce \in Nat \ {0}
      BY ClockConstants, LayerConstants
    <2>3. x = now - 1 /\ md.up
      <3>1. x < lastHitch \/ (x = now - 1 /\ md.up)
        BY <1>3, <2>1 DEF FlowInv, SnapsCalm
      <3>2. QED
        BY <1>2, <1>3, <2>2, <3>1
    <2>4. now - Hour > lastHitch + Debounce /\ now - Hour > 0 /\ HourOf(now) > lastHitch + Debounce
      <3>1. now < HourOf(now) + Hour /\ HourOf(now) \in Nat
        BY <1>2, NextMinute
      <3>2. QED
        BY <1>2, <1>3, <2>2, <2>3, <3>1
    <2>5. GuidedBy(HourOf(now)) \/ (Top(now) /\ GuidedBy(now - Hour))
      BY <1>3, <2>3, <2>4 DEF FlowInv, Guided
    <2>6. CASE GuidedBy(HourOf(now))
      <3>1. decision'.bias.block = HourOf(now)
        BY <1>3, <2>1, <2>6 DEF GuidedBy
      <3>2. x + 1 = now
        BY <1>2, <2>3
      <3>3. QED
        BY <3>1, <3>2
    <2>7. CASE Top(now) /\ GuidedBy(now - Hour)
      <3>1. decision'.bias.block = now - Hour
        BY <1>3, <2>1, <2>4, <2>7 DEF GuidedBy
      <3>2. x + 1 = now
        BY <1>2, <2>3
      <3>3. HourOf(x) = x + 1 - Hour
        <4>1. Top(x + 1)
          BY <2>7, <3>2
        <4>2. QED
          BY <1>3, <4>1, NextMinute
      <3>4. x + 1 - Hour = now - Hour
        BY <1>2, <1>3, <2>2, <3>2
      <3>5. decision'.bias.block = HourOf(x)
        BY <3>1, <3>3, <3>4
      <3>6. QED
        BY <3>5
    <2>8. QED
      BY <2>5, <2>6, <2>7
  <1>6. QED
    BY <1>2, <1>4, <1>5

LEMMA OldDecision ==
  ASSUME CurrentBlockGuides, decision' = decision, lastHitch \in Nat, lastHitch' \in Nat, lastHitch <= lastHitch',
         decision.asof \in Nat
  PROVE  CurrentBlockGuides'
  <1>1. decision.asof >= lastHitch' + Hour + Debounce => decision.asof >= lastHitch + Hour + Debounce
    BY ClockConstants, LayerConstants
  <1>2. QED
    BY <1>1 DEF CurrentBlockGuides, HourOf

LEMMA GuidesNext ==
  ClockInv /\ ClockInv' /\ FlowInv /\ CurrentBlockGuides /\ [FlowNext]_flowVars => CurrentBlockGuides'
  <1> SUFFICES ASSUME ClockInv, ClockInv', FlowInv, CurrentBlockGuides, [FlowNext]_flowVars
               PROVE  CurrentBlockGuides'
    OBVIOUS
  <1>1. /\ now \in Nat /\ lastHitch \in Nat /\ lastHitch <= now /\ lastHitch' \in Nat /\ decision.asof \in Nat
        /\ Streams /\ FlowTypes
    BY ClockStreams DEF ClockInv, ClockTypes, FlowInv, FlowTypes
  <1>2. CASE DecideSnapshot
    BY <1>2, Decides
  <1>3. CASE ~DecideSnapshot
    <2>1. lastHitch' = now \/ lastHitch' = lastHitch \/ lastHitch' = now + 1
      <3>1. CASE ClockStep /\ UNCHANGED now /\ UNCHANGED flow
        BY <3>1, ClockEffect
      <3>2. CASE AIStep /\ UNCHANGED <<now, md, out1m, out15, out1h, failed>>
        BY <1>1, <3>2, AIEffect
      <3>3. CASE Tick
        BY <3>3 DEF Tick, NoHitch, damage
      <3>4. CASE UNCHANGED flowVars
        BY <3>4 DEF flowVars
      <3>5. QED
        BY <3>1, <3>2, <3>3, <3>4 DEF FlowNext
    <2>2. decision' = decision
      <3>1. CASE ClockStep /\ UNCHANGED now /\ UNCHANGED flow
        BY <3>1 DEF flow
      <3>2. CASE AIStep
        BY <1>3, <3>2 DEF AIStep, StartAI, PollBlocks, PollBlocksFails, ProcessBlock, BlockRaises,
                          PollSnapshots, AIDies
      <3>3. CASE Tick \/ UNCHANGED flowVars
        BY <3>3 DEF Tick, flowVars
      <3>4. QED
        BY <3>1, <3>2, <3>3 DEF FlowNext
    <2>3. QED
      BY <1>1, <2>1, <2>2, OldDecision
  <1>4. QED
    BY <1>2, <1>3

\* An hour and a debounce after the last hitch or start every decision of Layer 2
\* rests on the block of the hour of its snapshot, or on the one made in the minute
\* in which the snapshot came out, for every hour, debounce below it and expiry
\* above it.
THEOREM CurrentBlockAlwaysGuides == FlowSpec => []CurrentBlockGuides
  <1>1. FlowInit => FlowInv /\ CurrentBlockGuides
    BY InitFlowInv
  <1>2. FlowSpec => [](FlowInv /\ CurrentBlockGuides)
    BY <1>1, ClockAlways, FlowNextKeeps, GuidesNext, PTL DEF FlowSpec
  <1>3. QED
    BY <1>2, PTL

=============================================================================
