-------------------------- MODULE Approval_proofs --------------------------
(***************************************************************************)
(* Proofs about risk_engine and what it approves. First its guards, for    *)
(* every set of equities, every limit and every bound: types, the daily    *)
(* loss guard, and the streak of signal quality. Then the weights, for     *)
(* every universe, cap, position, feature and proposal: the limits of      *)
(* risk_engine on what it approves and those of Layer 2 on what it         *)
(* proposes.                                                               *)
(***************************************************************************)
EXTENDS RiskEngine, TargetLimits, FiniteSetTheorems, WellFoundedInduction, TLAPS

\* Escalation yields a mode, never a softer one than either argument.
LEMMA EscalateFacts ==
  ASSUME NEW m1 \in Modes, NEW m2 \in Modes
  PROVE  /\ Escalate(m1, m2) \in Modes
         /\ m1 = "HALT" \/ m2 = "HALT" => Escalate(m1, m2) = "HALT"
         /\ m1 # "NORMAL" \/ m2 # "NORMAL" => Escalate(m1, m2) # "NORMAL"
  BY DEF Escalate, Modes, Score

\* Publication keeps the mode of the guards or hardens it.
LEMMA DecideFacts ==
  ASSUME TypeOK, Decide
  PROVE  /\ mode' \in Modes
         /\ mode = "HALT" => mode' = "HALT"
         /\ mode # "NORMAL" => mode' # "NORMAL"
  <1>1. PICK calls \in SUBSET Modes, word \in Modes \cup {"other"}, evidence \in BOOLEAN :
          mode' = Escalate(MergeModes(Escalate(Escalate(mode,
                              ModeFrom(rejects >= RejectHalt, rejects >= RejectReduce)),
                                               MarketMode(calls)), GetControlMode(word)),
                           IF live /\ ~evidence THEN "HALT" ELSE "NORMAL")
    BY DEF Decide
  <1> DEFINE quality == MarketMode(calls)
             control == GetControlMode(word)
             reject == ModeFrom(rejects >= RejectHalt, rejects >= RejectReduce)
             first == Escalate(mode, reject)
             base == Escalate(first, quality)
             merged == MergeModes(base, control)
             approval == IF live /\ ~evidence THEN "HALT" ELSE "NORMAL"
  <1>2. reject \in Modes /\ quality \in Modes /\ control \in Modes
    BY DEF ModeFrom, MarketMode, GetControlMode, Modes
  <1>3. /\ first \in Modes
        /\ mode = "HALT" => first = "HALT"
        /\ mode # "NORMAL" => first # "NORMAL"
    BY <1>2, EscalateFacts DEF TypeOK
  <1>4. /\ base \in Modes
        /\ mode = "HALT" => base = "HALT"
        /\ mode # "NORMAL" => base # "NORMAL"
    BY <1>2, <1>3, EscalateFacts
  <1>5. /\ merged \in Modes
        /\ mode = "HALT" => merged = "HALT"
        /\ mode # "NORMAL" => merged # "NORMAL"
    BY <1>2, <1>4, EscalateFacts DEF MergeModes
  <1>6. approval \in Modes
    BY DEF Modes
  <1>7. mode' = Escalate(merged, approval)
    BY <1>1
  <1>8. QED
    BY <1>5, <1>6, <1>7, EscalateFacts

-----------------------------------------------------------------------------
(* Type correctness *)

\* The initial state is well typed.
LEMMA InitTypeOK == Init => TypeOK
  BY RiskAssumption
     DEF Init, TypeOK, RiskAssumption, Days, Modes, NoSnapshot

\* The daily guard stores an equity of the account.
LEMMA DailyTypes == TypeOK /\ DailyLoss => TypeOK'
  <1> SUFFICES ASSUME TypeOK, DailyLoss PROVE TypeOK'
    OBVIOUS
  <1>1. UNCHANGED <<live, equity, day, icLog, peak, streak, rejects, sent, faults, highest>>
        /\ pc' = "peak"
    BY DEF DailyLoss, world
  <1>2. CASE st.eq > 0
    <2> DEFINE base == DailyEquityBaseline
    <2>1. st.eq \in Equities /\ day \in Days
      BY <1>2 DEF TypeOK
    <2>2. base \in Equities
      BY <2>1 DEF TypeOK, DailyEquityBaseline
    <2>3. /\ baseline' = [baseline EXCEPT ![day] = base]
          /\ st' = [eq |-> st.eq, day |-> day]
          /\ opening' = [opening EXCEPT ![day] = IF @ = 0 THEN st.eq ELSE @]
          /\ mode' = Escalate(mode, ModeFrom(Lost(base, st.eq, DailyHalt),
                                             Lost(base, st.eq, DailyReduce)))
      BY <1>2 DEF DailyLoss
    <2>4. mode' \in Modes
      <3>1. ModeFrom(Lost(base, st.eq, DailyHalt), Lost(base, st.eq, DailyReduce)) \in Modes
        BY DEF ModeFrom, Modes
      <3>2. QED
        BY <2>3, <3>1, EscalateFacts DEF TypeOK
    <2>5. st' \in [eq : Equities \cup {0}, day : 0 .. day]
      BY <2>1, <2>3, RiskAssumption DEF TypeOK, Days, RiskAssumption
    <2>6. opening' \in [Days -> Equities \cup {0}] /\ baseline' \in [Days -> Equities \cup {0}]
      BY <2>1, <2>2, <2>3 DEF TypeOK
    <2>7. QED
      BY <1>1, <2>4, <2>5, <2>6 DEF TypeOK
  <1>3. CASE ~(st.eq > 0)
    BY <1>1, <1>3 DEF DailyLoss, TypeOK
  <1>4. QED
    BY <1>2, <1>3

\* The other guards keep the types.
LEMMA PeakTypes == TypeOK /\ PeakEquity => TypeOK'
  <1> SUFFICES ASSUME TypeOK, PeakEquity PROVE TypeOK'
    OBVIOUS
  <1>1. UNCHANGED <<live, equity, day, icLog, baseline, streak, rejects, st, sent, faults, opening>>
        /\ pc' = "ic"
    BY DEF PeakEquity, world
  <1>2. mode' \in Modes
    <2>1. \A m \in Modes : Escalate(mode, m) \in Modes
      BY EscalateFacts DEF TypeOK
    <2>2. \A b : ModeFrom(b, FALSE) \in Modes
      BY DEF ModeFrom, Modes
    <2>3. QED
      BY <2>1, <2>2 DEF PeakEquity, TypeOK
  <1>3. peak' \in Equities \cup {0} /\ highest' \in Equities \cup {0}
    BY DEF PeakEquity, TypeOK
  <1>4. QED
    BY <1>1, <1>2, <1>3 DEF TypeOK

LEMMA IcTypes == TypeOK /\ IcDecay => TypeOK'
  <1> SUFFICES ASSUME TypeOK, IcDecay PROVE TypeOK'
    OBVIOUS
  <1>1. UNCHANGED <<live, equity, day, icLog, baseline, peak, rejects, st, sent, faults, opening, highest>>
        /\ pc' = "decide"
    BY DEF IcDecay, world, history
  <1>2. streak' \in [n : Nat, ts : 0 .. Len(icLog)]
    <2>1. Len(icLog) \in Nat /\ streak.n \in Nat
      BY DEF TypeOK
    <2>2. NextStreak(Len(icLog)) \in [n : Nat, ts : 0 .. Len(icLog)]
      BY <2>1 DEF NextStreak
    <2>3. streak' \in {streak, NextStreak(Len(icLog))}
      BY DEF IcDecay, IcStreakNow
    <2>4. QED
      BY <2>2, <2>3 DEF TypeOK
  <1>3. mode' \in Modes
    <2>1. \A m \in Modes : Escalate(mode, m) \in Modes
      BY EscalateFacts DEF TypeOK
    <2>2. ModeFrom(FALSE, streak'.n >= IcStreak) \in Modes
      BY DEF ModeFrom, Modes
    <2>3. QED
      BY <2>1, <2>2 DEF IcDecay, TypeOK
  <1>4. QED
    BY <1>1, <1>2, <1>3 DEF TypeOK

\* Every step keeps the types.
LEMMA NextTypeOK == TypeOK /\ [Next]_vars => TypeOK'
  <1> SUFFICES ASSUME TypeOK, [Next]_vars PROVE TypeOK'
    OBVIOUS
  <1>0. NoSnapshot \in [eq : Equities \cup {0}, day : 0 .. day]
    BY RiskAssumption DEF TypeOK, NoSnapshot, Days, RiskAssumption
  <1>1. CASE Load
    <2>1. mode' \in Modes
      BY <1>1 DEF Load, Snapshots, HealthMode, Modes
    <2>2. st' \in [eq : Equities \cup {0}, day : 0 .. day]
      BY <1>1, RiskAssumption DEF Load, TypeOK, Days, RiskAssumption
    <2>3. QED
      BY <1>1, <2>1, <2>2 DEF Load, TypeOK, world, guards, history
  <1>2. CASE DailyLoss
    BY <1>2, DailyTypes
  <1>3. CASE PeakEquity
    BY <1>3, PeakTypes
  <1>4. CASE IcDecay
    BY <1>4, IcTypes
  <1>5. CASE Decide
    <2>1. mode' \in Modes
      BY <1>5, DecideFacts
    <2>2. sent' \in Seq(Actions)
      BY <1>5 DEF Decide, TypeOK
    <2>3. QED
      BY <1>5, <2>1, <2>2 DEF Decide, TypeOK, world, guards, history
  <1>6. CASE Ack \/ Raise
    BY <1>0, <1>6, RiskAssumption
       DEF Ack, Raise, EndCycle, TypeOK, Modes, RiskAssumption, world, guards, history
  <1>7. CASE Execute
    <2>1. Head(sent) \in Actions /\ Tail(sent) \in Seq(Actions)
      BY <1>7 DEF Execute, TypeOK
    <2>2. Append(Tail(sent), Head(sent)) \in Seq(Actions)
      BY <2>1
    <2>3. sent' \in Seq(Actions)
      BY <1>7, <2>1, <2>2 DEF Execute, Answer, GiveUp
    <2>4. rejects' \in 0 .. ScanLimit
      BY <1>7, RiskAssumption
         DEF Execute, Answer, GiveUp, Heartbeat, OrderReports, TypeOK, RiskAssumption
    <2>5. faults' \in 0 .. MaxFaults
      BY <1>7, RiskAssumption DEF Execute, Answer, GiveUp, TypeOK, RiskAssumption
    <2>6. QED
      BY <1>7, <2>3, <2>4, <2>5 DEF Execute, TypeOK, world, guards, history
  <1>8. CASE EquityMoves
    BY <1>8 DEF EquityMoves, TypeOK, guards, history
  <1>9. CASE NextDay
    BY <1>9, RiskAssumption DEF NextDay, TypeOK, Days, RiskAssumption, guards, history
  <1>10. CASE ObserveIc
    <2>1. icLog' \in Seq(Observations) /\ Len(icLog') <= MaxObs
          /\ Len(icLog) \in Nat /\ Len(icLog') = Len(icLog) + 1
      BY <1>10, RiskAssumption DEF ObserveIc, TypeOK, RiskAssumption
    <2>2. streak' \in [n : Nat, ts : 0 .. Len(icLog')]
      BY <1>10, <2>1 DEF ObserveIc, TypeOK, guards
    <2>3. QED
      BY <1>10, <2>1, <2>2 DEF ObserveIc, TypeOK, guards, history
  <1>11. CASE UNCHANGED vars
    BY <1>11 DEF vars, TypeOK
  <1>12. QED
    BY <1>1, <1>2, <1>3, <1>4, <1>5, <1>6, <1>7, <1>8, <1>9, <1>10, <1>11
       DEF Next, Handle

\* Every set of equities, every limit, every bound: the variables keep their
\* types.
THEOREM TypeCorrect == Spec => []TypeOK
  BY InitTypeOK, NextTypeOK, PTL DEF Spec

-----------------------------------------------------------------------------
(* The daily loss guard *)

\* What the history says of a day is what Redis says of it.
Baselines == \A d \in Days : opening[d] = baseline[d]

\* The loss of the current snapshot against its day's first equity is in the mode.
LossInMode ==
  /\ Lost(opening[st.day], st.eq, DailyHalt) => mode = "HALT"
  /\ Lost(opening[st.day], st.eq, DailyReduce) => mode # "NORMAL"

AfterDaily == pc \in {"peak", "ic", "decide", "ack"} /\ st.eq > 0

DailyInv ==
  /\ TypeOK
  /\ Baselines
  /\ AfterDaily => st.day \in Days /\ LossInMode

\* Nothing is stored and nothing is evaluated yet.
LEMMA InitDailyInv == Init => DailyInv
  BY InitTypeOK DEF Init, DailyInv, Baselines, AfterDaily

\* A step that keeps the snapshot, the day's first equities and a mode at least
\* as hard keeps the invariant.
LEMMA HarderKeepsLoss ==
  ASSUME DailyInv, TypeOK', UNCHANGED <<opening, baseline, st>>,
         AfterDaily' => AfterDaily,
         mode = "HALT" => mode' = "HALT",
         mode # "NORMAL" => mode' # "NORMAL"
  PROVE  DailyInv'
  BY DEF DailyInv, Baselines, LossInMode, Lost

\* The guard itself: the baseline of the day is its first equity, and the mode
\* answers to it.
LEMMA DailyLossKeeps == DailyInv /\ DailyLoss => DailyInv'
  <1> SUFFICES ASSUME DailyInv, DailyLoss PROVE DailyInv'
    OBVIOUS
  <1>0. TypeOK /\ TypeOK' /\ Baselines
    BY DailyTypes DEF DailyInv
  <1>1. CASE st.eq > 0
    <2> DEFINE base == DailyEquityBaseline
               loss == ModeFrom(Lost(base, st.eq, DailyHalt), Lost(base, st.eq, DailyReduce))
    <2>1. /\ baseline' = [baseline EXCEPT ![day] = base]
          /\ st' = [eq |-> st.eq, day |-> day]
          /\ opening' = [opening EXCEPT ![day] = IF @ = 0 THEN st.eq ELSE @]
          /\ mode' = Escalate(mode, loss)
      BY <1>1 DEF DailyLoss
    <2>2. day \in Days /\ opening[day] = baseline[day]
          /\ (baseline[day] = 0 \/ baseline[day] > 0)
      <3>1. day \in Days /\ baseline[day] \in Equities \cup {0}
        BY <1>0 DEF TypeOK
      <3>2. opening[day] = baseline[day]
        BY <1>0, <3>1 DEF Baselines
      <3>3. baseline[day] \in Nat
        <4>1. \A e \in Equities \cup {0} : e \in Nat
          BY RiskAssumption DEF RiskAssumption
        <4>2. QED
          BY <3>1, <4>1
      <3>4. QED
        BY <3>1, <3>2, <3>3
    <2>3. opening'[day] = base /\ baseline'[day] = base
      BY <1>0, <2>1, <2>2 DEF TypeOK, DailyEquityBaseline
    <2>4. Baselines'
      BY <1>0, <2>1, <2>2, <2>3 DEF TypeOK, Baselines
    <2>5. /\ loss \in Modes
          /\ Lost(base, st.eq, DailyHalt) => loss = "HALT"
          /\ Lost(base, st.eq, DailyReduce) => loss # "NORMAL"
      BY DEF ModeFrom, Modes
    <2>6. /\ loss = "HALT" => mode' = "HALT"
          /\ loss # "NORMAL" => mode' # "NORMAL"
      BY <1>0, <2>1, <2>5, EscalateFacts DEF TypeOK
    <2>7. st'.day = day /\ st'.eq = st.eq /\ opening'[st'.day] = base
      BY <2>1, <2>3
    <2>8. st'.day \in Days /\ LossInMode'
      BY <2>2, <2>5, <2>6, <2>7 DEF LossInMode, Lost, Days
    <2>9. QED
      BY <1>0, <2>4, <2>8 DEF DailyInv
  <1>2. CASE ~(st.eq > 0)
    <2>1. UNCHANGED <<baseline, st, opening>>
      BY <1>2 DEF DailyLoss
    <2>2. QED
      BY <1>0, <1>2, <2>1 DEF DailyInv, Baselines, AfterDaily
  <1>3. QED
    BY <1>1, <1>2

\* Every step keeps the invariant.
LEMMA NextDailyInv == DailyInv /\ [Next]_vars => DailyInv'
  <1> SUFFICES ASSUME DailyInv, [Next]_vars PROVE DailyInv'
    OBVIOUS
  <1>0. TypeOK /\ TypeOK'
    BY NextTypeOK DEF DailyInv
  <1>1. CASE DailyLoss
    BY <1>1, DailyLossKeeps
  <1>2. CASE Load \/ Ack \/ Raise
    <2>1. UNCHANGED <<opening, baseline>> /\ ~AfterDaily'
      BY <1>2 DEF Load, Ack, Raise, EndCycle, guards, history, AfterDaily
    <2>2. QED
      BY <1>0, <2>1 DEF DailyInv, Baselines
  <1>3. CASE PeakEquity
    <2>1. mode' = mode \/ \E m \in Modes : mode' = Escalate(mode, m)
      <3>1. \A b : ModeFrom(b, FALSE) \in Modes
        BY DEF ModeFrom, Modes
      <3>2. QED
        BY <1>3, <3>1 DEF PeakEquity
    <2>2. (mode = "HALT" => mode' = "HALT") /\ (mode # "NORMAL" => mode' # "NORMAL")
      BY <1>0, <2>1, EscalateFacts DEF TypeOK
    <2>3. UNCHANGED <<opening, baseline, st>> /\ (AfterDaily' => AfterDaily)
      BY <1>3 DEF PeakEquity, AfterDaily
    <2>4. QED
      BY <1>0, <2>2, <2>3, HarderKeepsLoss
  <1>4. CASE IcDecay
    <2>1. mode' = mode \/ \E m \in Modes : mode' = Escalate(mode, m)
      <3>1. ModeFrom(FALSE, streak'.n >= IcStreak) \in Modes
        BY DEF ModeFrom, Modes
      <3>2. QED
        BY <1>4, <3>1 DEF IcDecay
    <2>2. (mode = "HALT" => mode' = "HALT") /\ (mode # "NORMAL" => mode' # "NORMAL")
      BY <1>0, <2>1, EscalateFacts DEF TypeOK
    <2>3. UNCHANGED <<opening, baseline, st>> /\ (AfterDaily' => AfterDaily)
      BY <1>4 DEF IcDecay, AfterDaily, history
    <2>4. QED
      BY <1>0, <2>2, <2>3, HarderKeepsLoss
  <1>5. CASE Decide
    <2>1. (mode = "HALT" => mode' = "HALT") /\ (mode # "NORMAL" => mode' # "NORMAL")
      BY <1>0, <1>5, DecideFacts
    <2>2. UNCHANGED <<opening, baseline, st>> /\ (AfterDaily' => AfterDaily)
      BY <1>5 DEF Decide, AfterDaily, guards, history
    <2>3. QED
      BY <1>0, <2>1, <2>2, HarderKeepsLoss
  <1>6. CASE Execute \/ EquityMoves \/ NextDay \/ ObserveIc \/ UNCHANGED vars
    <2>1. UNCHANGED <<opening, baseline, st, mode, pc>>
      BY <1>6
         DEF Execute, EquityMoves, NextDay, ObserveIc, vars, guards, history
    <2>2. QED
      BY <1>0, <2>1, HarderKeepsLoss DEF AfterDaily
  <1>7. QED
    BY <1>1, <1>2, <1>3, <1>4, <1>5, <1>6 DEF Next, Handle

\* Every set of equities, every limit: what is published answers to the loss
\* since the first snapshot of its day.
THEOREM DailyLossAlwaysBinds == Spec => []DailyLossBinds
  <1>1. DailyInv => DailyLossBinds
    BY DEF DailyInv, DailyLossBinds, Approved, AfterDaily, LossInMode
  <1>2. QED
    BY <1>1, InitDailyInv, NextDailyInv, PTL DEF Spec

-----------------------------------------------------------------------------
(* The streak of signal quality *)

Decayed(ts) == {k \in 1 .. ts : icLog[k] = "decayed"}

\* Observations up to a given one are finitely many.
LEMMA DecayedFinite ==
  ASSUME NEW ts \in Nat
  PROVE  IsFiniteSet(Decayed(ts)) /\ Cardinality(Decayed(ts)) \in Nat
  <1>1. IsFiniteSet(1 .. ts)
    BY FS_Interval
  <1>2. IsFiniteSet(Decayed(ts))
    BY <1>1, FS_Subset DEF Decayed
  <1>3. QED
    BY <1>2, FS_CardinalityType

\* A new decayed observation is one more.
LEMMA NewDecayed ==
  ASSUME NEW t1 \in Nat, NEW t2 \in Nat, t1 < t2
  PROVE  /\ Cardinality(Decayed(t1)) <= Cardinality(Decayed(t2))
         /\ icLog[t2] = "decayed" =>
              Cardinality(Decayed(t1)) + 1 <= Cardinality(Decayed(t2))
  <1>1. Decayed(t1) \subseteq Decayed(t2) /\ t2 \notin Decayed(t1)
    BY DEF Decayed
  <1>2. Cardinality(Decayed(t1)) <= Cardinality(Decayed(t2))
    BY <1>1, DecayedFinite, FS_Subset
  <1>3. ASSUME icLog[t2] = "decayed"
        PROVE  Cardinality(Decayed(t1)) + 1 <= Cardinality(Decayed(t2))
    <2>1. Decayed(t1) \cup {t2} \subseteq Decayed(t2)
      BY <1>1, <1>3 DEF Decayed
    <2>2. /\ IsFiniteSet(Decayed(t1) \cup {t2})
          /\ Cardinality(Decayed(t1) \cup {t2}) = Cardinality(Decayed(t1)) + 1
      BY <1>1, DecayedFinite, FS_AddElement
    <2>3. QED
      BY <2>1, <2>2, DecayedFinite, FS_Subset
  <1>4. QED
    BY <1>2, <1>3

\* The guard counts a new observation once and one it saw before not at all.
LEMMA IcDecayCounts == TypeOK /\ IcCountedOnce /\ IcDecay => IcCountedOnce'
  <1> SUFFICES ASSUME TypeOK, IcCountedOnce, IcDecay PROVE IcCountedOnce'
    OBVIOUS
  <1>1. icLog' = icLog /\ Len(icLog) \in Nat /\ streak.n \in Nat
        /\ streak.ts \in 0 .. Len(icLog)
    BY DEF IcDecay, TypeOK, world
  <1>2. CASE streak' = streak
    BY <1>1, <1>2 DEF IcCountedOnce
  <1>3. CASE streak' # streak
    <2> DEFINE ts == Len(icLog)
    <2>1. streak' = NextStreak(ts) /\ streak.ts < ts
      <3>1. streak' = IcStreakNow
        BY <1>3 DEF IcDecay
      <3>2. Len(icLog) # streak.ts /\ streak' = NextStreak(Len(icLog))
        BY <1>3, <3>1 DEF IcStreakNow
      <3>3. QED
        BY <1>1, <3>2
    <2>2. streak'.ts = ts /\ streak'.n = IF icLog[ts] = "decayed" THEN streak.n + 1 ELSE 0
      BY <2>1 DEF NextStreak
    <2>3. streak.n <= Cardinality(Decayed(streak.ts))
      BY DEF IcCountedOnce, Decayed
    <2>4. streak'.n <= Cardinality(Decayed(ts))
      <3> DEFINE before == Cardinality(Decayed(streak.ts))
                 after == Cardinality(Decayed(ts))
      <3>1. streak.ts \in Nat /\ ts \in Nat /\ streak.ts < ts
        BY <1>1, <2>1
      <3>2. before \in Nat /\ after \in Nat
        BY <3>1, DecayedFinite
      <3>3. icLog[ts] = "decayed" => before + 1 <= after
        BY <3>1, NewDecayed
      <3> HIDE DEF before, after
      <3>4. streak.n <= before
        BY <2>3 DEF before
      <3>5. streak'.n <= after
        BY <1>1, <2>2, <3>2, <3>3, <3>4
      <3>6. QED
        BY <3>5 DEF after
    <2>5. Decayed(ts) = {k \in 1 .. streak'.ts : icLog'[k] = "decayed"}
      BY <1>1, <2>2 DEF Decayed
    <2>6. QED
      BY <1>1, <2>2, <2>4, <2>5 DEF IcCountedOnce
  <1>4. QED
    BY <1>2, <1>3

\* Every other step leaves the counted observations as they are.
LEMMA NextIcCounted == TypeOK /\ IcCountedOnce /\ [Next]_vars => IcCountedOnce'
  <1> SUFFICES ASSUME TypeOK, IcCountedOnce, [Next]_vars PROVE IcCountedOnce'
    OBVIOUS
  <1>1. CASE IcDecay
    BY <1>1, IcDecayCounts
  <1>2. CASE ObserveIc
    <2>1. PICK ic \in Observations : icLog' = Append(icLog, ic)
      BY <1>2 DEF ObserveIc
    <2>2. \A k \in 1 .. streak.ts : icLog'[k] = icLog[k]
      BY <2>1 DEF TypeOK
    <2>3. streak' = streak
      BY <1>2 DEF ObserveIc, guards
    <2>4. {k \in 1 .. streak.ts : icLog'[k] = "decayed"}
            = {k \in 1 .. streak.ts : icLog[k] = "decayed"}
      BY <2>2
    <2>5. streak.ts > 0 => icLog'[streak.ts] = icLog[streak.ts]
      BY <2>2 DEF TypeOK
    <2>6. QED
      BY <2>3, <2>4, <2>5 DEF IcCountedOnce
  <1>3. CASE UNCHANGED <<icLog, streak>>
    BY <1>3 DEF IcCountedOnce
  <1>4. QED
    BY <1>1, <1>2, <1>3
       DEF Next, Handle, Load, DailyLoss, PeakEquity, Decide, Ack, Raise, EndCycle,
           Execute, EquityMoves, NextDay, vars, world, guards

\* Every run: the streak never exceeds the decayed observations, and a better one
\* that was seen ends it.
THEOREM IcAlwaysCountedOnce == Spec => []IcCountedOnce
  <1>1. Init => IcCountedOnce
    <2>1. SUFFICES ASSUME Init PROVE IcCountedOnce
      OBVIOUS
    <2>2. streak = [n |-> 0, ts |-> 0]
      BY <2>1 DEF Init
    <2>3. streak.n = 0 /\ streak.ts = 0
      BY <2>2
    <2>4. streak.n <= Cardinality(Decayed(0))
      <3>1. Cardinality(Decayed(0)) \in Nat
        BY DecayedFinite
      <3>2. QED
        BY <2>3, <3>1
    <2>5. QED
      BY <2>3, <2>4 DEF IcCountedOnce, Decayed
  <1>2. QED
    BY <1>1, InitTypeOK, NextTypeOK, NextIcCounted, PTL DEF Spec

-----------------------------------------------------------------------------
(* Sums over finite sets *)

\* The element at which a fold takes a set apart
First(t) == CHOOSE x \in t : TRUE

\* What a fold does at each set, its element and what is left of the set.
Folds(iter, S, base, step) ==
  iter = [t \in SUBSET S |-> IF t = {} THEN base ELSE step[t][iter[t \ {First(t)}]]]

\* It is one of the set.
LEMMA FirstIn == \A t : t # {} => First(t) \in t
  BY DEF First

\* A fold over a finite set exists.
LEMMA FoldExists ==
  ASSUME NEW S, IsFiniteSet(S), NEW V, NEW base \in V, NEW step \in [SUBSET S -> [V -> V]]
  PROVE  \E iter \in [SUBSET S -> V] : Folds(iter, S, base, step)
  <1> DEFINE Small(n) == {t \in SUBSET S : Cardinality(t) <= n}
             Def(h, n) == h = [t \in Small(n) |-> IF t = {} THEN base ELSE step[t][h[t \ {First(t)}]]]
             Good == {n \in Nat : \E h \in [Small(n) -> V] : Def(h, n)}
  <1>1. \A t \in SUBSET S : IsFiniteSet(t) /\ Cardinality(t) \in Nat /\ Cardinality(t) <= Cardinality(S)
    BY FS_Subset, FS_CardinalityType
  <1>2. \A t \in SUBSET S : t # {} =>
          /\ t \ {First(t)} \in SUBSET S /\ First(t) \in t
          /\ Cardinality(t \ {First(t)}) = Cardinality(t) - 1 /\ Cardinality(t) # 0
    BY <1>1, FirstIn, FS_RemoveElement, FS_EmptySet
  <1>3. 0 \in Good
    <2>1. Small(0) = {{}}
      BY <1>1, <1>2, FS_EmptySet
    <2>2. Def([t \in Small(0) |-> base], 0) /\ [t \in Small(0) |-> base] \in [Small(0) -> V]
      BY <2>1
    <2>3. QED
      BY <2>2
  <1>4. ASSUME NEW n \in Nat, n \in Good PROVE n + 1 \in Good
    <2>1. PICK h \in [Small(n) -> V] : Def(h, n)
      BY <1>4
    <2> DEFINE g == [t \in Small(n + 1) |->
                       IF t = {} THEN base ELSE step[t][h[t \ {First(t)}]]]
    <2>2. ASSUME NEW t \in Small(n + 1), t # {} PROVE t \ {First(t)} \in Small(n)
      BY <1>1, <1>2, <2>2
    <2>3. ASSUME NEW t \in Small(n) PROVE t \in Small(n + 1) /\ g[t] = h[t]
      <3>1. t \in Small(n + 1)
        BY <1>1
      <3>2. g[t] = IF t = {} THEN base ELSE step[t][h[t \ {First(t)}]]
        <4> HIDE DEF Small
        <4> QED
          BY <3>1
      <3>3. h[t] = IF t = {} THEN base ELSE step[t][h[t \ {First(t)}]]
        <4> HIDE DEF Small
        <4> QED
          BY <2>1
      <3>4. QED
        BY <3>1, <3>2, <3>3
    <2>4. g \in [Small(n + 1) -> V]
      BY <2>2
    <2>5. Def(g, n + 1)
      <3> HIDE DEF Small
      <3> SUFFICES ASSUME NEW t \in Small(n + 1), t # {}
                   PROVE  h[t \ {First(t)}] = g[t \ {First(t)}]
        OBVIOUS
      <3> QED
        BY <2>2, <2>3
    <2>6. QED
      <3> HIDE DEF Small, Def, g
      <3> QED
        BY <2>4, <2>5
  <1>5. Cardinality(S) \in Good
    <2> HIDE DEF Good
    <2>1. Cardinality(S) \in Nat
      BY FS_CardinalityType
    <2>2. SUFFICES ASSUME Nat \ Good # {} PROVE FALSE
      BY <2>1
    <2>3. PICK n \in Nat \ Good : \A m \in Nat \ Good : ~(<<m, n>> \in OpToRel(<, Nat))
      BY <2>2, WFMin, NatLessThanWellFounded, Zenon
    <2>4. \A m \in Nat \ Good : ~(m < n)
      BY <2>3 DEF OpToRel
    <2>5. QED
      BY <1>3, <1>4, <2>4
  <1>6. Small(Cardinality(S)) = SUBSET S
    BY <1>1
  <1>7. QED
    BY <1>5, <1>6 DEF Folds

\* Induction over the subsets of a finite set, along the order of its folds.
LEMMA FoldInduction ==
  ASSUME NEW S, IsFiniteSet(S), NEW P, {} \in P,
         \A t \in SUBSET S : t # {} /\ t \ {First(t)} \in P => t \in P
  PROVE  SUBSET S \subseteq P
  <1> DEFINE B == {n \in Nat : \E t \in SUBSET S : Cardinality(t) = n /\ t \notin P}
  <1>1. SUFFICES ASSUME B # {} PROVE FALSE
    BY FS_Subset, FS_CardinalityType
  <1>2. PICK n \in B : \A m \in B : ~(<<m, n>> \in OpToRel(<, Nat))
    <2>1. B \subseteq Nat
      OBVIOUS
    <2> HIDE DEF B
    <2>2. QED
      BY <1>1, <2>1, WFMin, NatLessThanWellFounded, Zenon
  <1>3. PICK t \in SUBSET S : Cardinality(t) = n /\ t \notin P
    BY <1>2
  <1>4. t # {} /\ t \ {First(t)} \notin P /\ First(t) \in t
    BY <1>3, FirstIn
  <1>5. Cardinality(t \ {First(t)}) = n - 1 /\ n - 1 \in Nat
    BY <1>3, <1>4, FS_Subset, FS_RemoveElement, FS_CardinalityType, FS_EmptySet
  <1>6. n - 1 \in B /\ n - 1 < n
    BY <1>4, <1>5
  <1>7. QED
    BY <1>2, <1>5, <1>6 DEF OpToRel

\* The sums of f over the subsets of S
IsSum(F, S, f) ==
  /\ F \in [SUBSET S -> Int]
  /\ F[{}] = 0
  /\ \A t \in SUBSET S : t # {} => F[t] = f[First(t)] + F[t \ {First(t)}]

\* Sum is the value of the sums of its subsets at the whole domain.
LEMMA SumFold ==
  ASSUME NEW S, IsFiniteSet(S), NEW f \in [S -> Int]
  PROVE  \E F : IsSum(F, S, f) /\ Sum(f) = F[S]
  <1> DEFINE Def(iter) == iter = [t \in SUBSET S |->
                   IF t = {} THEN 0 ELSE f[First(t)] + iter[t \ {First(t)}]]
             I == CHOOSE iter : Def(iter)
             step == [t \in SUBSET S |-> [v \in Int |-> IF t = {} THEN 0 ELSE f[First(t)] + v]]
  <1>1. step \in [SUBSET S -> [Int -> Int]]
    BY FirstIn
  <1>2. PICK h \in [SUBSET S -> Int] : Folds(h, S, 0, step)
    <2> HIDE DEF step
    <2>1. 0 \in Int
      OBVIOUS
    <2>2. QED
      BY <1>1, <2>1, FoldExists, Zenon
  <1>3. Def(h)
    <2>1. ASSUME NEW t \in SUBSET S, t # {}
          PROVE  step[t][h[t \ {First(t)}]] = f[First(t)] + h[t \ {First(t)}]
      <3>1. h[t \ {First(t)}] \in Int
        BY <1>2
      <3>2. QED
        BY <3>1, <2>1
    <2> HIDE DEF step
    <2>2. QED
      BY <1>2, <2>1 DEF Folds
  <1>4. Def(I)
    BY <1>3
  <1>5. Sum(f) = I[S]
    BY DEF Sum, FoldFunction, FoldFunctionOnSet, MapThenFoldSet, First
  <1>6. /\ I = [t \in SUBSET S |-> I[t]]
        /\ I[{}] = 0
        /\ \A t \in SUBSET S : t # {} => I[t] = f[First(t)] + I[t \ {First(t)}]
    <2> HIDE DEF I
    <2> QED
      BY <1>4
  <1> HIDE DEF I
  <1> DEFINE P == {t \in SUBSET S : I[t] \in Int}
  <1>7. {} \in P
    BY <1>6
  <1>8. ASSUME NEW t \in SUBSET S, t # {}, t \ {First(t)} \in P PROVE t \in P
    <2>1. I[t] = f[First(t)] + I[t \ {First(t)}] /\ f[First(t)] \in Int
      BY <1>6, <1>8, FirstIn
    <2>2. QED
      BY <1>8, <2>1
  <1>9. SUBSET S \subseteq P
    <2> HIDE DEF P
    <2> QED
      BY <1>7, <1>8, FoldInduction
  <1>10. I \in [SUBSET S -> Int]
    BY <1>6, <1>9
  <1>11. QED
    BY <1>5, <1>6, <1>10 DEF IsSum

\* A sum of integers is an integer.
LEMMA SumType ==
  ASSUME NEW S, IsFiniteSet(S), NEW f \in [S -> Int]
  PROVE  Sum(f) \in Int
  <1>1. PICK F : IsSum(F, S, f) /\ Sum(f) = F[S]
    BY SumFold
  <1>2. QED
    BY <1>1 DEF IsSum

\* The sum of the empty function is 0.
LEMMA SumOfNothing == \A f : DOMAIN f = {} /\ f \in [{} -> Int] => Sum(f) = 0
  <1>1. IsFiniteSet({})
    BY FS_EmptySet
  <1>2. QED
    BY <1>1, SumFold DEF IsSum

\* A larger function has a larger sum.
LEMMA SumMonotone ==
  ASSUME NEW S, IsFiniteSet(S), NEW f \in [S -> Int], NEW g \in [S -> Int],
         \A s \in S : f[s] <= g[s]
  PROVE  Sum(f) <= Sum(g)
  <1>1. PICK F : IsSum(F, S, f) /\ Sum(f) = F[S]
    BY SumFold
  <1>2. PICK G : IsSum(G, S, g) /\ Sum(g) = G[S]
    BY SumFold
  <1> DEFINE P == {t \in SUBSET S : F[t] <= G[t]}
  <1>3. {} \in P
    BY <1>1, <1>2 DEF IsSum
  <1>4. ASSUME NEW t \in SUBSET S, t # {}, t \ {First(t)} \in P PROVE t \in P
    <2>1. First(t) \in S /\ F[t \ {First(t)}] <= G[t \ {First(t)}]
      BY <1>4, FirstIn
    <2>2. F[t] = f[First(t)] + F[t \ {First(t)}] /\ G[t] = g[First(t)] + G[t \ {First(t)}]
      BY <1>1, <1>2, <1>4 DEF IsSum
    <2>3. /\ f[First(t)] \in Int /\ g[First(t)] \in Int /\ f[First(t)] <= g[First(t)]
          /\ F[t \ {First(t)}] \in Int /\ G[t \ {First(t)}] \in Int
      BY <1>1, <1>2, <1>4, <2>1 DEF IsSum
    <2>4. F[t] <= G[t]
      BY <2>1, <2>2, <2>3
    <2>5. QED
      BY <2>4
  <1>5. SUBSET S \subseteq P
    <2> HIDE DEF P
    <2> QED
      BY <1>3, <1>4, FoldInduction
  <1>6. QED
    BY <1>1, <1>2, <1>5

\* Sums are linear.
LEMMA SumLinear ==
  ASSUME NEW S, IsFiniteSet(S), NEW f \in [S -> Int], NEW g \in [S -> Int],
         NEW a \in Int, NEW b \in Int
  PROVE  Sum([s \in S |-> a * f[s] + b * g[s]]) = a * Sum(f) + b * Sum(g)
  <1> DEFINE h == [s \in S |-> a * f[s] + b * g[s]]
  <1>0. h \in [S -> Int] /\ \A s \in S : h[s] = a * f[s] + b * g[s]
    OBVIOUS
  <1>1. PICK F : IsSum(F, S, f) /\ Sum(f) = F[S]
    BY SumFold
  <1>2. PICK G : IsSum(G, S, g) /\ Sum(g) = G[S]
    BY SumFold
  <1>3. PICK H : IsSum(H, S, h) /\ Sum(h) = H[S]
    <2> HIDE DEF h
    <2> QED
      BY <1>0, SumFold
  <1> HIDE DEF h
  <1> DEFINE P == {t \in SUBSET S : H[t] = a * F[t] + b * G[t]}
  <1>4. {} \in P
    BY <1>1, <1>2, <1>3 DEF IsSum
  <1>5. ASSUME NEW t \in SUBSET S, t # {}, t \ {First(t)} \in P PROVE t \in P
    <2> DEFINE x == First(t)
               u == t \ {First(t)}
    <2>1. x \in S /\ u \in SUBSET S /\ H[u] = a * F[u] + b * G[u]
      BY <1>5, FirstIn
    <2>2. F[t] = f[x] + F[u] /\ G[t] = g[x] + G[u] /\ H[t] = h[x] + H[u]
      BY <1>1, <1>2, <1>3, <1>5 DEF IsSum
    <2>3. /\ f[x] \in Int /\ g[x] \in Int /\ F[u] \in Int /\ G[u] \in Int
          /\ h[x] = a * f[x] + b * g[x]
      BY <1>0, <1>1, <1>2, <2>1 DEF IsSum
    <2> HIDE DEF x, u
    <2>4. /\ a * (f[x] + F[u]) = a * f[x] + a * F[u]
          /\ b * (g[x] + G[u]) = b * g[x] + b * G[u]
      BY <2>3
    <2>5. /\ a * f[x] \in Int /\ a * F[u] \in Int /\ b * g[x] \in Int /\ b * G[u] \in Int
      BY <2>3
    <2>6. H[t] = a * F[t] + b * G[t]
      BY <2>1, <2>2, <2>3, <2>4, <2>5
    <2>7. QED
      BY <2>6
  <1>6. SUBSET S \subseteq P
    <2> HIDE DEF P
    <2> QED
      BY <1>4, <1>5, FoldInduction
  <1>7. H[S] = a * F[S] + b * G[S]
    BY <1>6
  <1>8. QED
    BY <1>1, <1>2, <1>3, <1>7 DEF h

-----------------------------------------------------------------------------
(* Lowest terms *)

Divides(k, x) == \E q \in Int : x = k * q

\* A multiple divided.
LEMMA Quotient ==
  ASSUME NEW k \in Nat \ {0}, NEW q \in Nat
  PROVE  (k * q) \div k = q
  <1> DEFINE p == (k * q) \div k
             r == (k * q) % k
  <1>1. k * q \in Nat
    OBVIOUS
  <1>2. p \in Nat /\ r \in 0 .. k - 1 /\ k * q = k * p + r
    BY <1>1
  <1> HIDE DEF p, r
  <1>3. k * (q - p) = k * q - k * p
    BY <1>2
  <1>4. k * (q - p) \in 0 .. k - 1
    BY <1>2, <1>3
  <1>5. CASE q - p >= 1
    BY <1>2, <1>4, <1>5
  <1>6. CASE q - p <= -1
    BY <1>2, <1>4, <1>6
  <1>7. QED
    BY <1>2, <1>5, <1>6 DEF p

\* The common divisors of two numbers, one of them not 0, by Euclid's algorithm
LEMMA GcdFacts ==
  ASSUME NEW x \in Int, NEW y \in Nat \ {0}
  PROVE  Gcd(x, y) \in Nat \ {0} /\ Divides(Gcd(x, y), x) /\ Divides(Gcd(x, y), y)
  <1> DEFINE Def(g, n) == g = [b \in 0 .. n |-> [a \in Nat |-> IF b = 0 THEN a ELSE g[a % b][b]]]
             Good == {n \in Nat : \E g : Def(g, n)}
             G == CHOOSE g : Def(g, y)
  <1>1. ASSUME NEW a \in Nat, NEW b \in Nat \ {0}
        PROVE  a % b \in 0 .. b - 1 /\ a = b * (a \div b) + (a % b) /\ a \div b \in Nat
    OBVIOUS
  <1>2. 0 \in Good
    <2> DEFINE h == [b \in 0 .. 0 |-> [a \in Nat |-> a]]
    <2>1. Def(h, 0)
      OBVIOUS
    <2>2. QED
      BY <2>1
  <1>3. ASSUME NEW n \in Nat, n \in Good PROVE n + 1 \in Good
    <2>1. PICK h : Def(h, n)
      BY <1>3
    <2> DEFINE k == [b \in 0 .. n + 1 |-> [a \in Nat |-> IF b = 0 THEN a ELSE h[a % b][b]]]
    <2>2. ASSUME NEW b \in 0 .. n PROVE k[b] = h[b]
      <3>1. b \in 0 .. n + 1
        OBVIOUS
      <3>2. k[b] = [a \in Nat |-> IF b = 0 THEN a ELSE h[a % b][b]]
        BY <3>1
      <3>3. h[b] = [a \in Nat |-> IF b = 0 THEN a ELSE h[a % b][b]]
        BY <2>1
      <3> HIDE DEF k
      <3>4. QED
        BY <3>2, <3>3
    <2>3. Def(k, n + 1)
      <3>1. ASSUME NEW b \in 0 .. n + 1, NEW a \in Nat, b # 0 PROVE h[a % b][b] = k[a % b][b]
        <4>1. a % b \in 0 .. n
          BY <1>1, <3>1
        <4> HIDE DEF k
        <4>2. QED
          BY <2>2, <4>1
      <3>2. QED
        BY <3>1
    <2> HIDE DEF k, Def
    <2>4. QED
      BY <2>3
  <1>4. Nat \subseteq Good
    <2> HIDE DEF Good
    <2>1. SUFFICES ASSUME Nat \ Good # {} PROVE FALSE
      OBVIOUS
    <2>2. PICK n \in Nat \ Good : \A m \in Nat \ Good : ~(<<m, n>> \in OpToRel(<, Nat))
      BY <2>1, WFMin, NatLessThanWellFounded, Zenon
    <2>3. \A m \in Nat \ Good : ~(m < n)
      BY <2>2 DEF OpToRel
    <2>4. n # 0 /\ n - 1 \in Good
      BY <1>2, <2>3
    <2>5. QED
      BY <1>3, <2>4
  <1>5. Def(G, y)
    BY <1>4
  <1>6. AbsOf(x) \in Nat /\ AbsOf(y) = y
    BY DEF AbsOf
  <1>7. Gcd(x, y) = G[y][AbsOf(x)]
    BY <1>6 DEF Gcd
  <1> HIDE DEF G
  <1> DEFINE Fine(k, a, b) == k \in Nat /\ Divides(k, a) /\ Divides(k, b) /\ (a # 0 \/ b # 0 => k # 0)
             B == {b \in 0 .. y : \E a \in Nat : ~Fine(G[b][a], a, b)}
  <1>8. B = {}
    <2>1. SUFFICES ASSUME B # {} PROVE FALSE
      OBVIOUS
    <2>2. PICK b \in B : \A c \in B : ~(<<c, b>> \in OpToRel(<, Nat))
      <3>1. B \subseteq Nat
        OBVIOUS
      <3> HIDE DEF B
      <3>2. QED
        BY <2>1, <3>1, WFMin, NatLessThanWellFounded, Zenon
    <2> HIDE DEF Fine
    <2>3. b \in 0 .. y /\ \A c \in 0 .. y : c < b => \A a \in Nat : Fine(G[c][a], a, c)
      <3>1. \A c \in B : ~(c < b)
        <4>1. \A c \in B : c \in Nat
          OBVIOUS
        <4> HIDE DEF B
        <4>2. QED
          BY <2>2, <4>1 DEF OpToRel
      <3>2. QED
        BY <3>1
    <2>4. PICK a \in Nat : ~Fine(G[b][a], a, b)
      BY <2>2
    <2> USE DEF Fine
    <2>5. CASE b = 0
      <3>1. G[b][a] = a
        BY <1>5, <2>5
      <3>2. a = a * 1 /\ 0 = a * 0
        OBVIOUS
      <3>3. Divides(a, a) /\ Divides(a, 0)
        BY <3>2 DEF Divides
      <3>4. QED
        BY <2>4, <2>5, <3>1, <3>3
    <2>6. CASE b # 0
      <3> DEFINE r == a % b
                 k == G[r][b]
      <3>1. r \in 0 .. y /\ r < b /\ b \in Nat \ {0} /\ a = b * (a \div b) + r /\ a \div b \in Nat
        <4>1. b \in Nat \ {0} /\ b <= y
          BY <2>3, <2>6
        <4>2. a % b \in 0 .. b - 1 /\ a = b * (a \div b) + (a % b) /\ a \div b \in Nat
          BY <1>1, <4>1
        <4>3. QED
          BY <4>1, <4>2
      <3>2. G[b][a] = k
        BY <1>5, <2>3, <2>6
      <3>3. Fine(k, b, r)
        BY <2>3, <3>1
      <3> HIDE DEF k, r
      <3>4. PICK q1 \in Int, q2 \in Int : b = k * q1 /\ r = k * q2
        BY <3>3 DEF Divides
      <3>5. a = k * (q1 * (a \div b) + q2) /\ q1 * (a \div b) + q2 \in Int
        <4> DEFINE d == a \div b
        <4>1. d \in Nat /\ a = (k * q1) * d + k * q2
          BY <3>1, <3>4
        <4> HIDE DEF d
        <4>2. a = k * (q1 * d + q2) /\ q1 * d + q2 \in Int
          BY <3>3, <4>1
        <4>3. QED
          BY <4>2 DEF d
      <3>6. Divides(k, a)
        BY <3>5 DEF Divides
      <3>7. QED
        BY <2>4, <2>6, <3>1, <3>2, <3>3, <3>6
    <2>7. QED
      BY <2>5, <2>6
  <1>9. Fine(G[y][AbsOf(x)], AbsOf(x), y)
    BY <1>6, <1>8
  <1>10. Divides(Gcd(x, y), x)
    <2> DEFINE k == Gcd(x, y)
    <2>1. PICK q \in Int : AbsOf(x) = k * q
      BY <1>7, <1>9 DEF Divides
    <2>2. k \in Nat
      BY <1>7, <1>9
    <2> HIDE DEF k
    <2>3. x = k * q \/ x = k * (-q)
      BY <2>1, <2>2 DEF AbsOf
    <2>4. QED
      BY <2>3 DEF Divides, k
  <1>11. QED
    BY <1>7, <1>9, <1>10

\* The common divisor of a whole list
LEMMA GcdFold ==
  ASSUME NEW S, IsFiniteSet(S), NEW f \in [S -> Int], NEW d \in Nat \ {0}
  PROVE  LET g == FoldFunction(Gcd, d, f)
         IN  g \in Nat \ {0} /\ Divides(g, d) /\ \A s \in S : Divides(g, f[s])
  <1> DEFINE V == Nat \ {0}
             Def(iter) == iter = [t \in SUBSET S |->
                   IF t = {} THEN d ELSE Gcd(f[First(t)], iter[t \ {First(t)}])]
             I == CHOOSE iter : Def(iter)
             step == [t \in SUBSET S |-> [v \in V |-> IF t = {} THEN d ELSE Gcd(f[First(t)], v)]]
  <1>1. ASSUME NEW t \in SUBSET S, t # {}, NEW v \in V
        PROVE  /\ Gcd(f[First(t)], v) \in V
               /\ Divides(Gcd(f[First(t)], v), f[First(t)]) /\ Divides(Gcd(f[First(t)], v), v)
    <2>1. f[First(t)] \in Int
      BY <1>1, FirstIn
    <2>2. QED
      BY <2>1, GcdFacts
  <1>2. PICK h \in [SUBSET S -> V] : Folds(h, S, d, step)
    <2>1. step \in [SUBSET S -> [V -> V]]
      BY <1>1
    <2> HIDE DEF step, V
    <2>2. d \in V
      BY DEF V
    <2>3. QED
      BY <2>1, <2>2, FoldExists, Zenon
  <1>3. Def(h)
    <2>1. ASSUME NEW t \in SUBSET S, t # {}
          PROVE  step[t][h[t \ {First(t)}]] = Gcd(f[First(t)], h[t \ {First(t)}])
      <3>1. h[t \ {First(t)}] \in V
        BY <1>2
      <3>2. QED
        BY <3>1, <2>1
    <2> HIDE DEF step
    <2>2. QED
      BY <1>2, <2>1 DEF Folds
  <1>4. Def(I)
    BY <1>3
  <1>5. FoldFunction(Gcd, d, f) = I[S]
    BY DEF FoldFunction, FoldFunctionOnSet, MapThenFoldSet, First
  <1>6. /\ I[{}] = d
        /\ \A t \in SUBSET S : t # {} => I[t] = Gcd(f[First(t)], I[t \ {First(t)}])
    <2> HIDE DEF I
    <2> QED
      BY <1>4
  <1> HIDE DEF I
  <1> DEFINE P == {t \in SUBSET S :
                     I[t] \in V /\ Divides(I[t], d) /\ \A s \in t : Divides(I[t], f[s])}
  <1>7. {} \in P
    <2>1. d = d * 1
      OBVIOUS
    <2>2. Divides(d, d)
      BY <2>1 DEF Divides
    <2>3. QED
      BY <1>6, <2>2
  <1>8. ASSUME NEW t \in SUBSET S, t # {}, t \ {First(t)} \in P PROVE t \in P
    <2> DEFINE u == I[t \ {First(t)}]
               k == I[t]
    <2>1. k = Gcd(f[First(t)], u)
      BY <1>6, <1>8
    <2>2. u \in V /\ Divides(u, d) /\ \A s \in t \ {First(t)} : Divides(u, f[s])
      BY <1>8
    <2> HIDE DEF u, k
    <2>3. k \in V /\ Divides(k, f[First(t)]) /\ Divides(k, u)
      BY <1>1, <1>8, <2>1, <2>2
    <2>4. ASSUME NEW x, Divides(u, x) PROVE Divides(k, x)
      <3>1. PICK q1 \in Int, q2 \in Int : x = u * q1 /\ u = k * q2
        BY <2>3, <2>4 DEF Divides
      <3>2. x = k * (q2 * q1) /\ q2 * q1 \in Int
        BY <2>3, <3>1
      <3>3. QED
        BY <3>2 DEF Divides
    <2>5. Divides(k, d) /\ \A s \in t : Divides(k, f[s])
      BY <2>2, <2>3, <2>4
    <2>6. QED
      BY <2>3, <2>5 DEF k
  <1>9. SUBSET S \subseteq P
    <2> HIDE DEF P
    <2> QED
      BY <1>7, <1>8, FoldInduction
  <1>10. QED
    BY <1>5, <1>9

\* A list in lowest terms is the same list: numerators and denominator divided by
\* the same number.
LEMMA ReducedFacts ==
  ASSUME NEW S, IsFiniteSet(S), NEW n \in [S -> Int], NEW d \in Nat \ {0},
         NEW w, w = [n |-> n, d |-> d]
  PROVE  /\ Reduced(w).d \in Nat \ {0} /\ Reduced(w).n \in [S -> Int]
         /\ \E k \in Nat \ {0} :
              d = k * Reduced(w).d /\ \A s \in S : n[s] = k * Reduced(w).n[s]
  <1> DEFINE g == FoldFunction(Gcd, w.d, w.n)
             M(s) == IF n[s] < 0 THEN -((-n[s]) \div g) ELSE n[s] \div g
  <1>1. g \in Nat \ {0} /\ Divides(g, d) /\ \A s \in S : Divides(g, n[s])
    BY GcdFold
  <1>2. Reduced(w) = [n |-> [s \in S |-> M(s)], d |-> d \div g]
    BY DEF Reduced
  <1> HIDE DEF g
  <1>3. d \div g \in Nat \ {0} /\ d = g * (d \div g)
    <2>1. PICK q \in Int : d = g * q
      BY <1>1 DEF Divides
    <2>2. q \in Nat \ {0}
      BY <1>1, <2>1
    <2>3. QED
      BY <1>1, <2>1, <2>2, Quotient
  <1>4. ASSUME NEW s \in S
        PROVE  M(s) \in Int /\ n[s] = g * M(s)
    <2>1. PICK q \in Int : n[s] = g * q
      BY <1>1 DEF Divides
    <2>2. CASE n[s] < 0
      <3>1. -q \in Nat /\ -n[s] = g * (-q)
        BY <1>1, <2>1, <2>2
      <3>2. (-n[s]) \div g = -q
        BY <1>1, <3>1, Quotient
      <3>3. QED
        BY <2>1, <2>2, <3>2
    <2>3. CASE ~(n[s] < 0)
      <3>1. q \in Nat
        BY <1>1, <2>1, <2>3
      <3>2. n[s] \div g = q
        BY <1>1, <2>1, <3>1, Quotient
      <3>3. QED
        BY <2>1, <2>3, <3>2
    <2>4. QED
      BY <2>2, <2>3
  <1> HIDE DEF M
  <1>5. Reduced(w).d = d \div g /\ Reduced(w).n = [s \in S |-> M(s)]
    BY <1>2
  <1>6. d = g * Reduced(w).d /\ \A s \in S : n[s] = g * Reduced(w).n[s]
    BY <1>3, <1>4, <1>5
  <1>7. QED
    BY <1>1, <1>3, <1>4, <1>5, <1>6
-----------------------------------------------------------------------------
(* Lists of weights and their exposures *)

\* Weights on S with a common denominator
ListOver(S) == [n : [S -> Int], d : Nat \ {0}]

\* Sums of multiples, and of magnitudes
LEMMA SumMultiple ==
  ASSUME NEW S, IsFiniteSet(S), NEW f \in [S -> Int], NEW g \in [S -> Int], NEW k \in Int,
         \A s \in S : f[s] = k * g[s]
  PROVE  Sum(f) = k * Sum(g)
  <1>1. f = [s \in S |-> k * g[s] + 0 * g[s]]
    OBVIOUS
  <1>2. Sum(f) = k * Sum(g) + 0 * Sum(g)
    BY <1>1, SumLinear
  <1>3. QED
    BY <1>2, SumType

\* Types of the exposures; the net exposure is at most the gross exposure.
LEMMA AbsFacts ==
  ASSUME NEW S, IsFiniteSet(S), NEW f \in [S -> Int]
  PROVE  /\ [s \in S |-> AbsOf(f[s])] \in [S -> Int]
         /\ AbsSum(f) = Sum([s \in S |-> AbsOf(f[s])])
         /\ AbsSum(f) \in Nat /\ Sum(f) \in Int
         /\ AbsOf(Sum(f)) \in Nat /\ AbsOf(Sum(f)) <= AbsSum(f)
  <1> DEFINE a == [s \in S |-> AbsOf(f[s])]
             z == [s \in S |-> 0]
  <1>1. a \in [S -> Int] /\ z \in [S -> Int] /\ \A s \in S : z[s] <= a[s] /\ f[s] <= a[s]
    BY DEF AbsOf
  <1>2. AbsSum(f) = Sum(a)
    BY DEF AbsSum
  <1>3. \A s \in S : z[s] = 0 * f[s] /\ -f[s] <= a[s]
    BY DEF AbsOf
  <1> HIDE DEF a, z
  <1>4. Sum(f) \in Int /\ Sum(a) \in Int
    BY <1>1, SumType
  <1>5. Sum(z) = 0
    <2>1. Sum(z) = 0 * Sum(f)
      BY <1>1, <1>3, SumMultiple
    <2>2. QED
      BY <1>4, <2>1
  <1>6. Sum(z) <= Sum(a) /\ Sum(f) <= Sum(a)
    BY <1>1, SumMonotone
  <1>7. -Sum(f) <= Sum(a)
    <2> DEFINE m == [s \in S |-> -f[s]]
    <2>1. PICK k \in Int : k = -1
      OBVIOUS
    <2>2. m \in [S -> Int] /\ \A s \in S : m[s] = k * f[s] /\ m[s] <= a[s]
      BY <1>3, <2>1
    <2> HIDE DEF m
    <2>3. Sum(m) = k * Sum(f)
      BY <2>2, SumMultiple
    <2>4. Sum(m) <= Sum(a)
      BY <1>1, <2>2, SumMonotone
    <2>5. QED
      BY <1>4, <2>1, <2>3, <2>4
  <1>8. QED
    BY <1>1, <1>2, <1>4, <1>5, <1>6, <1>7 DEF AbsOf, a

\* The magnitude of a multiple
LEMMA AbsProduct ==
  ASSUME NEW k \in Nat, NEW x \in Int
  PROVE  AbsOf(k * x) = k * AbsOf(x)
  <1>1. CASE x < 0
    <2>1. k * x <= 0 /\ k * (-x) = -(k * x)
      BY <1>1
    <2>2. QED
      BY <1>1, <2>1 DEF AbsOf
  <1>2. CASE ~(x < 0)
    <2>1. ~(k * x < 0)
      BY <1>2
    <2>2. QED
      BY <1>2, <2>1 DEF AbsOf
  <1>3. QED
    BY <1>1, <1>2

\* The exposures of a multiple
LEMMA AbsMultiple ==
  ASSUME NEW S, IsFiniteSet(S), NEW f \in [S -> Int], NEW g \in [S -> Int], NEW k \in Nat,
         \A s \in S : f[s] = k * g[s]
  PROVE  /\ \A s \in S : AbsOf(f[s]) = k * AbsOf(g[s])
         /\ AbsSum(f) = k * AbsSum(g)
         /\ Sum(f) = k * Sum(g)
         /\ AbsOf(Sum(f)) = k * AbsOf(Sum(g))
  <1>1. \A x \in Int : AbsOf(k * x) = k * AbsOf(x)
    BY AbsProduct
  <1>2. \A s \in S : AbsOf(f[s]) = k * AbsOf(g[s])
    BY <1>1
  <1>3. Sum(f) = k * Sum(g) /\ Sum(g) \in Int
    BY SumMultiple, SumType
  <1>4. AbsSum(f) = k * AbsSum(g)
    <2> DEFINE a == [s \in S |-> AbsOf(f[s])]
               b == [s \in S |-> AbsOf(g[s])]
    <2>1. a \in [S -> Int] /\ b \in [S -> Int] /\ \A s \in S : a[s] = k * b[s]
      BY <1>2 DEF AbsOf
    <2>2. AbsSum(f) = Sum(a) /\ AbsSum(g) = Sum(b)
      BY DEF AbsSum
    <2> HIDE DEF a, b
    <2>3. QED
      BY <2>1, <2>2, SumMultiple
  <1>5. QED
    BY <1>1, <1>2, <1>3, <1>4

\* Dropping a common factor of two products
LEMMA Cancel ==
  ASSUME NEW k \in Nat \ {0}, NEW x \in Int, NEW y \in Int, k * x <= k * y
  PROVE  x <= y
  <1>1. CASE x > y
    <2>1. x - y >= 1 /\ k * (x - y) = k * x - k * y
      BY <1>1
    <2>2. k * (x - y) >= 1
      BY <2>1
    <2>3. QED
      BY <2>1, <2>2
  <1>2. QED
    BY <1>1

-----------------------------------------------------------------------------
(* The limits of a list *)

\* Each weight within its cap, the exposures within the limits of risk_engine up
\* to the factor of 0.999 that _scale_to_gross_net does not apply
Capped(w, cap) == \A s \in DOMAIN w.n : AbsOf(w.n[s]) <= cap[s] * w.d

\* Within a limit but for the slack of the code, without a division
Slack(x, limit, d) == 999 * x <= 1000 * (limit * d)

GrossIn(w) == Slack(AbsSum(w.n), MaxGross, w.d)
NetIn(w) == Slack(AbsOf(Sum(w.n)), MaxNet, w.d)

\* That allowance is the one of the properties.
LEMMA SlackFacts ==
  ASSUME NEW x \in Nat, NEW limit \in Nat, NEW d \in Nat
  PROVE  Slack(x, limit, d) => WithinSlack(x, limit * d)
  <1>1. limit * d \in Nat
    OBVIOUS
  <1> DEFINE y == limit * d
  <1> HIDE DEF y
  <1>2. y \in Nat
    BY <1>1 DEF y
  <1>3. 999 * x <= 1000 * y => x <= y \/ x - y <= y \div 999
    BY <1>2
  <1>4. QED
    BY <1>3 DEF Slack, WithinSlack, y

\* What _scale_to_gross_net does to gross exposure g and net exposure t of a
\* list with denominator d.
ScaleSound(g, t, d, G, M) ==
  LET byNet == t > M * d /\ M * g <= G * t
      total == IF byNet THEN t ELSE g
      limit == IF byNet THEN M ELSE G
  IN  IF total - limit * d > total \div 1000
      THEN /\ total \in Nat \ {0} /\ limit * d < total
           /\ Slack(limit * g, G, total) /\ Slack(limit * t, M, total)
           /\ ~Slack(g, G, d) \/ ~Slack(t, M, d)
      ELSE Slack(g, G, d) /\ Slack(t, M, d)

\* The exposure that is not the one scaled is below its limit as well.
LEMMA ScaleArithmetic ==
  ASSUME NEW g \in Nat, NEW t \in Nat, t <= g, NEW d \in Nat \ {0}, NEW G \in Nat, NEW M \in Nat
  PROVE  ScaleSound(g, t, d, G, M)
  <1> USE DEF ScaleSound
  <1>1. /\ M * d \in Nat /\ G * d \in Nat /\ M * g \in Nat /\ G * t \in Nat
        /\ G * g \in Nat /\ M * t \in Nat
    OBVIOUS
  <1>2. CASE t > M * d /\ M * g <= G * t
    <2>1. CASE t - M * d > t \div 1000
      <3>1. t \in Nat \ {0} /\ M * d < t
        BY <1>1, <1>2
      <3>2. 999 * (M * g) <= 1000 * (G * t) /\ 999 * (M * t) <= 1000 * (M * t)
        BY <1>1, <1>2
      <3>3. ~(999 * t <= 1000 * (M * d))
        BY <1>1, <2>1
      <3>4. QED
        BY <1>2, <2>1, <3>1, <3>2, <3>3 DEF Slack
    <2>2. CASE ~(t - M * d > t \div 1000)
      <3>1. 999 * t <= 1000 * (M * d)
        BY <1>1, <2>2
      <3>2. M # 0
        <4>1. CASE M = 0
          <5>1. M * d = 0
            BY <4>1
          <5>2. QED
            BY <1>2, <3>1, <5>1
        <4>2. QED
          BY <4>1
      <3>3. M * (999 * g) <= M * (1000 * (G * d))
        <4>1. M * (999 * g) = 999 * (M * g) /\ M * (1000 * (G * d)) = G * (1000 * (M * d))
          OBVIOUS
        <4>2. G * (999 * t) <= G * (1000 * (M * d))
          BY <1>1, <3>1
        <4>3. G * (999 * t) = 999 * (G * t)
          OBVIOUS
        <4>4. QED
          BY <1>1, <1>2, <4>1, <4>2, <4>3
      <3>4. 999 * g <= 1000 * (G * d)
        BY <1>1, <3>2, <3>3, Cancel
      <3>5. QED
        BY <1>2, <2>2, <3>1, <3>4 DEF Slack
    <2>3. QED
      BY <2>1, <2>2
  <1>3. CASE ~(t > M * d /\ M * g <= G * t)
    <2>1. CASE g - G * d > g \div 1000
      <3>1. g \in Nat \ {0} /\ G * d < g
        BY <1>1, <2>1
      <3>2. G * t <= M * g
        <4>1. CASE t <= M * d
          <5>1. G * t <= G * (M * d)
            BY <1>1, <4>1
          <5>2. G * (M * d) = M * (G * d) /\ M * (G * d) <= M * g
            BY <1>1, <3>1
          <5>3. QED
            BY <1>1, <5>1, <5>2
        <4>2. QED
          BY <1>1, <1>3, <4>1
      <3>3. 999 * (G * g) <= 1000 * (G * g) /\ 999 * (G * t) <= 1000 * (M * g)
        BY <1>1, <3>2
      <3>4. ~(999 * g <= 1000 * (G * d))
        BY <1>1, <2>1
      <3>5. QED
        BY <1>3, <2>1, <3>1, <3>3, <3>4 DEF Slack
    <2>2. CASE ~(g - G * d > g \div 1000)
      <3>1. 999 * g <= 1000 * (G * d)
        BY <1>1, <2>2
      <3>2. 999 * t <= 1000 * (M * d)
        <4>1. CASE t <= M * d
          BY <1>1, <4>1
        <4>2. CASE G = 0
          <5>1. G * d = 0
            BY <4>2
          <5>2. g = 0 /\ t = 0
            BY <3>1, <5>1
          <5>3. QED
            BY <1>1, <5>2
        <4>3. CASE G # 0 /\ G * t < M * g
          <5>1. G * (999 * t) = 999 * (G * t) /\ G * (1000 * (M * d)) = M * (1000 * (G * d))
            OBVIOUS
          <5>2. M * (999 * g) <= M * (1000 * (G * d))
            BY <1>1, <3>1
          <5>3. M * (999 * g) = 999 * (M * g)
            OBVIOUS
          <5>4. G * (999 * t) <= G * (1000 * (M * d))
            BY <1>1, <4>3, <5>1, <5>2, <5>3
          <5>5. QED
            BY <1>1, <4>3, <5>4, Cancel
        <4>4. QED
          BY <1>1, <1>3, <4>1, <4>2, <4>3
      <3>3. QED
        BY <1>3, <2>2, <3>1, <3>2 DEF Slack
    <2>3. QED
      BY <2>1, <2>2
  <1>4. QED
    BY <1>2, <1>3
-----------------------------------------------------------------------------
(* Lowest terms, caps and scaling *)

\* Two lists of the same weights, the first in smaller fractions
Finer(w, r, S, k) == w.d = k * r.d /\ \A s \in S : w.n[s] = k * r.n[s]

\* What holds for the finer fractions holds for the others.
LEMMA FinerFacts ==
  ASSUME NEW S, IsFiniteSet(S), NEW w \in ListOver(S), NEW r \in ListOver(S),
         NEW k \in Nat \ {0}, Finer(w, r, S, k)
  PROVE  /\ \A cap \in [S -> Nat] : Capped(w, cap) => Capped(r, cap)
         /\ \A x \in Int, y \in Int : k * x <= k * y => x <= y
         /\ GrossIn(w) => GrossIn(r)
         /\ NetIn(w) => NetIn(r)
  <1> DEFINE f == w.n
             g == r.n
  <1>1. /\ f \in [S -> Int] /\ g \in [S -> Int] /\ w.d \in Nat /\ r.d \in Nat
        /\ w.d = k * r.d /\ \A s \in S : f[s] = k * g[s]
    BY DEF ListOver, Finer
  <1> HIDE DEF f, g
  <1>2. /\ \A s \in S : AbsOf(f[s]) = k * AbsOf(g[s])
        /\ AbsSum(f) = k * AbsSum(g) /\ AbsOf(Sum(f)) = k * AbsOf(Sum(g))
    BY <1>1, AbsMultiple
  <1>3. ASSUME NEW x \in Int, NEW y \in Int, k * x <= k * y PROVE x <= y
    BY <1>3, Cancel
  <1>4. ASSUME NEW cap \in [S -> Nat], Capped(w, cap) PROVE Capped(r, cap)
    <2> SUFFICES ASSUME NEW s \in S PROVE AbsOf(g[s]) <= cap[s] * r.d
      BY <1>1 DEF Capped, g
    <2>1. AbsOf(f[s]) <= cap[s] * w.d
      BY <1>1, <1>4 DEF Capped, f
    <2>2. AbsOf(g[s]) \in Int /\ cap[s] \in Nat
      BY <1>1 DEF AbsOf
    <2>3. cap[s] * w.d = k * (cap[s] * r.d) /\ cap[s] * r.d \in Int
      BY <1>1, <2>2
    <2>4. k * AbsOf(g[s]) <= k * (cap[s] * r.d)
      BY <1>2, <2>1, <2>3
    <2>5. QED
      BY <2>2, <2>3, <2>4, Cancel
  <1>5. ASSUME NEW x \in Nat, NEW limit \in Nat, Slack(k * x, limit, w.d) PROVE Slack(x, limit, r.d)
    <2>1. 999 * (k * x) = k * (999 * x) /\ 1000 * (limit * w.d) = k * (1000 * (limit * r.d))
      BY <1>1
    <2>2. 1000 * (limit * r.d) \in Int
      BY <1>1
    <2>3. QED
      BY <1>5, <2>1, <2>2, Cancel DEF Slack
  <1>6. AbsSum(g) \in Nat /\ AbsOf(Sum(g)) \in Nat /\ MaxGross \in Nat /\ MaxNet \in Nat
    BY <1>1, AbsFacts, LimitsAssumption DEF LimitsAssumption
  <1>7. QED
    BY <1>2, <1>3, <1>4, <1>5, <1>6 DEF GrossIn, NetIn, f, g

\* A list in lowest terms is within the same limits.
LEMMA ReducedKeeps ==
  ASSUME NEW S, IsFiniteSet(S), NEW w \in ListOver(S)
  PROVE  /\ Reduced(w) \in ListOver(S)
         /\ \E k \in Nat \ {0} : Finer(w, Reduced(w), S, k)
  <1>1. w.n \in [S -> Int] /\ w.d \in Nat \ {0} /\ w = [n |-> w.n, d |-> w.d]
    BY DEF ListOver
  <1>2. /\ Reduced(w).d \in Nat \ {0} /\ Reduced(w).n \in [S -> Int]
        /\ \E k \in Nat \ {0} :
             w.d = k * Reduced(w).d /\ \A s \in S : w.n[s] = k * Reduced(w).n[s]
    BY <1>1, ReducedFacts
  <1>3. Reduced(w) = [n |-> Reduced(w).n, d |-> Reduced(w).d]
    BY DEF Reduced
  <1>4. QED
    BY <1>2, <1>3 DEF ListOver, Finer

\* ClipEach makes a list respect the caps, and nothing larger.
LEMMA ClipFacts ==
  ASSUME NEW S, NEW w \in ListOver(S), NEW cap \in [S -> Nat]
  PROVE  /\ ClipEach(w, cap) \in ListOver(S) /\ ClipEach(w, cap).d = w.d
         /\ Capped(ClipEach(w, cap), cap)
         /\ Capped(w, cap) => ClipEach(w, cap) = w
  <1>1. w.n \in [S -> Int] /\ w.d \in Nat \ {0} /\ w = [n |-> w.n, d |-> w.d]
    BY DEF ListOver
  <1> DEFINE m == [s \in S |-> Clip(w.n[s], cap[s] * w.d)]
  <1>2. ClipEach(w, cap) = [n |-> m, d |-> w.d]
    BY <1>1 DEF ClipEach
  <1>3. ASSUME NEW s \in S
        PROVE  /\ m[s] \in Int /\ AbsOf(m[s]) <= cap[s] * w.d
               /\ AbsOf(w.n[s]) <= cap[s] * w.d => m[s] = w.n[s]
    <2> DEFINE c == cap[s] * w.d
    <2>1. c \in Nat /\ w.n[s] \in Int
      BY <1>1
    <2> HIDE DEF c
    <2>2. m[s] = Clip(w.n[s], c)
      BY DEF c
    <2>3. QED
      BY <2>1, <2>2 DEF Clip, AbsOf, c
  <1> HIDE DEF m
  <1>4. m = [s \in S |-> m[s]]
    BY DEF m
  <1>5. m \in [S -> Int]
    BY <1>3, <1>4
  <1>6. Capped(w, cap) => m = w.n
    BY <1>1, <1>3, <1>4 DEF Capped
  <1>7. QED
    BY <1>1, <1>2, <1>3, <1>5, <1>6 DEF ListOver, Capped

\* A list scaled
LEMMA ScaledFacts ==
  ASSUME NEW S, IsFiniteSet(S), NEW w \in ListOver(S), NEW of \in Nat \ {0}, NEW to \in Nat
  PROVE  /\ ScaledTo(w, of, to) \in ListOver(S) /\ ScaledTo(w, of, to).d = of
         /\ \A s \in S : ScaledTo(w, of, to).n[s] = w.n[s] * to
         /\ \A s \in S : AbsOf(ScaledTo(w, of, to).n[s]) = to * AbsOf(w.n[s])
         /\ AbsSum(ScaledTo(w, of, to).n) = to * AbsSum(w.n)
         /\ AbsOf(Sum(ScaledTo(w, of, to).n)) = to * AbsOf(Sum(w.n))
         /\ Sum(ScaledTo(w, of, to).n) = to * Sum(w.n)
  <1> DEFINE f == w.n
             m == [s \in S |-> f[s] * to]
  <1>1. f \in [S -> Int]
    BY DEF ListOver
  <1>2. ScaledTo(w, of, to) = [n |-> m, d |-> of]
    BY <1>1 DEF ScaledTo
  <1> HIDE DEF f
  <1>3. m \in [S -> Int] /\ \A s \in S : m[s] = to * f[s] /\ m[s] = f[s] * to
    BY <1>1
  <1> HIDE DEF m
  <1>4. /\ \A s \in S : AbsOf(m[s]) = to * AbsOf(f[s])
        /\ AbsSum(m) = to * AbsSum(f) /\ Sum(m) = to * Sum(f)
        /\ AbsOf(Sum(m)) = to * AbsOf(Sum(f))
    BY <1>1, <1>3, AbsMultiple
  <1>5. QED
    BY <1>2, <1>3, <1>4 DEF ListOver, f

\* _scale_to_gross_net brings a list within both limits, keeps the caps, and
\* leaves a list that is within the limits alone.
LEMMA ScaleToFacts ==
  ASSUME NEW S, IsFiniteSet(S), NEW w \in ListOver(S)
  PROVE  /\ ScaleToGrossNet(w) \in ListOver(S)
         /\ GrossIn(ScaleToGrossNet(w)) /\ NetIn(ScaleToGrossNet(w))
         /\ \A cap \in [S -> Nat] : Capped(w, cap) => Capped(ScaleToGrossNet(w), cap)
         /\ GrossIn(w) /\ NetIn(w) => ScaleToGrossNet(w) = w
  <1> DEFINE gross == AbsSum(w.n)
             net == AbsOf(Sum(w.n))
             byNet == net > MaxNet * w.d /\ MaxNet * gross <= MaxGross * net
             total == IF byNet THEN net ELSE gross
             limit == IF byNet THEN MaxNet ELSE MaxGross
             v == ScaledTo(w, total, limit)
  <1>1. w.n \in [S -> Int] /\ w.d \in Nat \ {0} /\ MaxGross \in Nat /\ MaxNet \in Nat
    BY LimitsAssumption DEF ListOver, LimitsAssumption
  <1>2. gross \in Nat /\ net \in Nat /\ net <= gross
    BY <1>1, AbsFacts
  <1>3. IF total - limit * w.d > total \div 1000
        THEN /\ total \in Nat \ {0} /\ limit * w.d < total
             /\ Slack(limit * gross, MaxGross, total) /\ Slack(limit * net, MaxNet, total)
             /\ ~Slack(gross, MaxGross, w.d) \/ ~Slack(net, MaxNet, w.d)
        ELSE Slack(gross, MaxGross, w.d) /\ Slack(net, MaxNet, w.d)
    <2>1. ScaleSound(gross, net, w.d, MaxGross, MaxNet)
      <3> HIDE DEF gross, net
      <3> QED
        BY <1>1, <1>2, ScaleArithmetic
    <2>2. QED
      BY <2>1, Zenon DEF ScaleSound
  <1>4. ScaleToGrossNet(w) = IF total - limit * w.d > total \div 1000 THEN Reduced(v) ELSE w
    BY DEF ScaleToGrossNet
  <1>5. limit \in Nat
    BY <1>1
  <1> HIDE DEF total, limit, byNet
  <1>6. CASE total - limit * w.d > total \div 1000
    <2>1. total \in Nat \ {0} /\ limit * w.d < total
      BY <1>3, <1>6
    <2>2. /\ v \in ListOver(S) /\ v.d = total
          /\ \A s \in S : AbsOf(v.n[s]) = limit * AbsOf(w.n[s])
          /\ AbsSum(v.n) = limit * gross /\ AbsOf(Sum(v.n)) = limit * net
      BY <1>5, <2>1, ScaledFacts
    <2>3. GrossIn(v) /\ NetIn(v)
      BY <1>3, <1>6, <2>2 DEF GrossIn, NetIn
    <2> HIDE DEF v
    <2>4. ASSUME NEW cap \in [S -> Nat], Capped(w, cap) PROVE Capped(v, cap)
      <3> SUFFICES ASSUME NEW s \in S PROVE AbsOf(v.n[s]) <= cap[s] * total
        BY <2>2 DEF ListOver, Capped
      <3> DEFINE x == AbsOf(w.n[s])
                 c == cap[s]
      <3>1. x \in Nat /\ c \in Nat /\ x <= c * w.d
        BY <1>1, <2>4 DEF Capped, AbsOf
      <3>2. AbsOf(v.n[s]) = limit * x
        BY <2>2
      <3> HIDE DEF x, c
      <3>3. limit * x <= limit * (c * w.d)
        BY <1>1, <1>5, <3>1
      <3>4. limit * (c * w.d) = c * (limit * w.d)
        BY <1>1, <1>5, <3>1
      <3>5. c * (limit * w.d) <= c * total
        BY <1>1, <1>5, <2>1, <3>1
      <3>6. limit * x \in Int /\ limit * (c * w.d) \in Int /\ c * total \in Int
        BY <1>1, <1>5, <2>1, <3>1
      <3>7. QED
        BY <3>2, <3>3, <3>4, <3>5, <3>6 DEF c
    <2>5. PICK k \in Nat \ {0} : Finer(v, Reduced(v), S, k) /\ Reduced(v) \in ListOver(S)
      BY <2>2, ReducedKeeps
    <2>6. /\ GrossIn(Reduced(v)) /\ NetIn(Reduced(v))
          /\ \A cap \in [S -> Nat] : Capped(v, cap) => Capped(Reduced(v), cap)
      BY <2>2, <2>3, <2>5, FinerFacts
    <2>7. ~GrossIn(w) \/ ~NetIn(w)
      BY <1>3, <1>6 DEF GrossIn, NetIn
    <2>8. QED
      BY <1>4, <1>6, <2>4, <2>5, <2>6, <2>7
  <1>7. CASE ~(total - limit * w.d > total \div 1000)
    BY <1>3, <1>4, <1>7 DEF GrossIn, NetIn
  <1>8. QED
    BY <1>6, <1>7
-----------------------------------------------------------------------------
(* The turnover limit and apply_position_limits *)

\* Exposures of a mixture
LEMMA MixFacts ==
  ASSUME NEW S, IsFiniteSet(S), NEW f \in [S -> Int], NEW g \in [S -> Int], NEW h \in [S -> Int],
         NEW a \in Nat, NEW b \in Nat, \A s \in S : h[s] = a * f[s] + b * g[s]
  PROVE  /\ \A s \in S : AbsOf(h[s]) <= a * AbsOf(f[s]) + b * AbsOf(g[s])
         /\ AbsSum(h) <= a * AbsSum(f) + b * AbsSum(g)
         /\ AbsOf(Sum(h)) <= a * AbsOf(Sum(f)) + b * AbsOf(Sum(g))
  <1>1. ASSUME NEW x \in Int, NEW y \in Int
        PROVE  AbsOf(a * x + b * y) <= a * AbsOf(x) + b * AbsOf(y)
    <2>1. a * x <= a * AbsOf(x) /\ -(a * x) <= a * AbsOf(x) /\ a * x \in Int /\ a * AbsOf(x) \in Int
      BY DEF AbsOf
    <2>2. b * y <= b * AbsOf(y) /\ -(b * y) <= b * AbsOf(y) /\ b * y \in Int /\ b * AbsOf(y) \in Int
      BY DEF AbsOf
    <2>3. \A p \in Int, q \in Int, u \in Int, v \in Int :
            p <= u /\ -p <= u /\ q <= v /\ -q <= v => AbsOf(p + q) <= u + v
      BY DEF AbsOf
    <2>4. QED
      BY <2>1, <2>2, <2>3
  <1>2. \A s \in S : AbsOf(h[s]) <= a * AbsOf(f[s]) + b * AbsOf(g[s])
    BY <1>1
  <1> DEFINE F == [s \in S |-> AbsOf(f[s])]
             G == [s \in S |-> AbsOf(g[s])]
             H == [s \in S |-> AbsOf(h[s])]
             K == [s \in S |-> a * F[s] + b * G[s]]
  <1>3. /\ F \in [S -> Int] /\ G \in [S -> Int] /\ H \in [S -> Int]
        /\ \A s \in S : H[s] <= a * F[s] + b * G[s]
    BY <1>2 DEF AbsOf
  <1>4. AbsSum(f) = Sum(F) /\ AbsSum(g) = Sum(G) /\ AbsSum(h) = Sum(H)
    BY DEF AbsSum
  <1> HIDE DEF F, G, H
  <1>5. K \in [S -> Int] /\ \A s \in S : H[s] <= K[s]
    BY <1>3
  <1>6. Sum(K) = a * Sum(F) + b * Sum(G)
    BY <1>3, SumLinear
  <1> HIDE DEF K
  <1>7. Sum(H) <= Sum(K)
    BY <1>3, <1>5, SumMonotone
  <1>8. Sum(h) = a * Sum(f) + b * Sum(g)
    <2>1. h = [s \in S |-> a * f[s] + b * g[s]]
      OBVIOUS
    <2>2. QED
      BY <2>1, SumLinear
  <1>9. Sum(f) \in Int /\ Sum(g) \in Int
    BY SumType
  <1>10. AbsOf(Sum(h)) <= a * AbsOf(Sum(f)) + b * AbsOf(Sum(g))
    BY <1>1, <1>8, <1>9
  <1>11. QED
    BY <1>2, <1>4, <1>6, <1>7, <1>10

\* v lies at the fraction to / of of the way from b to w.
PartWay(v, w, b, of, to, S) ==
  /\ v \in ListOver(S) /\ v.d = of
  /\ \A s \in S : v.n[s] = b[s] * of + (w.n[s] - b[s] * w.d) * to

\* Part of the way from the book to the list
LEMMA TowardsFacts ==
  ASSUME NEW S, NEW w \in ListOver(S), NEW B, S \subseteq B, NEW b \in [B -> Int],
         NEW of \in Nat \ {0}, NEW to \in Nat
  PROVE  PartWay(Towards(w, b, of, to), w, b, of, to, S)
  <1> DEFINE m == [s \in S |-> b[s] * of + (w.n[s] - b[s] * w.d) * to]
  <1>1. w.n \in [S -> Int] /\ w.d \in Nat
    BY DEF ListOver
  <1>2. Towards(w, b, of, to) = [n |-> m, d |-> of]
    BY <1>1 DEF Towards
  <1>3. m \in [S -> Int]
    BY <1>1
  <1>4. \A s \in S : m[s] = b[s] * of + (w.n[s] - b[s] * w.d) * to
    OBVIOUS
  <1> HIDE DEF m
  <1>5. QED
    BY <1>2, <1>3, <1>4 DEF ListOver, PartWay

\* The turnover of a list is a number.
LEMMA DistanceType ==
  ASSUME NEW S, NEW w \in ListOver(S), NEW B, IsFiniteSet(B), NEW b \in [B -> Int]
  PROVE  Distance(w, b, B) \in Nat /\ [s \in B |-> At(w, s) - b[s] * w.d] \in [B -> Int]
  <1>1. w.n \in [S -> Int] /\ w.d \in Nat
    BY DEF ListOver
  <1>2. [s \in B |-> At(w, s) - b[s] * w.d] \in [B -> Int]
    BY <1>1 DEF At
  <1>3. QED
    BY <1>2, AbsFacts DEF Distance

\* The turnover limit yields a list over the same symbols.
LEMMA TurnoverType ==
  ASSUME NEW S \in SUBSET Syms, NEW w \in ListOver(S), book \in [Syms -> Int]
  PROVE  LimitTurnover(w) \in ListOver(S)
  <1> DEFINE t == Turnover(w)
             v == Towards(w, book, t, TurnoverCap)
  <1>1. IsFiniteSet(Syms) /\ IsFiniteSet(S) /\ TurnoverCap \in Nat
    BY LimitsAssumption, FS_Subset DEF LimitsAssumption
  <1>2. t \in Nat /\ w.d \in Nat \ {0}
    BY <1>1, DistanceType DEF Turnover, ListOver
  <1> HIDE DEF t
  <1>3. CASE t <= TurnoverCap * w.d
    BY <1>3 DEF LimitTurnover, t
  <1>4. CASE ~(t <= TurnoverCap * w.d)
    <2>1. TurnoverCap * w.d \in Nat
      BY <1>1, <1>2
    <2>2. t \in Nat \ {0}
      BY <1>2, <1>4, <2>1
    <2>3. v \in ListOver(S)
      <3>1. S \subseteq Syms
        OBVIOUS
      <3>2. PartWay(v, w, book, t, TurnoverCap, S)
        BY <1>1, <2>2, <3>1, TowardsFacts
      <3>3. QED
        BY <3>2 DEF PartWay
    <2> HIDE DEF v
    <2>4. Reduced(v) \in ListOver(S)
      BY <1>1, <2>3, ReducedKeeps
    <2>5. QED
      BY <1>4, <2>4 DEF LimitTurnover, t, v
  <1>5. QED
    BY <1>3, <1>4

\* apply_position_limits: caps, gross and net exposure of what comes out.
LEMMA ApplyFacts ==
  ASSUME NEW S \in SUBSET Syms, NEW w \in ListOver(S), book \in [Syms -> Int]
  PROVE  LET r == ApplyPositionLimits(w)
         IN  r \in ListOver(S) /\ Capped(r, Cap) /\ GrossIn(r) /\ NetIn(r)
  <1>1. PICK cap \in [S -> Nat] : \A s \in S : cap[s] = Cap[s]
    <2>1. [s \in S |-> Cap[s]] \in [S -> Nat]
      BY LimitsAssumption DEF LimitsAssumption
    <2>2. QED
      BY <2>1
  <1>2. ASSUME NEW x \in ListOver(S)
        PROVE  ClipEach(x, Cap) = ClipEach(x, cap) /\ (Capped(x, Cap) <=> Capped(x, cap))
    <2>1. DOMAIN x.n = S
      BY DEF ListOver
    <2>2. QED
      BY <1>1, <2>1 DEF ClipEach, Capped
  <1>3. IsFiniteSet(S)
    BY LimitsAssumption, FS_Subset DEF LimitsAssumption
  <1> DEFINE w1 == ScaleToGrossNet(ClipEach(w, Cap))
             w2 == LimitTurnover(w1)
             w3 == ClipEach(w2, Cap)
  <1>4. w1 \in ListOver(S)
    BY <1>2, <1>3, ClipFacts, ScaleToFacts
  <1> HIDE DEF w1
  <1>5. w2 \in ListOver(S)
    BY <1>4, TurnoverType
  <1> HIDE DEF w2
  <1>6. w3 \in ListOver(S) /\ Capped(w3, cap)
    BY <1>2, <1>5, ClipFacts
  <1> HIDE DEF w3
  <1>7. LET r == ScaleToGrossNet(w3)
        IN  r \in ListOver(S) /\ Capped(r, cap) /\ GrossIn(r) /\ NetIn(r)
    BY <1>3, <1>6, ScaleToFacts
  <1>8. QED
    BY <1>2, <1>7 DEF ApplyPositionLimits, w1, w2, w3

\* finalize_risk_mode_targets under REDUCE_ONLY
LEMMA ConstrainFacts ==
  ASSUME NEW S \in SUBSET Syms, NEW w \in ListOver(S), book \in [Syms -> Int],
         Capped(w, Cap), GrossIn(w)
  PROVE  LET r == Constrain(w)
         IN  /\ r \in ListOver(S) /\ Capped(r, Cap) /\ GrossIn(r)
             /\ \A s \in S : AbsOf(r.n[s]) <= AbsOf(book[s]) * r.d
  <1>1. w.n \in [S -> Int] /\ w.d \in Nat \ {0} /\ w = [n |-> w.n, d |-> w.d]
    BY DEF ListOver
  <1> DEFINE m == [s \in S |-> IF AbsOf(w.n[s]) > AbsOf(book[s]) * w.d THEN book[s] * w.d ELSE w.n[s]]
             r == Constrain(w)
  <1>2. r = [n |-> m, d |-> w.d]
    BY <1>1 DEF Constrain
  <1>3. ASSUME NEW s \in S
        PROVE  /\ m[s] \in Int /\ AbsOf(m[s]) <= AbsOf(w.n[s])
               /\ AbsOf(m[s]) <= AbsOf(book[s]) * w.d
    <2>1. book[s] \in Int /\ w.n[s] \in Int
      BY <1>1
    <2>2. AbsOf(book[s] * w.d) = w.d * AbsOf(book[s])
      <3>1. AbsOf(w.d * book[s]) = w.d * AbsOf(book[s])
        BY <1>1, <2>1, AbsProduct
      <3>2. book[s] * w.d = w.d * book[s]
        BY <1>1, <2>1
      <3>3. QED
        BY <3>1, <3>2
    <2>3. AbsOf(book[s]) * w.d \in Int /\ AbsOf(book[s]) * w.d = w.d * AbsOf(book[s])
      BY <1>1, <2>1 DEF AbsOf
    <2>4. AbsOf(w.n[s]) \in Int /\ book[s] * w.d \in Int
      BY <1>1, <2>1 DEF AbsOf
    <2>5. QED
      BY <2>1, <2>2, <2>3, <2>4
  <1> HIDE DEF m
  <1>4. m \in [S -> Int]
    BY <1>3 DEF m
  <1>5. AbsSum(m) <= AbsSum(w.n)
    <2> DEFINE f == [s \in S |-> AbsOf(m[s])]
               g == [s \in S |-> AbsOf(w.n[s])]
    <2>1. f \in [S -> Int] /\ g \in [S -> Int] /\ \A s \in S : f[s] <= g[s]
      BY <1>1, <1>3 DEF AbsOf
    <2>2. AbsSum(m) = Sum(f) /\ AbsSum(w.n) = Sum(g)
      BY <1>1, <1>4 DEF AbsSum
    <2>3. IsFiniteSet(S)
      BY LimitsAssumption, FS_Subset DEF LimitsAssumption
    <2> HIDE DEF f, g
    <2>4. QED
      BY <2>1, <2>2, <2>3, SumMonotone
  <1>6. GrossIn(r)
    <2>1. IsFiniteSet(S)
      BY LimitsAssumption, FS_Subset DEF LimitsAssumption
    <2>2. AbsSum(m) \in Int /\ AbsSum(w.n) \in Int
      <3>1. AbsSum(m) \in Nat
        BY <1>4, <2>1, AbsFacts
      <3>2. AbsSum(w.n) \in Nat
        BY <1>1, <2>1, AbsFacts
      <3>3. QED
        BY <3>1, <3>2
    <2>3. MaxGross \in Nat /\ 1000 * (MaxGross * w.d) \in Int
      BY <1>1, LimitsAssumption DEF LimitsAssumption
    <2>4. QED
      BY <1>2, <1>5, <2>2, <2>3 DEF GrossIn, Slack
  <1>7. Capped(r, Cap)
    <2> SUFFICES ASSUME NEW s \in S PROVE AbsOf(m[s]) <= Cap[s] * w.d
      BY <1>2, <1>4 DEF Capped
    <2>1. AbsOf(w.n[s]) <= Cap[s] * w.d
      BY <1>1 DEF Capped
    <2>2. AbsOf(m[s]) \in Int /\ AbsOf(w.n[s]) \in Int /\ Cap[s] * w.d \in Int
      BY <1>1, <1>3, LimitsAssumption DEF AbsOf, LimitsAssumption
    <2>3. QED
      BY <1>3, <2>1, <2>2
  <1>8. QED
    BY <1>1, <1>2, <1>3, <1>4, <1>6, <1>7 DEF ListOver
-----------------------------------------------------------------------------
(* The turnover of the approved weights *)

\* Distances of two lists of the same weights
LEMMA FinerDistance ==
  ASSUME NEW S, IsFiniteSet(S), NEW w \in ListOver(S), NEW r \in ListOver(S),
         NEW k \in Nat \ {0}, Finer(w, r, S, k), NEW b \in [S -> Int]
  PROVE  Distance(w, b, S) = k * Distance(r, b, S)
  <1> DEFINE f == [s \in S |-> At(w, s) - b[s] * w.d]
             g == [s \in S |-> At(r, s) - b[s] * r.d]
  <1>1. /\ w.n \in [S -> Int] /\ r.n \in [S -> Int] /\ w.d \in Nat /\ r.d \in Nat
        /\ w.d = k * r.d /\ \A s \in S : w.n[s] = k * r.n[s]
    BY DEF ListOver, Finer
  <1>2. f \in [S -> Int] /\ g \in [S -> Int]
    BY <1>1 DEF At
  <1>3. ASSUME NEW s \in S PROVE f[s] = k * g[s]
    <2>1. f[s] = w.n[s] - b[s] * w.d /\ g[s] = r.n[s] - b[s] * r.d
      BY <1>1 DEF At
    <2>2. b[s] * (k * r.d) = k * (b[s] * r.d) /\ b[s] * r.d \in Int
      BY <1>1
    <2>3. w.n[s] = k * r.n[s] /\ b[s] * w.d = b[s] * (k * r.d) /\ r.n[s] \in Int
      BY <1>1
    <2>4. QED
      BY <2>1, <2>2, <2>3
  <1>4. Distance(w, b, S) = AbsSum(f) /\ Distance(r, b, S) = AbsSum(g)
    BY DEF Distance
  <1> HIDE DEF f, g
  <1>5. QED
    BY <1>2, <1>3, <1>4, AbsMultiple

\* From a list and a book that are within the limits, the turnover limit makes
\* one that still is, and within the turnover cap.
LEMMA TurnoverFacts ==
  ASSUME NEW w \in ListOver(Syms), book \in [Syms -> Int], BookWithinLimits,
         Capped(w, Cap), GrossIn(w), NetIn(w)
  PROVE  LET u == LimitTurnover(w)
         IN  /\ u \in ListOver(Syms) /\ Capped(u, Cap) /\ GrossIn(u) /\ NetIn(u)
             /\ Turnover(u) <= TurnoverCap * u.d
  <1> DEFINE t == Turnover(w)
             C == TurnoverCap
             v == Towards(w, book, t, C)
             a == t - C * w.d
             n == w.n
             d == w.d
  <1>1. /\ IsFiniteSet(Syms) /\ C \in Nat /\ Cap \in [Syms -> Nat]
        /\ MaxGross \in Nat /\ MaxNet \in Nat
    BY LimitsAssumption DEF LimitsAssumption
  <1>2. t \in Nat /\ d \in Nat \ {0} /\ n \in [Syms -> Int]
    BY <1>1, DistanceType DEF Turnover, ListOver
  <1>3. LimitTurnover(w) = IF t <= C * d THEN w ELSE Reduced(v)
    BY DEF LimitTurnover
  <1>4. CASE t <= C * d
    BY <1>3, <1>4 DEF Turnover
  <1>5. CASE ~(t <= C * d)
    <2>1. t \in Nat \ {0} /\ a \in Nat /\ a + C * d = t
      BY <1>1, <1>2, <1>5
    <2>2. /\ v \in ListOver(Syms) /\ v.d = t /\ v.n \in [Syms -> Int]
          /\ \A s \in Syms : v.n[s] = book[s] * t + (n[s] - book[s] * d) * C
      <3> HIDE DEF t, C, a
      <3>1. /\ w \in ListOver(Syms) /\ book \in [Syms -> Int] /\ t \in Nat \ {0} /\ C \in Nat
            /\ Syms \subseteq Syms
        BY <1>1, <2>1
      <3>2. PartWay(v, w, book, t, C, Syms)
        BY <3>1, TowardsFacts
      <3>3. v \in ListOver(Syms) /\ v.d = t
            /\ \A s \in Syms : v.n[s] = book[s] * t + (n[s] - book[s] * d) * C
        BY <3>2 DEF PartWay
      <3> HIDE DEF v
      <3>4. v.n \in [Syms -> Int]
        BY <3>3 DEF ListOver
      <3>5. QED
        BY <3>3, <3>4
    <2> HIDE DEF t, C, v, a, n, d
    <2>3. ASSUME NEW s \in Syms PROVE v.n[s] = a * book[s] + C * n[s]
      <3> DEFINE b == book[s]
                 m == n[s]
      <3>1. b \in Int /\ m \in Int /\ v.n[s] = b * t + (m - b * d) * C
        BY <1>2, <2>2
      <3> HIDE DEF b, m
      <3>2. b * t = b * a + b * (C * d) /\ (m - b * d) * C = m * C - (b * d) * C
        BY <1>1, <1>2, <2>1, <3>1
      <3>3. b * (C * d) = (b * d) * C
        BY <1>1, <1>2, <3>1
      <3>4. QED
        BY <1>1, <1>2, <2>1, <3>1, <3>2, <3>3 DEF b, m
    <2>4. /\ \A s \in Syms : AbsOf(v.n[s]) <= a * AbsOf(book[s]) + C * AbsOf(n[s])
          /\ AbsSum(v.n) <= a * AbsSum(book) + C * AbsSum(n)
          /\ AbsOf(Sum(v.n)) <= a * AbsOf(Sum(book)) + C * AbsOf(Sum(n))
      BY <1>1, <1>2, <2>1, <2>2, <2>3, MixFacts
    <2>5. Capped(v, Cap)
      <3> SUFFICES ASSUME NEW s \in Syms PROVE AbsOf(v.n[s]) <= Cap[s] * t
        BY <2>2 DEF Capped
      <3> DEFINE x == AbsOf(book[s])
                 y == AbsOf(n[s])
                 z == AbsOf(v.n[s])
                 c == Cap[s]
      <3>1. x \in Nat /\ y \in Nat /\ z \in Nat /\ c \in Nat
        BY <1>1, <1>2, <2>2 DEF AbsOf
      <3>2. x <= c /\ y <= c * d
        BY <1>2 DEF BookWithinLimits, Capped, n, d
      <3>3. z <= a * x + C * y
        BY <2>4
      <3> HIDE DEF x, y, z, c
      <3>4. a * x <= a * c /\ C * y <= C * (c * d)
        BY <1>1, <1>2, <2>1, <3>1, <3>2
      <3>5. c * t = a * c + C * (c * d)
        <4>1. c * (a + C * d) = c * a + c * (C * d)
          BY <1>1, <1>2, <2>1, <3>1
        <4>2. c * a = a * c /\ c * (C * d) = C * (c * d)
          BY <1>1, <1>2, <2>1, <3>1
        <4>3. QED
          BY <2>1, <4>1, <4>2
      <3>6. /\ a * x \in Int /\ a * c \in Int /\ C * y \in Int /\ C * (c * d) \in Int
        BY <1>1, <1>2, <2>1, <3>1
      <3>7. z <= c * t
        BY <3>1, <3>3, <3>4, <3>5, <3>6
      <3>8. QED
        BY <3>7 DEF z, c
    <2>6. ASSUME NEW x \in Nat, NEW y \in Nat, NEW z \in Nat, NEW limit \in Nat,
                 x <= limit, Slack(y, limit, d), z <= a * x + C * y
          PROVE  Slack(z, limit, t)
      <3>1. a * x <= a * limit
        BY <2>1, <2>6
      <3>2. C * (999 * y) <= C * (1000 * (limit * d))
        <4>1. 999 * y \in Int /\ 1000 * (limit * d) \in Int
          BY <1>2
        <4>2. 999 * y <= 1000 * (limit * d)
          BY <2>6 DEF Slack
        <4>3. QED
          BY <1>1, <4>1, <4>2
      <3>3. C * (999 * y) = 999 * (C * y) /\ C * (1000 * (limit * d)) = 1000 * (limit * (C * d))
        BY <1>1, <1>2
      <3>4. limit * t = a * limit + limit * (C * d)
        <4>1. limit * (a + C * d) = limit * a + limit * (C * d) /\ limit * a = a * limit
          BY <1>1, <1>2, <2>1
        <4>2. QED
          BY <2>1, <4>1
      <3>5. /\ a * x \in Nat /\ a * limit \in Nat /\ C * y \in Nat /\ limit * (C * d) \in Nat
        BY <1>1, <1>2, <2>1
      <3>6. 999 * z <= 1000 * (limit * t)
        BY <2>6, <3>1, <3>2, <3>3, <3>4, <3>5
      <3>7. QED
        BY <3>6 DEF Slack
    <2>7. /\ AbsSum(v.n) \in Nat /\ AbsOf(Sum(v.n)) \in Nat
          /\ AbsSum(n) \in Nat /\ AbsOf(Sum(n)) \in Nat
          /\ AbsSum(book) \in Nat /\ AbsOf(Sum(book)) \in Nat
      <3>1. AbsSum(v.n) \in Nat /\ AbsOf(Sum(v.n)) \in Nat
        BY <1>1, <2>2, AbsFacts
      <3>2. AbsSum(n) \in Nat /\ AbsOf(Sum(n)) \in Nat
        BY <1>1, <1>2, AbsFacts
      <3>3. AbsSum(book) \in Nat /\ AbsOf(Sum(book)) \in Nat
        BY <1>1, AbsFacts
      <3>4. QED
        BY <3>1, <3>2, <3>3
    <2>8. /\ Slack(AbsSum(n), MaxGross, d) /\ Slack(AbsOf(Sum(n)), MaxNet, d)
          /\ AbsSum(book) <= MaxGross /\ AbsOf(Sum(book)) <= MaxNet
      BY DEF GrossIn, NetIn, BookWithinLimits, n, d
    <2>9. GrossIn(v) /\ NetIn(v)
      <3>1. Slack(AbsSum(v.n), MaxGross, t)
        BY <1>1, <2>4, <2>6, <2>7, <2>8
      <3>2. Slack(AbsOf(Sum(v.n)), MaxNet, t)
        BY <1>1, <2>4, <2>6, <2>7, <2>8
      <3>3. QED
        BY <2>2, <3>1, <3>2 DEF GrossIn, NetIn
    <2>10. Turnover(v) = C * t
      <3> DEFINE f == [s \in Syms |-> At(v, s) - book[s] * v.d]
                 g == [s \in Syms |-> At(w, s) - book[s] * d]
      <3>1. f \in [Syms -> Int] /\ g \in [Syms -> Int]
        BY <1>1, <2>2, DistanceType DEF d
      <3>2. ASSUME NEW s \in Syms PROVE f[s] = C * g[s]
        <4>1. f[s] = v.n[s] - book[s] * t /\ g[s] = n[s] - book[s] * d
          BY <1>2, <2>2 DEF At, n
        <4>2. v.n[s] = book[s] * t + (n[s] - book[s] * d) * C
          BY <2>2
        <4>3. book[s] * t \in Int /\ n[s] - book[s] * d \in Int
          BY <1>2, <2>1
        <4>4. QED
          BY <1>1, <4>1, <4>2, <4>3
      <3>3. Turnover(v) = AbsSum(f) /\ t = AbsSum(g)
        BY DEF Turnover, Distance, t, d
      <3> HIDE DEF f, g
      <3>4. QED
        BY <1>1, <3>1, <3>2, <3>3, AbsMultiple
    <2>11. PICK k \in Nat \ {0} : Finer(v, Reduced(v), Syms, k) /\ Reduced(v) \in ListOver(Syms)
      BY <1>1, <2>2, ReducedKeeps
    <2> DEFINE r == Reduced(v)
    <2> HIDE DEF r
    <2>12. r \in ListOver(Syms) /\ Finer(v, r, Syms, k)
      BY <2>11 DEF r
    <2>13. Capped(r, Cap) /\ GrossIn(r) /\ NetIn(r)
      BY <1>1, <2>2, <2>5, <2>9, <2>12, FinerFacts
    <2>14. Turnover(r) <= C * r.d
      <3>1. Turnover(v) = k * Turnover(r)
        BY <1>1, <2>2, <2>12, FinerDistance DEF Turnover
      <3>2. t = k * r.d /\ r.d \in Nat
        BY <2>2, <2>12 DEF Finer, ListOver
      <3>3. Turnover(r) \in Nat
        BY <1>1, <2>12, DistanceType DEF Turnover
      <3>4. k * Turnover(r) <= k * (C * r.d) /\ C * r.d \in Int
        BY <1>1, <2>10, <3>1, <3>2
      <3>5. QED
        BY <3>3, <3>4, Cancel
    <2>15. QED
      BY <1>3, <1>5, <2>12, <2>13, <2>14 DEF r, C
  <1>6. QED
    BY <1>4, <1>5

\* From a book within the limits, the limits after the turnover change nothing.
LEMMA ApplyTurnover ==
  ASSUME NEW w \in ListOver(Syms), book \in [Syms -> Int], BookWithinLimits
  PROVE  Turnover(ApplyPositionLimits(w)) <= TurnoverCap * ApplyPositionLimits(w).d
  <1> DEFINE w1 == ScaleToGrossNet(ClipEach(w, Cap))
             w2 == LimitTurnover(w1)
  <1>1. IsFiniteSet(Syms) /\ Cap \in [Syms -> Nat]
    BY LimitsAssumption DEF LimitsAssumption
  <1>2. w1 \in ListOver(Syms) /\ Capped(w1, Cap) /\ GrossIn(w1) /\ NetIn(w1)
    BY <1>1, ClipFacts, ScaleToFacts
  <1> HIDE DEF w1
  <1>3. /\ w2 \in ListOver(Syms) /\ Capped(w2, Cap) /\ GrossIn(w2) /\ NetIn(w2)
        /\ Turnover(w2) <= TurnoverCap * w2.d
    BY <1>2, TurnoverFacts
  <1> HIDE DEF w2
  <1>4. ClipEach(w2, Cap) = w2 /\ ScaleToGrossNet(w2) = w2
    BY <1>1, <1>3, ClipFacts, ScaleToFacts
  <1>5. QED
    BY <1>3, <1>4 DEF ApplyPositionLimits, w1, w2
-----------------------------------------------------------------------------
(* Bounds of single symbols *)

\* Weights between two bounds, in units, and twice the gross exposure within another
Inside(w, lo, hi) ==
  \A s \in DOMAIN w.n : w.n[s] <= hi[s] * w.d /\ -w.n[s] <= lo[s] * w.d
GrossBy(w, halves) == 2 * AbsSum(w.n) <= halves * w.d
NetBy(w, net) == AbsOf(Sum(w.n)) <= net * w.d

\* Scaling by a factor that is at most one keeps a bound.
LEMMA ScaledBound ==
  ASSUME NEW x \in Int, NEW h \in Nat, NEW d \in Nat, NEW to \in Nat, NEW of \in Nat,
         x <= h * d, to * d <= of
  PROVE  to * x <= h * of
  <1>1. h * d \in Int /\ to * d \in Int /\ to * x \in Int /\ h * of \in Int
    OBVIOUS
  <1>2. to * x <= to * (h * d)
    BY <1>1
  <1>3. to * (h * d) = h * (to * d)
    OBVIOUS
  <1>4. h * (to * d) <= h * of
    BY <1>1
  <1>5. to * (h * d) \in Int /\ h * (to * d) \in Int
    BY <1>1
  <1>6. QED
    BY <1>1, <1>2, <1>3, <1>4, <1>5

\* Mixing what respects a bound keeps it.
LEMMA MixedBound ==
  ASSUME NEW x \in Int, NEW y \in Int, NEW z \in Int, NEW h \in Nat, NEW d \in Nat,
         NEW a \in Nat, NEW b \in Nat,
         x <= h, y <= h * d, z <= a * x + b * y
  PROVE  z <= h * (a + b * d)
  <1>1. h * d \in Int
    OBVIOUS
  <1>2. a * x <= a * h /\ b * y <= b * (h * d)
    BY <1>1
  <1>3. h * (a + b * d) = h * a + h * (b * d)
    OBVIOUS
  <1>4. h * a = a * h /\ h * (b * d) = b * (h * d)
    OBVIOUS
  <1>5. a * x \in Int /\ a * h \in Int /\ b * y \in Int /\ b * (h * d) \in Int
    BY <1>1
  <1>6. QED
    BY <1>2, <1>3, <1>4, <1>5

\* A list in lowest terms keeps the bounds of the list.
LEMMA ReducedInside ==
  ASSUME NEW S, IsFiniteSet(S), NEW w \in ListOver(S),
         NEW lo \in [S -> Nat], NEW hi \in [S -> Nat], NEW halves \in Nat, NEW net \in Nat
  PROVE  /\ Reduced(w) \in ListOver(S)
         /\ Inside(w, lo, hi) => Inside(Reduced(w), lo, hi)
         /\ GrossBy(w, halves) => GrossBy(Reduced(w), halves)
         /\ NetBy(w, net) => NetBy(Reduced(w), net)
  <1> DEFINE r == Reduced(w)
  <1>1. PICK k \in Nat \ {0} : Finer(w, r, S, k) /\ r \in ListOver(S)
    <2>1. Reduced(w) \in ListOver(S) /\ \E k \in Nat \ {0} : Finer(w, Reduced(w), S, k)
      BY ReducedKeeps
    <2>2. QED
      BY <2>1
  <1> HIDE DEF r
  <1>2. /\ w.n \in [S -> Int] /\ r.n \in [S -> Int] /\ w.d \in Nat /\ r.d \in Nat
        /\ w.d = k * r.d /\ \A s \in S : w.n[s] = k * r.n[s]
    BY <1>1 DEF ListOver, Finer
  <1>3. /\ AbsSum(w.n) = k * AbsSum(r.n) /\ AbsOf(Sum(w.n)) = k * AbsOf(Sum(r.n))
    <2> DEFINE f == w.n
               g == r.n
    <2>1. f \in [S -> Int] /\ g \in [S -> Int] /\ \A s \in S : f[s] = k * g[s]
      BY <1>2
    <2> HIDE DEF f, g
    <2>2. AbsSum(f) = k * AbsSum(g) /\ AbsOf(Sum(f)) = k * AbsOf(Sum(g))
      BY <2>1, AbsMultiple
    <2>3. QED
      BY <2>2 DEF f, g
  <1>4. AbsSum(r.n) \in Nat /\ AbsOf(Sum(r.n)) \in Nat
    BY <1>2, AbsFacts
  <1>5. ASSUME NEW x \in Int, NEW h \in Nat, k * x <= h * w.d PROVE x <= h * r.d
    <2>1. h * w.d = k * (h * r.d) /\ h * r.d \in Int
      BY <1>2
    <2>2. QED
      BY <1>5, <2>1, Cancel
  <1>6. ASSUME Inside(w, lo, hi) PROVE Inside(r, lo, hi)
    <2> SUFFICES ASSUME NEW s \in S
                 PROVE  r.n[s] <= hi[s] * r.d /\ -r.n[s] <= lo[s] * r.d
      BY <1>2 DEF Inside
    <2>1. w.n[s] <= hi[s] * w.d /\ -w.n[s] <= lo[s] * w.d
      BY <1>2, <1>6 DEF Inside
    <2>2. r.n[s] \in Int /\ w.n[s] = k * r.n[s] /\ -w.n[s] = k * (-r.n[s])
      BY <1>2
    <2>3. hi[s] \in Nat /\ lo[s] \in Nat
      OBVIOUS
    <2>4. r.n[s] <= hi[s] * r.d
      BY <1>5, <2>1, <2>2, <2>3
    <2>5. -r.n[s] <= lo[s] * r.d
      <3>1. -r.n[s] \in Int
        BY <2>2
      <3>2. QED
        BY <1>5, <2>1, <2>2, <2>3, <3>1
    <2>6. QED
      BY <2>4, <2>5
  <1>7. ASSUME GrossBy(w, halves) PROVE GrossBy(r, halves)
    <2>1. k * (2 * AbsSum(r.n)) = 2 * (k * AbsSum(r.n))
      BY <1>4
    <2>2. k * (2 * AbsSum(r.n)) <= halves * w.d
      BY <1>3, <1>7, <2>1 DEF GrossBy
    <2>3. QED
      BY <1>4, <1>5, <2>2 DEF GrossBy
  <1>8. ASSUME NetBy(w, net) PROVE NetBy(r, net)
    BY <1>3, <1>4, <1>5, <1>8 DEF NetBy
  <1>9. QED
    BY <1>1, <1>6, <1>7, <1>8 DEF r

\* So does a list that is scaled down
LEMMA ScaledInside ==
  ASSUME NEW S, IsFiniteSet(S), NEW w \in ListOver(S), NEW of \in Nat \ {0}, NEW to \in Nat,
         to * w.d <= of,
         NEW lo \in [S -> Nat], NEW hi \in [S -> Nat], NEW halves \in Nat
  PROVE  /\ ScaledTo(w, of, to) \in ListOver(S)
         /\ Inside(w, lo, hi) => Inside(ScaledTo(w, of, to), lo, hi)
         /\ GrossBy(w, halves) => GrossBy(ScaledTo(w, of, to), halves)
  <1> DEFINE v == ScaledTo(w, of, to)
  <1>1. /\ v \in ListOver(S) /\ v.d = of /\ \A s \in S : v.n[s] = w.n[s] * to
        /\ AbsSum(v.n) = to * AbsSum(w.n)
    BY ScaledFacts
  <1> HIDE DEF v
  <1>2. /\ w.n \in [S -> Int] /\ v.n \in [S -> Int] /\ w.d \in Nat
    BY <1>1 DEF ListOver
  <1>3. AbsSum(w.n) \in Nat
    BY <1>2, AbsFacts
  <1>4. ASSUME Inside(w, lo, hi) PROVE Inside(v, lo, hi)
    <2> SUFFICES ASSUME NEW s \in S PROVE v.n[s] <= hi[s] * of /\ -v.n[s] <= lo[s] * of
      BY <1>1, <1>2 DEF Inside
    <2>1. w.n[s] <= hi[s] * w.d /\ -w.n[s] <= lo[s] * w.d
      BY <1>2, <1>4 DEF Inside
    <2>2. w.n[s] \in Int /\ -w.n[s] \in Int /\ hi[s] \in Nat /\ lo[s] \in Nat
      BY <1>2
    <2>3. to * w.n[s] <= hi[s] * of
      BY <1>2, <2>1, <2>2, ScaledBound
    <2>4. to * (-w.n[s]) <= lo[s] * of
      BY <1>2, <2>1, <2>2, ScaledBound
    <2>5. v.n[s] = to * w.n[s] /\ -v.n[s] = to * (-w.n[s])
      BY <1>1, <2>2
    <2>6. QED
      BY <2>3, <2>4, <2>5
  <1>5. ASSUME GrossBy(w, halves) PROVE GrossBy(v, halves)
    <2>1. to * (2 * AbsSum(w.n)) <= halves * of
      BY <1>2, <1>3, <1>5, ScaledBound DEF GrossBy
    <2>2. to * (2 * AbsSum(w.n)) = 2 * (to * AbsSum(w.n))
      BY <1>3
    <2>3. QED
      BY <1>1, <2>1, <2>2 DEF GrossBy
  <1>6. QED
    BY <1>1, <1>4, <1>5 DEF v

\* A list v that mixes the whole weights x and the list w
Mixture(v, x, w, a, b, S) ==
  v.d = a + b * w.d /\ \A s \in S : v.n[s] = a * x[s] + b * w.n[s]

\* So does a mixture with whole weights that respect the bounds themselves
LEMMA MixedInside ==
  ASSUME NEW S, IsFiniteSet(S), NEW w \in ListOver(S), NEW v \in ListOver(S),
         NEW x \in [S -> Int], NEW a \in Nat, NEW b \in Nat,
         Mixture(v, x, w, a, b, S),
         NEW lo \in [S -> Nat], NEW hi \in [S -> Nat], NEW halves \in Nat
  PROVE  /\ Inside(w, lo, hi) /\ (\A s \in S : x[s] <= hi[s] /\ -x[s] <= lo[s])
              => Inside(v, lo, hi)
         /\ GrossBy(w, halves) /\ 2 * AbsSum(x) <= halves => GrossBy(v, halves)
  <1>1. /\ w.n \in [S -> Int] /\ v.n \in [S -> Int] /\ w.d \in Nat
        /\ v.d = a + b * w.d /\ \A s \in S : v.n[s] = a * x[s] + b * w.n[s]
    BY DEF ListOver, Mixture
  <1>2. ASSUME Inside(w, lo, hi), \A s \in S : x[s] <= hi[s] /\ -x[s] <= lo[s]
        PROVE  Inside(v, lo, hi)
    <2> SUFFICES ASSUME NEW s \in S PROVE v.n[s] <= hi[s] * v.d /\ -v.n[s] <= lo[s] * v.d
      BY <1>1 DEF Inside
    <2>1. w.n[s] <= hi[s] * w.d /\ -w.n[s] <= lo[s] * w.d
      BY <1>1, <1>2 DEF Inside
    <2>2. /\ w.n[s] \in Int /\ -w.n[s] \in Int /\ hi[s] \in Nat /\ lo[s] \in Nat
          /\ x[s] \in Int /\ -x[s] \in Int /\ v.n[s] \in Int /\ -v.n[s] \in Int
      BY <1>1
    <2>3. v.n[s] <= a * x[s] + b * w.n[s] /\ -v.n[s] <= a * (-x[s]) + b * (-w.n[s])
      <3>1. a * (-x[s]) = -(a * x[s]) /\ b * (-w.n[s]) = -(b * w.n[s])
        BY <2>2
      <3>2. a * x[s] \in Int /\ b * w.n[s] \in Int /\ v.n[s] = a * x[s] + b * w.n[s]
        BY <1>1, <2>2
      <3>3. QED
        BY <3>1, <3>2
    <2>4. v.n[s] <= hi[s] * (a + b * w.d)
      BY <1>1, <1>2, <2>1, <2>2, <2>3, MixedBound
    <2>5. -v.n[s] <= lo[s] * (a + b * w.d)
      BY <1>1, <1>2, <2>1, <2>2, <2>3, MixedBound
    <2>6. QED
      BY <1>1, <2>4, <2>5
  <1>3. ASSUME GrossBy(w, halves), 2 * AbsSum(x) <= halves PROVE GrossBy(v, halves)
    <2>1. AbsSum(v.n) <= a * AbsSum(x) + b * AbsSum(w.n)
      <3> DEFINE g == w.n
                 h == v.n
      <3>1. g \in [S -> Int] /\ h \in [S -> Int] /\ \A s \in S : h[s] = a * x[s] + b * g[s]
        BY <1>1
      <3> HIDE DEF g, h
      <3>2. AbsSum(h) <= a * AbsSum(x) + b * AbsSum(g)
        BY <3>1, MixFacts
      <3>3. QED
        BY <3>2 DEF g, h
    <2>2. AbsSum(v.n) \in Nat /\ AbsSum(w.n) \in Nat /\ AbsSum(x) \in Nat
      <3>1. AbsSum(v.n) \in Nat
        BY <1>1, AbsFacts
      <3>2. AbsSum(w.n) \in Nat
        BY <1>1, AbsFacts
      <3>3. AbsSum(x) \in Nat
        BY AbsFacts
      <3>4. QED
        BY <3>1, <3>2, <3>3
    <2>3. 2 * AbsSum(v.n) <= a * (2 * AbsSum(x)) + b * (2 * AbsSum(w.n))
      <3>1. /\ a * (2 * AbsSum(x)) = 2 * (a * AbsSum(x)) /\ a * AbsSum(x) \in Int
            /\ b * (2 * AbsSum(w.n)) = 2 * (b * AbsSum(w.n)) /\ b * AbsSum(w.n) \in Int
        BY <2>2
      <3>2. QED
        BY <2>1, <2>2, <3>1
    <2>4. 2 * AbsSum(v.n) <= halves * (a + b * w.d)
      <3> DEFINE p == 2 * AbsSum(x)
                 q == 2 * AbsSum(w.n)
                 m == 2 * AbsSum(v.n)
      <3>1. /\ p \in Int /\ q \in Int /\ m \in Int /\ p <= halves /\ q <= halves * w.d
            /\ m <= a * p + b * q
        BY <1>3, <2>2, <2>3 DEF GrossBy
      <3> HIDE DEF p, q, m
      <3>2. m <= halves * (a + b * w.d)
        BY <1>1, <3>1, MixedBound
      <3>3. QED
        BY <3>2 DEF m
    <2>5. QED
      BY <1>1, <2>4 DEF GrossBy
  <1>4. QED
    BY <1>2, <1>3
-----------------------------------------------------------------------------
(* The steps of Layer 2 *)

\* Clipping keeps bounds, and makes those that are no lower than the cap.
LEMMA ClipInside ==
  ASSUME NEW S, NEW w \in ListOver(S), NEW cap \in [S -> Nat],
         NEW lo \in [S -> Nat], NEW hi \in [S -> Nat],
         \A s \in S : \/ w.n[s] <= hi[s] * w.d /\ -w.n[s] <= lo[s] * w.d
                      \/ cap[s] <= hi[s] /\ cap[s] <= lo[s]
  PROVE  Inside(ClipEach(w, cap), lo, hi)
  <1>1. w.n \in [S -> Int] /\ w.d \in Nat \ {0} /\ w = [n |-> w.n, d |-> w.d]
    BY DEF ListOver
  <1> DEFINE m == [s \in S |-> Clip(w.n[s], cap[s] * w.d)]
  <1>2. ClipEach(w, cap) = [n |-> m, d |-> w.d]
    BY <1>1 DEF ClipEach
  <1> SUFFICES ASSUME NEW s \in S PROVE m[s] <= hi[s] * w.d /\ -m[s] <= lo[s] * w.d
    BY <1>2 DEF Inside
  <1> DEFINE c == cap[s] * w.d
             x == w.n[s]
             h == hi[s] * w.d
             l == lo[s] * w.d
  <1>3. x \in Int /\ c \in Nat /\ h \in Nat /\ l \in Nat
    BY <1>1
  <1>4. (x <= h /\ -x <= l) \/ (c <= h /\ c <= l)
    <2>1. cap[s] <= hi[s] => c <= h
      BY <1>1
    <2>2. cap[s] <= lo[s] => c <= l
      BY <1>1
    <2>3. QED
      BY <2>1, <2>2
  <1>5. m[s] = Clip(x, c)
    OBVIOUS
  <1> HIDE DEF c, x, h, l, m
  <1>6. m[s] <= h /\ -m[s] <= l
    BY <1>3, <1>4, <1>5 DEF Clip
  <1>7. QED
    BY <1>6 DEF h, l

\* Dropping symbols keeps the bounds.
LEMMA WithoutInside ==
  ASSUME NEW S, IsFiniteSet(S), NEW w \in ListOver(S), NEW D,
         NEW lo \in [S -> Nat], NEW hi \in [S -> Nat], NEW halves \in Nat
  PROVE  /\ Without(w, D) \in ListOver(S) /\ Without(w, D).d = w.d
         /\ \A s \in S : Without(w, D).n[s] = IF s \in D THEN 0 ELSE w.n[s]
         /\ Inside(w, lo, hi) => Inside(Without(w, D), lo, hi)
         /\ GrossBy(w, halves) => GrossBy(Without(w, D), halves)
  <1>1. w.n \in [S -> Int] /\ w.d \in Nat \ {0} /\ w = [n |-> w.n, d |-> w.d]
    BY DEF ListOver
  <1> DEFINE m == [s \in S |-> IF s \in D THEN 0 ELSE w.n[s]]
             v == Without(w, D)
  <1>2. v = [n |-> m, d |-> w.d]
    BY <1>1 DEF Without
  <1>3. m \in [S -> Int] /\ \A s \in S : m[s] = IF s \in D THEN 0 ELSE w.n[s]
    BY <1>1
  <1> HIDE DEF m
  <1>4. v \in ListOver(S) /\ v.d = w.d /\ v.n = m
    BY <1>1, <1>2, <1>3 DEF ListOver
  <1> HIDE DEF v
  <1>5. ASSUME Inside(w, lo, hi) PROVE Inside(v, lo, hi)
    <2> SUFFICES ASSUME NEW s \in S PROVE m[s] <= hi[s] * w.d /\ -m[s] <= lo[s] * w.d
      BY <1>3, <1>4 DEF Inside
    <2>1. w.n[s] <= hi[s] * w.d /\ -w.n[s] <= lo[s] * w.d
      BY <1>1, <1>5 DEF Inside
    <2>2. 0 <= hi[s] * w.d /\ 0 <= lo[s] * w.d
      BY <1>1
    <2>3. QED
      BY <1>3, <2>1, <2>2
  <1>6. AbsSum(m) <= AbsSum(w.n)
    <2> DEFINE f == [s \in S |-> AbsOf(m[s])]
               g == [s \in S |-> AbsOf(w.n[s])]
    <2>1. f \in [S -> Int] /\ g \in [S -> Int] /\ \A s \in S : f[s] <= g[s]
      BY <1>1, <1>3 DEF AbsOf
    <2>2. AbsSum(m) = Sum(f) /\ AbsSum(w.n) = Sum(g)
      BY <1>1, <1>3 DEF AbsSum
    <2> HIDE DEF f, g
    <2>3. QED
      BY <2>1, <2>2, SumMonotone
  <1>7. GrossBy(w, halves) => GrossBy(v, halves)
    <2>1. AbsSum(m) \in Nat
      BY <1>3, AbsFacts
    <2>2. AbsSum(w.n) \in Nat
      BY <1>1, AbsFacts
    <2>3. halves * w.d \in Nat
      BY <1>1
    <2>4. QED
      BY <1>4, <1>6, <2>1, <2>2, <2>3 DEF GrossBy
  <1>8. QED
    BY <1>3, <1>4, <1>5, <1>7 DEF v

\* The lists of Layer 2 are lists over the traded symbols.
LEMMA ListsOver == Lists = ListOver(Traded)
  BY DEF Lists, ListOver

\* There are finitely many traded symbols, and at least one.
LEMMA TradedFinite == IsFiniteSet(Traded) /\ Traded # {}
  BY TargetAssumption DEF TargetAssumption

\* scale_gross brings the gross exposure within its limit.
LEMMA ScaleGrossFacts ==
  ASSUME NEW w \in ListOver(Traded), NEW halves \in Nat,
         NEW lo \in [Traded -> Nat], NEW hi \in [Traded -> Nat]
  PROVE  /\ ScaleGross(halves)[w] \in ListOver(Traded)
         /\ GrossBy(ScaleGross(halves)[w], halves)
         /\ Inside(w, lo, hi) => Inside(ScaleGross(halves)[w], lo, hi)
  <1> DEFINE gross == AbsSum(w.n)
             v == ScaledTo(w, 2 * gross, halves)
             r == ScaleGross(halves)[w]
  <1>1. w.n \in [Traded -> Int] /\ w.d \in Nat \ {0}
    BY DEF ListOver
  <1>2. gross \in Nat
    BY <1>1, TradedFinite, AbsFacts
  <1>3. r = IF 2 * gross <= halves * w.d THEN w ELSE Reduced(v)
    BY ListsOver DEF ScaleGross
  <1>4. CASE 2 * gross <= halves * w.d
    BY <1>3, <1>4 DEF GrossBy
  <1>5. CASE ~(2 * gross <= halves * w.d)
    <2>1. 2 * gross \in Nat \ {0} /\ halves * w.d <= 2 * gross
      <3>1. halves * w.d \in Nat
        BY <1>1
      <3>2. QED
        BY <1>2, <1>5, <3>1
    <2>2. /\ v \in ListOver(Traded)
          /\ Inside(w, lo, hi) => Inside(v, lo, hi)
      BY <2>1, TradedFinite, ScaledInside
    <2>3. GrossBy(v, halves)
      <3>1. AbsSum(v.n) = halves * gross /\ v.d = 2 * gross
        <4>1. ASSUME NEW of \in Nat \ {0}
              PROVE  AbsSum(ScaledTo(w, of, halves).n) = halves * AbsSum(w.n)
                     /\ ScaledTo(w, of, halves).d = of
          BY TradedFinite, ScaledFacts
        <4>2. QED
          BY <2>1, <4>1
      <3> HIDE DEF v, gross
      <3>2. 2 * (halves * gross) = halves * (2 * gross)
        BY <1>2
      <3>3. QED
        BY <1>2, <3>1, <3>2 DEF GrossBy
    <2> HIDE DEF v
    <2>4. PICK net \in Nat : TRUE
      OBVIOUS
    <2>5. /\ Reduced(v) \in ListOver(Traded)
          /\ Inside(v, lo, hi) => Inside(Reduced(v), lo, hi)
          /\ GrossBy(v, halves) => GrossBy(Reduced(v), halves)
      BY <2>2, <2>4, TradedFinite, ReducedInside
    <2>6. QED
      BY <1>3, <1>5, <2>2, <2>3, <2>5
  <1> HIDE DEF r
  <1>6. QED
    BY <1>4, <1>5 DEF r

\* Weights over Traded between two bounds and within a gross exposure
Bounded(w, lo, hi, halves) ==
  w \in ListOver(Traded) /\ Inside(w, lo, hi) /\ GrossBy(w, halves)

\* A list in lowest terms
LEMMA ReducedBounded ==
  ASSUME NEW lo \in [Traded -> Nat], NEW hi \in [Traded -> Nat], NEW halves \in Nat, NEW w,
         Bounded(w, lo, hi, halves)
  PROVE  Bounded(Reduced(w), lo, hi, halves)
  <1>1. PICK net \in Nat : TRUE
    OBVIOUS
  <1>2. w \in ListOver(Traded)
    BY DEF Bounded
  <1>3. /\ Reduced(w) \in ListOver(Traded)
        /\ Inside(w, lo, hi) => Inside(Reduced(w), lo, hi)
        /\ GrossBy(w, halves) => GrossBy(Reduced(w), halves)
    BY <1>1, <1>2, TradedFinite, ReducedInside
  <1>4. QED
    BY <1>3 DEF Bounded

\* apply_confidence_gating scales by at most one.
LEMMA GateBounded ==
  ASSUME NEW lo \in [Traded -> Nat], NEW hi \in [Traded -> Nat], NEW halves \in Nat,
         NEW conf \in Nat, NEW w, Bounded(w, lo, hi, halves)
  PROVE  Bounded(Gate(conf)[w], lo, hi, halves)
  <1> DEFINE of == w.d * MinConfidence
             v == ScaledTo(w, of, conf)
  <1>1. w \in ListOver(Traded) /\ w.d \in Nat \ {0} /\ MinConfidence \in Nat \ {0}
    BY TargetAssumption DEF TargetAssumption, Bounded, ListOver
  <1>2. Gate(conf)[w] = IF conf >= MinConfidence THEN w ELSE Reduced(v)
    BY <1>1, ListsOver DEF Gate, ScaledTo
  <1>3. CASE conf >= MinConfidence
    BY <1>2, <1>3
  <1>4. CASE ~(conf >= MinConfidence)
    <2>1. of \in Nat \ {0} /\ conf * w.d <= of
      <3>1. conf <= MinConfidence /\ conf \in Nat
        BY <1>1, <1>4
      <3>2. conf * w.d <= MinConfidence * w.d /\ MinConfidence * w.d = of
        BY <1>1, <3>1
      <3>3. of \in Nat \ {0}
        BY <1>1
      <3>4. QED
        BY <3>2, <3>3
    <2> HIDE DEF of
    <2>2. v \in ListOver(Traded)
          /\ (Inside(w, lo, hi) => Inside(v, lo, hi))
          /\ (GrossBy(w, halves) => GrossBy(v, halves))
      BY <1>1, <2>1, TradedFinite, ScaledInside
    <2>3. Bounded(v, lo, hi, halves)
      BY <2>2 DEF Bounded
    <2> HIDE DEF v
    <2>4. QED
      BY <1>2, <1>4, <2>3, ReducedBounded
  <1>5. QED
    BY <1>3, <1>4

\* Whole weights that respect the bounds
Within(x, lo, hi, halves) ==
  /\ x \in [Traded -> Int]
  /\ \A s \in Traded : x[s] <= hi[s] /\ -x[s] <= lo[s]
  /\ 2 * AbsSum(x) <= halves

\* A mixture of both
LEMMA MixedBounded ==
  ASSUME NEW lo \in [Traded -> Nat], NEW hi \in [Traded -> Nat], NEW halves \in Nat,
         NEW x, Within(x, lo, hi, halves), NEW w, Bounded(w, lo, hi, halves),
         NEW v \in ListOver(Traded), NEW a \in Nat, NEW b \in Nat,
         Mixture(v, x, w, a, b, Traded)
  PROVE  Bounded(v, lo, hi, halves)
  <1>1. x \in [Traded -> Int] /\ w \in ListOver(Traded)
    BY DEF Within, Bounded
  <1>2. /\ Inside(w, lo, hi) /\ (\A s \in Traded : x[s] <= hi[s] /\ -x[s] <= lo[s])
              => Inside(v, lo, hi)
        /\ GrossBy(w, halves) /\ 2 * AbsSum(x) <= halves => GrossBy(v, halves)
    BY <1>1, TradedFinite, MixedInside
  <1>3. QED
    BY <1>2 DEF Bounded, Within

\* ewma_smooth mixes with the previous target.
LEMMA SmoothBounded ==
  ASSUME NEW lo \in [Traded -> Nat], NEW hi \in [Traded -> Nat], NEW halves \in Nat,
         NEW p, Within(p, lo, hi, halves), NEW alpha \in 0 .. 100,
         NEW w, Bounded(w, lo, hi, halves)
  PROVE  Bounded(Smooth(p, alpha)[w], lo, hi, halves)
  <1> DEFINE m == [s \in Traded |-> (100 - alpha) * p[s] * w.d + alpha * w.n[s]]
             v == [n |-> m, d |-> 100 * w.d]
             a == (100 - alpha) * w.d
  <1>1. /\ w \in ListOver(Traded) /\ w.n \in [Traded -> Int] /\ w.d \in Nat \ {0}
        /\ p \in [Traded -> Int] /\ alpha \in Nat /\ 100 - alpha \in Nat
    BY DEF Bounded, ListOver, Within
  <1>2. Smooth(p, alpha)[w] = Reduced(v)
    BY <1>1, ListsOver DEF Smooth
  <1>3. a \in Nat /\ 100 * w.d = a + alpha * w.d
    <2>1. (100 - alpha) * w.d = 100 * w.d - alpha * w.d
      BY <1>1
    <2>2. a \in Nat /\ alpha * w.d \in Nat
      BY <1>1
    <2>3. QED
      BY <1>1, <2>1, <2>2
  <1>4. ASSUME NEW s \in Traded PROVE m[s] \in Int /\ m[s] = a * p[s] + alpha * w.n[s]
    <2>1. p[s] \in Int /\ w.n[s] \in Int
      BY <1>1
    <2>2. (100 - alpha) * p[s] * w.d = ((100 - alpha) * w.d) * p[s]
      BY <1>1, <2>1
    <2>3. (100 - alpha) * p[s] * w.d \in Int /\ alpha * w.n[s] \in Int
      BY <1>1, <2>1
    <2>4. m[s] = (100 - alpha) * p[s] * w.d + alpha * w.n[s]
      OBVIOUS
    <2> HIDE DEF m
    <2>5. QED
      BY <2>2, <2>3, <2>4
  <1>5. m \in [Traded -> Int]
    <2>1. m = [s \in Traded |-> m[s]]
      OBVIOUS
    <2> HIDE DEF m
    <2>2. QED
      BY <1>4, <2>1
  <1>6. 100 * w.d \in Nat \ {0}
    BY <1>1
  <1> HIDE DEF m, a
  <1>7. v \in ListOver(Traded) /\ v.n = m /\ v.d = a + alpha * w.d
    BY <1>3, <1>5, <1>6 DEF ListOver
  <1> HIDE DEF v
  <1>8. Mixture(v, p, w, a, alpha, Traded)
    BY <1>4, <1>7 DEF Mixture
  <1>10. Bounded(v, lo, hi, halves)
    BY <1>1, <1>3, <1>7, <1>8, MixedBounded
  <1>11. QED
    BY <1>2, <1>10, ReducedBounded

\* apply_turnover_cap goes part of the way from the book.
LEMMA CapTurnoverBounded ==
  ASSUME NEW lo \in [Traded -> Nat], NEW hi \in [Traded -> Nat], NEW halves \in Nat,
         NEW b, Within(b, lo, hi, halves), NEW cap \in Nat,
         NEW w, Bounded(w, lo, hi, halves)
  PROVE  Bounded(CapTurnover(b, cap)[w], lo, hi, halves)
  <1> DEFINE t == Distance(w, b, Traded)
             v == Towards(w, b, t, cap)
             a == t - cap * w.d
  <1>1. /\ w \in ListOver(Traded) /\ w.n \in [Traded -> Int] /\ w.d \in Nat \ {0}
        /\ b \in [Traded -> Int]
    BY DEF Bounded, ListOver, Within
  <1>2. t \in Nat
    BY <1>1, TradedFinite, DistanceType
  <1>3. CapTurnover(b, cap)[w] = IF cap = 0 \/ t <= cap * w.d THEN w ELSE Reduced(v)
    BY <1>1, ListsOver DEF CapTurnover
  <1> HIDE DEF t
  <1>4. CASE cap = 0 \/ t <= cap * w.d
    BY <1>3, <1>4
  <1>5. CASE ~(cap = 0 \/ t <= cap * w.d)
    <2>1. a \in Nat /\ t \in Nat \ {0} /\ t = a + cap * w.d
      <3>1. cap * w.d \in Nat
        BY <1>1
      <3>2. QED
        BY <1>2, <1>5, <3>1
    <2>2. /\ v \in ListOver(Traded) /\ v.d = t
          /\ \A s \in Traded : v.n[s] = b[s] * t + (w.n[s] - b[s] * w.d) * cap
      <3>1. Traded \subseteq Traded
        OBVIOUS
      <3>2. PartWay(v, w, b, t, cap, Traded)
        BY <1>1, <2>1, <3>1, TowardsFacts
      <3>3. QED
        BY <3>2 DEF PartWay
    <2> HIDE DEF v, a
    <2>3. ASSUME NEW s \in Traded PROVE v.n[s] = a * b[s] + cap * w.n[s]
      <3> DEFINE x == b[s]
                 m == w.n[s]
                 d == w.d
      <3>1. x \in Int /\ m \in Int /\ d \in Nat /\ v.n[s] = x * t + (m - x * d) * cap
        BY <1>1, <2>2
      <3>2. t = a + cap * d
        BY <2>1
      <3> HIDE DEF x, m, d
      <3>3. x * t = x * a + x * (cap * d) /\ (m - x * d) * cap = m * cap - (x * d) * cap
        BY <2>1, <3>1, <3>2
      <3>4. x * (cap * d) = (x * d) * cap
        BY <3>1
      <3>5. QED
        BY <2>1, <3>1, <3>3, <3>4 DEF x, m
    <2>4. Mixture(v, b, w, a, cap, Traded)
      BY <2>1, <2>2, <2>3 DEF Mixture
    <2>5. Bounded(v, lo, hi, halves)
      BY <2>1, <2>2, <2>4, MixedBounded
    <2>6. QED
      BY <1>3, <1>5, <2>5, ReducedBounded
  <1>6. QED
    BY <1>4, <1>5

\* Dropping symbols, and apply_net_direction_cap, which drops some
LEMMA WithoutBounded ==
  ASSUME NEW lo \in [Traded -> Nat], NEW hi \in [Traded -> Nat], NEW halves \in Nat,
         NEW D, NEW w, Bounded(w, lo, hi, halves)
  PROVE  Bounded(Without(w, D), lo, hi, halves)
  BY TradedFinite, WithoutInside DEF Bounded

\* The cap of the net direction keeps bounds: apply_net_direction_cap.
LEMMA CapDirectionBounded ==
  ASSUME NEW lo \in [Traded -> Nat], NEW hi \in [Traded -> Nat], NEW halves \in Nat,
         NEW mean, NEW w, Bounded(w, lo, hi, halves)
  PROVE  Bounded(CapDirection(mean)[w], lo, hi, halves)
  <1>1. w \in Lists
    BY ListsOver DEF Bounded
  <1>2. \/ CapDirection(mean)[w] = w
        \/ \E D : CapDirection(mean)[w] = Without(w, D)
    BY <1>1 DEF CapDirection
  <1>3. QED
    BY <1>2, WithoutBounded

\* apply_net_cap brings the net exposure within its limit, if there is one.
LEMMA CapNetBounded ==
  ASSUME NEW lo \in [Traded -> Nat], NEW hi \in [Traded -> Nat], NEW halves \in Nat,
         NEW cap \in Nat, NEW w, Bounded(w, lo, hi, halves)
  PROVE  /\ Bounded(CapNet(cap)[w], lo, hi, halves)
         /\ cap = 0 \/ NetBy(CapNet(cap)[w], cap)
  <1> DEFINE net == AbsOf(Sum(w.n))
             v == ScaledTo(w, net, cap)
             r == CapNet(cap)[w]
  <1>1. w \in ListOver(Traded) /\ w.n \in [Traded -> Int] /\ w.d \in Nat \ {0}
    BY DEF Bounded, ListOver
  <1>2. net \in Nat
    BY <1>1, TradedFinite, AbsFacts
  <1>3. r = IF cap = 0 \/ net <= cap * w.d THEN w ELSE Reduced(v)
    BY <1>1, ListsOver DEF CapNet
  <1>4. CASE cap = 0 \/ net <= cap * w.d
    BY <1>3, <1>4 DEF NetBy
  <1>5. CASE ~(cap = 0 \/ net <= cap * w.d)
    <2>1. net \in Nat \ {0} /\ cap * w.d <= net
      <3>1. cap * w.d \in Nat
        BY <1>1
      <3>2. QED
        BY <1>2, <1>5, <3>1
    <2>2. ASSUME NEW of \in Nat \ {0}, cap * w.d <= of
          PROVE  /\ ScaledTo(w, of, cap) \in ListOver(Traded)
                 /\ Inside(w, lo, hi) => Inside(ScaledTo(w, of, cap), lo, hi)
                 /\ GrossBy(w, halves) => GrossBy(ScaledTo(w, of, cap), halves)
                 /\ ScaledTo(w, of, cap).d = of
                 /\ AbsOf(Sum(ScaledTo(w, of, cap).n)) = cap * AbsOf(Sum(w.n))
      <3>1. /\ ScaledTo(w, of, cap) \in ListOver(Traded)
            /\ Inside(w, lo, hi) => Inside(ScaledTo(w, of, cap), lo, hi)
            /\ GrossBy(w, halves) => GrossBy(ScaledTo(w, of, cap), halves)
        BY <1>1, <2>2, TradedFinite, ScaledInside
      <3>2. /\ ScaledTo(w, of, cap).d = of
            /\ AbsOf(Sum(ScaledTo(w, of, cap).n)) = cap * AbsOf(Sum(w.n))
        BY <1>1, TradedFinite, ScaledFacts, SMTT(30)
      <3>3. QED
        BY <3>1, <3>2
    <2>3. Bounded(v, lo, hi, halves) /\ v.d = net /\ AbsOf(Sum(v.n)) = cap * net
      <3> HIDE DEF net
      <3>1. /\ v \in ListOver(Traded)
            /\ Inside(w, lo, hi) => Inside(v, lo, hi)
            /\ GrossBy(w, halves) => GrossBy(v, halves)
            /\ v.d = net /\ AbsOf(Sum(v.n)) = cap * AbsOf(Sum(w.n))
        BY <2>1, <2>2
      <3>2. QED
        BY <3>1 DEF Bounded, net
    <2> HIDE DEF v
    <2>4. NetBy(v, cap)
      <3>1. cap * net \in Int
        BY <1>2
      <3> HIDE DEF net
      <3>2. QED
        BY <2>3, <3>1 DEF NetBy
    <2>5. NetBy(Reduced(v), cap)
      <3>1. v \in ListOver(Traded)
        BY <2>3 DEF Bounded
      <3>2. NetBy(v, cap) => NetBy(Reduced(v), cap)
        BY <3>1, TradedFinite, ReducedInside
      <3>3. QED
        BY <2>4, <3>2
    <2>6. QED
      BY <1>3, <1>5, <2>3, <2>5, ReducedBounded
  <1> HIDE DEF r
  <1>6. QED
    BY <1>4, <1>5 DEF r
-----------------------------------------------------------------------------
(* The net exposure *)

\* The sum of weights that are at most c on D and nothing elsewhere
LEMMA SumCount ==
  ASSUME NEW S, IsFiniteSet(S), NEW D \in SUBSET S, NEW f \in [S -> Int], NEW c \in Nat,
         \A s \in S : f[s] <= IF s \in D THEN c ELSE 0
  PROVE  Sum(f) <= c * Cardinality(D)
  <1>1. PICK F : IsSum(F, S, f) /\ Sum(f) = F[S]
    BY SumFold
  <1>2. ASSUME NEW t \in SUBSET S PROVE Cardinality(D \cap t) \in Nat
    BY FS_Subset, FS_CardinalityType
  <1> DEFINE P == {t \in SUBSET S : F[t] <= c * Cardinality(D \cap t)}
  <1>3. {} \in P
    <2>1. F[{}] = 0
      BY <1>1 DEF IsSum
    <2>2. 0 <= c * Cardinality(D \cap {})
      BY <1>2
    <2>3. QED
      BY <2>1, <2>2
  <1>4. ASSUME NEW t \in SUBSET S, t # {}, t \ {First(t)} \in P PROVE t \in P
    <2> DEFINE e == First(t)
               u == t \ {e}
               m == Cardinality(D \cap u)
               n == Cardinality(D \cap t)
    <2>1. e \in t /\ e \in S /\ u \in SUBSET S
      BY <1>4, FirstIn
    <2>2. F[t] = f[e] + F[u] /\ F[u] \in Int /\ f[e] \in Int
      BY <1>1, <1>4, <2>1 DEF IsSum
    <2>3. F[u] <= c * m
      BY <1>4
    <2>4. m \in Nat /\ n \in Nat
      BY <1>2, <2>1
    <2>5. n = IF e \in D THEN m + 1 ELSE m
      <3>1. IsFiniteSet(D \cap u) /\ e \notin D \cap u
        BY FS_Subset
      <3>2. D \cap t = IF e \in D THEN (D \cap u) \cup {e} ELSE D \cap u
        BY <2>1
      <3>3. Cardinality((D \cap u) \cup {e}) = Cardinality(D \cap u) + 1
        BY <3>1, FS_AddElement
      <3>4. QED
        BY <3>2, <3>3
    <2>6. f[e] <= IF e \in D THEN c ELSE 0
      BY <2>1
    <2> HIDE DEF e, u, m, n
    <2>7. c * (m + 1) = c * m + c /\ c * m \in Int
      BY <2>4
    <2>8. F[t] <= c * n
      BY <2>2, <2>3, <2>5, <2>6, <2>7
    <2>9. QED
      BY <2>8 DEF n
  <1>5. SUBSET S \subseteq P
    <2> HIDE DEF P
    <2> QED
      BY <1>3, <1>4, FoldInduction
  <1>6. F[S] <= c * Cardinality(D \cap S) /\ D \cap S = D
    BY <1>5
  <1>7. QED
    BY <1>1, <1>6

\* The net exposure of a list beyond a cap, in thirds of the floor that makes a
\* weight dust
Beyond(w, net, dusts) == 3 * (AbsOf(Sum(w.n)) - net * w.d) <= dusts * (Floor * w.d)

\* Dropping dust moves the net exposure by less than a third of the floor for
\* each symbol: apply_min_notional.
LEMMA DustNet ==
  ASSUME NEW w \in ListOver(Traded), NEW net \in Nat, NEW lev \in Nat, lev >= 3,
         NetBy(w, net)
  PROVE  Beyond(Reduced(Without(w, Dust(w, lev))), net, Cardinality(Dust(w, lev)))
  <1> DEFINE D == Dust(w, lev)
             C == Cardinality(D)
             v == Without(w, D)
             r == Reduced(v)
             n == w.n
             d == w.d
             x == [s \in Traded |-> IF s \in D THEN n[s] ELSE 0]
  <1>1. /\ n \in [Traded -> Int] /\ d \in Nat \ {0} /\ Floor \in Nat
        /\ DOMAIN w.n = Traded
    BY TargetAssumption DEF TargetAssumption, ListOver
  <1>2. /\ D \in SUBSET Traded
        /\ \A s \in D : AbsOf(n[s]) * lev < Floor * d
    BY <1>1 DEF Dust
  <1>3. C \in Nat
    BY <1>2, TradedFinite, FS_Subset, FS_CardinalityType
  <1> HIDE DEF D, n, d
  <1>4. /\ v \in ListOver(Traded) /\ v.d = d
        /\ \A s \in Traded : v.n[s] = IF s \in D THEN 0 ELSE n[s]
    <2>1. PICK lo \in [Traded -> Nat], hi \in [Traded -> Nat], halves \in Nat : TRUE
      <3>1. [s \in Traded |-> 0] \in [Traded -> Nat]
        OBVIOUS
      <3>2. QED
        BY <3>1
    <2>2. /\ Without(w, D) \in ListOver(Traded) /\ Without(w, D).d = w.d
          /\ \A s \in Traded : Without(w, D).n[s] = IF s \in D THEN 0 ELSE w.n[s]
      BY <2>1, TradedFinite, WithoutInside
    <2>3. QED
      BY <2>2 DEF n, d
  <1> HIDE DEF v
  <1>5. x \in [Traded -> Int] /\ \A s \in Traded : x[s] = IF s \in D THEN n[s] ELSE 0
    BY <1>1
  <1> HIDE DEF x
  <1>6. v.n \in [Traded -> Int]
    BY <1>4 DEF ListOver
  <1>7. Sum(n) = Sum(v.n) + Sum(x) /\ Sum(n) \in Int /\ Sum(x) \in Int /\ Sum(v.n) \in Int
    <2> DEFINE m == v.n
    <2>1. m \in [Traded -> Int] /\ n = [s \in Traded |-> 1 * m[s] + 1 * x[s]]
      BY <1>1, <1>4, <1>5, <1>6
    <2> HIDE DEF m
    <2>2. Sum(n) = 1 * Sum(m) + 1 * Sum(x)
      BY <1>5, <2>1, TradedFinite, SumLinear
    <2>3. Sum(n) \in Int /\ Sum(x) \in Int /\ Sum(m) \in Int
      BY <1>1, <1>5, <2>1, TradedFinite, SumType
    <2>4. QED
      BY <2>2, <2>3 DEF m
  <1>8. 3 * AbsOf(Sum(x)) <= (Floor * d) * C
    <2> DEFINE f == [s \in Traded |-> AbsOf(x[s])]
               g == [s \in Traded |-> 3 * f[s]]
               F == Floor * d
    <2>1. F \in Nat
      BY <1>1
    <2>2. f \in [Traded -> Int] /\ AbsSum(x) = Sum(f) /\ AbsOf(Sum(x)) <= AbsSum(x)
      BY <1>5, TradedFinite, AbsFacts
    <2>3. g \in [Traded -> Int] /\ \A s \in Traded : g[s] = 3 * f[s]
      BY <2>2
    <2>4. ASSUME NEW s \in Traded PROVE g[s] <= IF s \in D THEN F ELSE 0
      <3>1. CASE s \in D
        <4> DEFINE y == AbsOf(n[s])
        <4>1. y \in Nat /\ y * lev < F
          BY <1>1, <1>2, <3>1 DEF AbsOf
        <4>2. g[s] = 3 * y
          BY <1>5, <3>1
        <4> HIDE DEF y, g, F
        <4>3. 3 * y <= y * lev
          BY <4>1
        <4>4. y * lev \in Int
          BY <4>1
        <4>5. QED
          BY <2>1, <3>1, <4>1, <4>2, <4>3, <4>4
      <3>2. CASE s \notin D
        BY <1>5, <3>2 DEF AbsOf
      <3>3. QED
        BY <3>1, <3>2
    <2> HIDE DEF f, g, F
    <2>5. Sum(g) = 3 * Sum(f)
      BY <2>2, <2>3, TradedFinite, SumMultiple
    <2>6. Sum(g) <= F * C
      BY <1>2, <2>1, <2>3, <2>4, TradedFinite, SumCount
    <2>7. Sum(f) \in Int /\ F * C \in Int
      BY <1>3, <2>1, <2>2, TradedFinite, SumType
    <2>8. AbsOf(Sum(x)) \in Int
      BY <1>7 DEF AbsOf
    <2>9. 3 * AbsOf(Sum(x)) <= F * C
      BY <2>2, <2>5, <2>6, <2>7, <2>8
    <2>10. QED
      BY <2>9 DEF F
  <1>9. 3 * (AbsOf(Sum(v.n)) - net * d) <= C * (Floor * d)
    <2>1. AbsOf(Sum(n)) <= net * d
      BY DEF NetBy, n, d
    <2>2. AbsOf(Sum(v.n)) <= AbsOf(Sum(n)) + AbsOf(Sum(x))
      BY <1>7 DEF AbsOf
    <2>3. AbsOf(Sum(v.n)) \in Int /\ AbsOf(Sum(n)) \in Int /\ AbsOf(Sum(x)) \in Int
      BY <1>7 DEF AbsOf
    <2>4. net * d \in Int /\ (Floor * d) * C = C * (Floor * d) /\ C * (Floor * d) \in Int
      BY <1>1, <1>3
    <2>5. QED
      BY <1>8, <2>1, <2>2, <2>3, <2>4
  <1>10. PICK k \in Nat \ {0} : Finer(v, r, Traded, k) /\ r \in ListOver(Traded)
    <2>1. r \in ListOver(Traded) /\ \E k \in Nat \ {0} : Finer(v, r, Traded, k)
      BY <1>4, TradedFinite, ReducedKeeps
    <2>2. QED
      BY <2>1
  <1> HIDE DEF r
  <1>11. r.n \in [Traded -> Int] /\ r.d \in Nat /\ d = k * r.d /\ \A s \in Traded : v.n[s] = k * r.n[s]
    BY <1>4, <1>10 DEF Finer, ListOver
  <1>12. AbsOf(Sum(v.n)) = k * AbsOf(Sum(r.n)) /\ AbsOf(Sum(r.n)) \in Nat
    <2> DEFINE f == v.n
               g == r.n
    <2>1. f \in [Traded -> Int] /\ g \in [Traded -> Int] /\ \A s \in Traded : f[s] = k * g[s]
      BY <1>6, <1>11
    <2> HIDE DEF f, g
    <2>2. AbsOf(Sum(f)) = k * AbsOf(Sum(g))
      BY <2>1, TradedFinite, AbsMultiple
    <2>3. AbsOf(Sum(g)) \in Nat
      BY <2>1, TradedFinite, AbsFacts
    <2>4. QED
      BY <2>2, <2>3 DEF f, g
  <1>13. 3 * (AbsOf(Sum(r.n)) - net * r.d) <= C * (Floor * r.d)
    <2> DEFINE X == AbsOf(Sum(r.n))
               e == r.d
    <2>1. X \in Nat /\ e \in Nat
      BY <1>11, <1>12
    <2>2. 3 * (k * X - net * (k * e)) <= C * (Floor * (k * e))
      BY <1>9, <1>11, <1>12
    <2> HIDE DEF X, e
    <2>3. /\ k * X - net * (k * e) = k * (X - net * e)
          /\ 3 * (k * (X - net * e)) = k * (3 * (X - net * e))
          /\ C * (Floor * (k * e)) = k * (C * (Floor * e))
      <3>1. k * (X - net * e) = k * X - k * (net * e) /\ k * (net * e) = net * (k * e)
        BY <2>1
      <3>2. X - net * e \in Int
        BY <2>1
      <3>3. 3 * (k * (X - net * e)) = k * (3 * (X - net * e))
        BY <3>2
      <3>4. Floor * (k * e) = k * (Floor * e) /\ Floor * e \in Int
        BY <1>1, <2>1
      <3>5. C * (k * (Floor * e)) = k * (C * (Floor * e))
        BY <1>3, <3>4
      <3>6. QED
        BY <3>1, <3>3, <3>4, <3>5
    <2>4. 3 * (X - net * e) \in Int /\ C * (Floor * e) \in Int
      BY <1>1, <1>3, <2>1
    <2>5. k * (3 * (X - net * e)) <= k * (C * (Floor * e))
      BY <2>2, <2>3
    <2>6. 3 * (X - net * e) <= C * (Floor * e)
      BY <2>4, <2>5, Cancel
    <2>7. QED
      BY <2>6 DEF X, e
  <1>14. QED
    BY <1>13 DEF Beyond, r, v, D

\* Least and greatest members
LEMMA LeastExists ==
  ASSUME NEW T \in SUBSET Nat, T # {}
  PROVE  \E c \in T : \A x \in T : c <= x
  <1>1. PICK c \in T : \A x \in T : ~(<<x, c>> \in OpToRel(<, Nat))
    BY WFMin, NatLessThanWellFounded, Zenon
  <1>2. ASSUME NEW x \in T PROVE c <= x
    <2>1. x \in Nat /\ c \in Nat
      OBVIOUS
    <2>2. ~(x < c)
      BY <1>1, <2>1 DEF OpToRel
    <2>3. QED
      BY <2>1, <2>2
  <1>3. QED
    BY <1>2

\* A finite set of numbers has a greatest one.
LEMMA GreatestExists ==
  ASSUME NEW h \in Nat, NEW T \in SUBSET (0 .. h), T # {}
  PROVE  \E c \in T : \A x \in T : c >= x
  <1> DEFINE U == {h - x : x \in T}
  <1>1. U \in SUBSET Nat /\ U # {}
    <2>1. \A x \in T : h - x \in Nat
      OBVIOUS
    <2>2. QED
      BY <2>1
  <1>2. PICK u \in U : \A x \in U : u <= x
    <2> HIDE DEF U
    <2> QED
      BY <1>1, LeastExists
  <1>3. PICK c \in T : u = h - c
    BY <1>2
  <1>4. \A x \in T : c >= x
    <2> SUFFICES ASSUME NEW x \in T PROVE c >= x
      OBVIOUS
    <2>1. h - x \in U
      OBVIOUS
    <2>2. h - c <= h - x
      BY <1>2, <1>3, <2>1
    <2>3. QED
      BY <2>2
  <1>5. QED
    BY <1>4

-----------------------------------------------------------------------------
(* Signals are lists over Traded with a confidence *)

\* compute_quant_bias for one symbol
LEMMA SymbolBiasType ==
  ASSUME NEW b \in SymbolBlocks
  PROVE  SymbolBias(b) \in [dir : {-1, 0, 1}, conf : 0 .. 82, scale : 0 .. 2]
  <1> DEFINE c == Composite(b)
             q == (AbsOf(c) * 35) \div (100 * TotalWeight)
  <1>1. TotalWeight \in Nat \ {0}
    BY BiasAssumption DEF BiasAssumption, TotalWeight
  <1>2. c \in Int
    <2> DEFINE x == Clip((b.support - 100) \div 2, 100)
               y == Clip(b.mom, 100)
               z == Clip(b.macd, 100)
    <2>1. x \in Int /\ y \in Int /\ z \in Int
      BY DEF SymbolBlocks, Clip
    <2>2. FactorWeights.mom \in Nat /\ FactorWeights.support \in Nat /\ FactorWeights.macd \in Nat
      BY BiasAssumption DEF BiasAssumption
    <2>3. c = IF ~b.known THEN 0
              ELSE FactorWeights.support * x - FactorWeights.mom * y - FactorWeights.macd * z
      BY DEF Composite
    <2> HIDE DEF c, x, y, z
    <2>4. FactorWeights.support * x \in Int /\ FactorWeights.mom * y \in Int
          /\ FactorWeights.macd * z \in Int
      BY <2>1, <2>2
    <2>5. QED
      BY <2>3, <2>4
  <1>3. q \in Nat
    <2> DEFINE t == 100 * TotalWeight
               a == AbsOf(c) * 35
    <2>1. t \in Nat \ {0} /\ a \in Nat
      BY <1>1, <1>2 DEF AbsOf
    <2> HIDE DEF t, a
    <2>2. a \div t \in Nat
      BY <2>1
    <2>3. QED
      BY <2>2 DEF t, a
  <1> HIDE DEF c, q
  <1>4. SymbolBias(b) = IF Volatile(b) \/ AbsOf(c) < ThresholdHalf * TotalWeight
                        THEN [dir |-> 0, conf |-> 40, scale |-> 0]
                        ELSE [dir |-> IF c > 0 THEN 1 ELSE -1,
                              conf |-> IF 50 + q > 82 THEN 82 ELSE 50 + q,
                              scale |-> IF AbsOf(c) >= ThresholdFull * TotalWeight THEN 2 ELSE 1]
    BY DEF SymbolBias, c, q
  <1>5. (IF 50 + q > 82 THEN 82 ELSE 50 + q) \in 0 .. 82
    BY <1>3
  <1>6. QED
    BY <1>4, <1>5

\* What a signal engine of Layer 2 yields
Signals == [w : ListOver(Traded), state : {"VOLATILE", "TRENDING", "SIDEWAYS"}, conf : Nat]

\* A signal from its parts
LEMMA SignalOf ==
  ASSUME NEW w \in ListOver(Traded), NEW state \in {"VOLATILE", "TRENDING", "SIDEWAYS"},
         NEW conf \in Nat
  PROVE  [w |-> w, state |-> state, conf |-> conf] \in Signals
  BY DEF Signals

\* The flat list
LEMMA FlatList == Flat(Traded) \in ListOver(Traded)
  BY DEF Flat, Whole, ListOver

\* Layer 1 and apply_direction_confirmation, apply_funding_overlay
LEMMA BiasedSignal ==
  ASSUME NEW m \in Features
  PROVE  Signal(m, TRUE) \in Signals
  <1> DEFINE bias == DirectionBias(Blocks(m))
             confs == {bias.of[s].conf : s \in {r \in Traded : bias.of[r].dir # 0}}
             w == Confirmed(m, bias)
             conf == IF confs = {} THEN 0 ELSE CHOOSE c \in confs : \A x \in confs : c >= x
  <1>1. DOMAIN m = Traded /\ \A s \in Traded : m[s] \in SymbolFeatures
    BY TargetAssumption DEF TargetAssumption
  <1>2. \A s \in Traded : m[s].block \in SymbolBlocks /\ m[s].funding \in Int
    BY <1>1 DEF SymbolFeatures
  <1>3. Signal(m, TRUE) = [w |-> FundingOverlay(m, w), state |-> bias.state, conf |-> conf]
    BY DEF Signal
  <1>4. bias.of \in [Traded -> [dir : {-1, 0, 1}, conf : 0 .. 82, scale : 0 .. 2]]
    BY <1>2, SymbolBiasType DEF DirectionBias, Blocks
  <1>5. bias.state \in {"VOLATILE", "TRENDING", "SIDEWAYS"}
    BY DEF DirectionBias, MarketState
  <1> HIDE DEF bias
  <1>6. w \in ListOver(Traded)
    <2> DEFINE n == [s \in Traded |->
                       IF bias.state # "SIDEWAYS" /\ Confirmations(m[s], bias.of[s].dir) >= 2
                       THEN bias.of[s].dir * AICap[s] * bias.of[s].conf * bias.of[s].scale ELSE 0]
    <2>1. w = [n |-> n, d |-> 200]
      BY DEF Confirmed
    <2>2. ASSUME NEW s \in Traded PROVE n[s] \in Int
      <3> DEFINE x == bias.of[s].dir
                 y == AICap[s]
                 z == bias.of[s].conf
                 v == bias.of[s].scale
      <3>1. x \in Int /\ y \in Int /\ z \in Int /\ v \in Int
        BY <1>4, TargetAssumption DEF TargetAssumption
      <3>2. n[s] = x * y * z * v \/ n[s] = 0
        OBVIOUS
      <3> HIDE DEF x, y, z, v, n
      <3>3. x * y * z * v \in Int
        <4>1. x * y \in Int
          BY <3>1
        <4>2. (x * y) * z \in Int
          BY <3>1, <4>1
        <4>3. QED
          BY <3>1, <4>2
      <3>4. QED
        BY <3>2, <3>3
    <2>3. n \in [Traded -> Int]
      <3>1. n = [s \in Traded |-> n[s]]
        OBVIOUS
      <3> HIDE DEF n
      <3>2. QED
        BY <2>2, <3>1
    <2> HIDE DEF n
    <2>4. QED
      BY <2>1, <2>3 DEF ListOver
  <1> HIDE DEF w
  <1>7. FundingOverlay(m, w) \in ListOver(Traded)
    <2>1. w.n \in [Traded -> Int] /\ w.d \in Nat \ {0}
      BY <1>6 DEF ListOver
    <2> DEFINE n == [s \in Traded |->
                       IF AbsOf(m[s].funding) > 50 /\ m[s].funding * w.n[s] > 0
                       THEN w.n[s] ELSE 2 * w.n[s]]
    <2>2. FundingOverlay(m, w) = [n |-> n, d |-> 2 * w.d]
      BY <2>1 DEF FundingOverlay
    <2>3. n \in [Traded -> Int]
      BY <2>1
    <2> HIDE DEF n
    <2>4. QED
      BY <2>1, <2>2, <2>3 DEF ListOver
  <1>8. conf \in Nat
    <2>1. confs \subseteq 0 .. 82
      BY <1>4
    <2> HIDE DEF confs
    <2>2. CASE confs = {}
      BY <2>2
    <2>3. CASE confs # {}
      <3>1. 82 \in Nat
        OBVIOUS
      <3>2. \E c \in confs : \A x \in confs : c >= x
        BY <2>1, <2>3, <3>1, GreatestExists
      <3>3. conf \in confs
        BY <2>3, <3>2
      <3> HIDE DEF conf
      <3>4. QED
        BY <2>1, <3>3
    <2>4. QED
      BY <2>2, <2>3
  <1> HIDE DEF conf
  <1>9. QED
    BY <1>3, <1>5, <1>7, <1>8, SignalOf

\* build_baseline_weights and confidence_from_signals
LEMMA BaselineSignal ==
  ASSUME NEW m \in Features
  PROVE  Signal(m, FALSE) \in Signals
  <1> DEFINE f == [s \in Traded |-> m[s].signal]
             total == Sum(f)
  <1>1. DOMAIN m = Traded /\ \A s \in Traded : m[s] \in SymbolFeatures
    BY TargetAssumption DEF TargetAssumption
  <1>2. f \in [Traded -> Int] /\ \A s \in Traded : f[s] >= 0
    BY <1>1 DEF SymbolFeatures
  <1>3. Signal(m, FALSE) = [w |-> Baseline(m), state |-> "TRENDING", conf |-> BaselineConfidence(m)]
    BY DEF Signal
  <1>4. /\ Baseline(m) = IF total = 0 THEN Flat(Traded) ELSE ScaledTo(Whole(f), total, Gross["base"])
        /\ BaselineConfidence(m)
             = (50 * Cardinality({s \in Traded : m[s].signal > 0})) \div Cardinality(Traded)
                 + (50 * total) \div (total + 1)
    BY DEF Baseline, BaselineConfidence
  <1> HIDE DEF f
  <1>5. total \in Nat
    <2>1. AbsSum(f) = Sum([s \in Traded |-> AbsOf(f[s])]) /\ AbsSum(f) \in Nat
      BY <1>2, TradedFinite, AbsFacts
    <2>2. [s \in Traded |-> AbsOf(f[s])] = f
      BY <1>2 DEF AbsOf
    <2>3. QED
      BY <2>1, <2>2
  <1> HIDE DEF total
  <1>6. Baseline(m) \in ListOver(Traded)
    <2>1. Whole(f) \in ListOver(Traded) /\ Gross["base"] \in Nat
      BY <1>2, TargetAssumption DEF Whole, ListOver, TargetAssumption
    <2>2. total # 0 => ScaledTo(Whole(f), total, Gross["base"]) \in ListOver(Traded)
      BY <1>5, <2>1, TradedFinite, ScaledFacts
    <2>3. QED
      BY <1>4, <2>2, FlatList
  <1>7. BaselineConfidence(m) \in Nat
    <2> DEFINE p == Cardinality({s \in Traded : m[s].signal > 0})
               t == Cardinality(Traded)
    <2>1. p \in Nat /\ t \in Nat
      BY TradedFinite, FS_Subset, FS_CardinalityType
    <2>2. t # 0
      BY TradedFinite, FS_EmptySet
    <2> HIDE DEF p, t
    <2>3. (50 * p) \div t \in Nat /\ (50 * total) \div (total + 1) \in Nat
      BY <1>5, <2>1, <2>2
    <2>4. BaselineConfidence(m) = (50 * p) \div t + (50 * total) \div (total + 1)
      BY <1>4 DEF p, t
    <2>5. QED
      BY <2>3, <2>4
  <1>8. QED
    BY <1>3, <1>6, <1>7, SignalOf

\* Either engine yields a signal.
LEMMA SignalType ==
  ASSUME NEW m \in Features, NEW biased \in BOOLEAN
  PROVE  Signal(m, biased) \in Signals
  BY BiasedSignal, BaselineSignal
-----------------------------------------------------------------------------
(* The candidate *)

\* The confidence after adjust_confidence_by_risk, and the tiers it selects
LEMMA AdjustedType ==
  ASSUME NEW m, NEW conf \in Nat
  PROVE  AdjustedConfidence(m, conf) \in Nat
  <1> DEFINE defensive == \E s \in Traded :
               m[s].regime >= 1 \/ m[s].liq <= 0 \/ m[s].spike \/ m[s].thin
             slow == Sum([s \in Traded |-> m[s].slippage]) > 8 * Cardinality(Traded)
             refused == Sum([s \in Traded |-> m[s].rejects]) > 5 * Cardinality(Traded)
             split == \E s \in Traded : m[s].agree <= 0
             caps == {conf} \cup {x \in {40} : defensive \/ slow \/ refused}
                      \cup {x \in {50} : split}
  <1>1. AdjustedConfidence(m, conf) = CHOOSE c \in caps : \A x \in caps : c <= x
    BY DEF AdjustedConfidence
  <1> HIDE DEF defensive, slow, refused, split
  <1>2. caps \in SUBSET Nat /\ caps # {}
    OBVIOUS
  <1> HIDE DEF caps
  <1>3. \E c \in caps : \A x \in caps : c <= x
    BY <1>2, LeastExists
  <1>4. (CHOOSE c \in caps : \A x \in caps : c <= x) \in caps
    BY <1>3
  <1>5. QED
    BY <1>1, <1>2, <1>4

\* The limits of a confidence level are numbers.
LEMMA TierTypes ==
  ASSUME NEW state, NEW conf \in Nat, NEW night, NEW m
  PROVE  /\ MaxGrossHalves(state, conf, night) \in Nat
         /\ Net[Level(conf)] \in Nat /\ Turn[Level(conf)] \in Nat
         /\ Alpha(conf) \in 0 .. 100
         /\ Leverage(m) \in Nat /\ Leverage(m) >= 3
  <1>1. /\ \A k \in {"base", "high", "mid", "volatile", "sideways"} : Gross[k] \in Nat
        /\ \A k \in {"base", "high"} : Net[k] \in Nat /\ Turn[k] \in Nat
    BY TargetAssumption DEF TargetAssumption
  <1>2. MaxGrossHalves(state, conf, night) \in Nat
    <2>1. Gross["sideways"] \in Nat /\ Gross["volatile"] \in Nat /\ Gross["high"] \in Nat /\ Gross["mid"] \in Nat
      BY <1>1
    <2>2. QED
      BY <2>1 DEF MaxGrossHalves
  <1>3. Level(conf) \in {"base", "high"}
    BY DEF Level
  <1>4. Alpha(conf) \in 0 .. 100
    BY DEF Alpha
  <1>5. Leverage(m) \in {3, 5, 6}
    BY DEF Leverage
  <1>6. QED
    BY <1>1, <1>2, <1>3, <1>4, <1>5

\* A bound on the gross exposure may be raised.
LEMMA GrossRaised ==
  ASSUME NEW S, IsFiniteSet(S), NEW w \in ListOver(S), NEW low \in Nat, NEW high \in Nat,
         low <= high, GrossBy(w, low)
  PROVE  GrossBy(w, high)
  <1>1. w.n \in [S -> Int] /\ w.d \in Nat
    BY DEF ListOver
  <1>2. AbsSum(w.n) \in Nat
    BY <1>1, AbsFacts
  <1>3. low * w.d <= high * w.d /\ low * w.d \in Int /\ high * w.d \in Int
    BY <1>1
  <1>4. QED
    BY <1>2, <1>3 DEF GrossBy

\* The constraints of Layer 2 bring a list within bounds that hold the previous
\* target and the position, if the caps do where the list is not zero.
LEMMA ConstrainedBounded ==
  ASSUME NEW lo \in [Traded -> Nat], NEW hi \in [Traded -> Nat], NEW halves \in Nat,
         NEW p, Within(p, lo, hi, halves), NEW b, Within(b, lo, hi, halves),
         NEW gross \in Nat, gross <= halves, NEW conf \in Nat, NEW mean,
         NEW w \in ListOver(Traded),
         \A s \in Traded : w.n[s] = 0 \/ (AICap[s] <= hi[s] /\ AICap[s] <= lo[s])
  PROVE  LET c == Constrained(w, p, b, gross, conf, mean)
             net == Net[Level(conf)]
         IN  Bounded(c, lo, hi, halves) /\ (net = 0 \/ NetBy(c, net))
  <1> DEFINE clipped == ClipEach(w, AICap)
             scaled == ScaleGross(gross)[clipped]
             sized == Gate(conf)[scaled]
             smooth == Smooth(p, Alpha(conf))[sized]
             near == CapTurnover(b, Turn[Level(conf)])[smooth]
             turned == CapDirection(mean)[near]
             c == CapNet(Net[Level(conf)])[turned]
  <1>1. AICap \in [Traded -> Nat] /\ Net[Level(conf)] \in Nat /\ Turn[Level(conf)] \in Nat
        /\ Alpha(conf) \in 0 .. 100
    BY TargetAssumption, TierTypes DEF TargetAssumption
  <1>2. clipped \in ListOver(Traded) /\ Inside(clipped, lo, hi)
    <2>1. \A s \in Traded : \/ w.n[s] <= hi[s] * w.d /\ -w.n[s] <= lo[s] * w.d
                            \/ AICap[s] <= hi[s] /\ AICap[s] <= lo[s]
      <3> SUFFICES ASSUME NEW s \in Traded, w.n[s] = 0
                   PROVE  w.n[s] <= hi[s] * w.d /\ -w.n[s] <= lo[s] * w.d
        OBVIOUS
      <3>1. w.d \in Nat
        BY DEF ListOver
      <3>2. 0 <= hi[s] * w.d /\ 0 <= lo[s] * w.d
        BY <3>1
      <3>3. QED
        BY <3>2
    <2>2. clipped \in ListOver(Traded)
      BY <1>1, ClipFacts
    <2>3. Inside(clipped, lo, hi)
      BY <1>1, <2>1, ClipInside
    <2>4. QED
      BY <2>2, <2>3
  <1> HIDE DEF clipped
  <1>3. Bounded(scaled, lo, hi, halves)
    <2>1. /\ scaled \in ListOver(Traded) /\ GrossBy(scaled, gross)
          /\ Inside(scaled, lo, hi)
      BY <1>2, ScaleGrossFacts
    <2>2. GrossBy(scaled, halves)
      BY <2>1, TradedFinite, GrossRaised
    <2>3. QED
      BY <2>1, <2>2 DEF Bounded
  <1> HIDE DEF scaled
  <1>4. Bounded(sized, lo, hi, halves)
    BY <1>3, GateBounded
  <1> HIDE DEF sized
  <1>5. Bounded(smooth, lo, hi, halves)
    BY <1>1, <1>4, SmoothBounded
  <1> HIDE DEF smooth
  <1>6. Bounded(near, lo, hi, halves)
    BY <1>1, <1>5, CapTurnoverBounded
  <1> HIDE DEF near
  <1>7. Bounded(turned, lo, hi, halves)
    BY <1>6, CapDirectionBounded
  <1> HIDE DEF turned
  <1>8. Bounded(c, lo, hi, halves) /\ (Net[Level(conf)] = 0 \/ NetBy(c, Net[Level(conf)]))
    BY <1>1, <1>7, CapNetBounded
  <1>9. c = Constrained(w, p, b, gross, conf, mean)
    BY DEF Constrained, c, turned, near, smooth, sized, scaled, clipped
  <1> HIDE DEF c
  <1>10. QED
    BY <1>8, <1>9

\* What is known of a candidate c for previous target p and position b
Sound(c, p, b) ==
  /\ c.w \in ListOver(Traded) /\ c.closed \subseteq Traded
  /\ c.halves \in Nat
  /\ \A lo \in [Traded -> Nat], hi \in [Traded -> Nat], halves \in Nat :
       /\ Within(p, lo, hi, halves) /\ Within(b, lo, hi, halves)
       /\ c.halves <= halves
       /\ \A s \in Traded \ c.closed : AICap[s] <= hi[s] /\ AICap[s] <= lo[s]
       => Bounded(c.w, lo, hi, halves)
  /\ c.net = 0 \/ Beyond(c.w, c.net, Cardinality(c.dust))

\* Every candidate of Layer 2 is sound.
LEMMA CandidateSound ==
  ASSUME NEW m \in Features, NEW signal \in Signals, NEW how,
         NEW p \in [Traded -> Int], NEW b \in [Traded -> Int]
  PROVE  Sound(Candidate(m, signal, how, p, b), p, b)
  <1> DEFINE quiet == how.capped \/ (how.recent /\ signal.conf < 70)
             asked == IF quiet THEN Flat(Traded) ELSE signal.w
             closed == Closed(m, asked, b)
             conf == AdjustedConfidence(m, signal.conf)
             gross == MaxGrossHalves(signal.state, conf, how.night)
             start == Without(asked, closed)
             w == Constrained(start, p, b, gross, conf, how.mean)
             dust == Dust(w, Leverage(m))
             final == Reduced(Without(w, dust))
             net == Net[Level(conf)]
             c == Candidate(m, signal, how, p, b)
  <1>1. c = [w |-> final, closed |-> closed, halves |-> gross, net |-> net, dust |-> dust]
    BY DEF Candidate
  <1>2. asked \in ListOver(Traded)
    BY FlatList DEF Signals
  <1> HIDE DEF asked
  <1>3. closed \subseteq Traded
    <2>1. DOMAIN asked.n = Traded
      BY <1>2 DEF ListOver
    <2>2. QED
      BY <2>1 DEF Closed, Taken, Blocked, Cooled
  <1>4. conf \in Nat
    BY AdjustedType DEF Signals
  <1> HIDE DEF conf
  <1>5. gross \in Nat /\ net \in Nat /\ Leverage(m) \in Nat /\ Leverage(m) >= 3
    BY <1>4, TierTypes
  <1> HIDE DEF closed, gross
  <1>6. PICK lo0 \in [Traded -> Nat], hi0 \in [Traded -> Nat] : TRUE
    <2>1. [s \in Traded |-> 0] \in [Traded -> Nat]
      OBVIOUS
    <2>2. QED
      BY <2>1
  <1>7. /\ start \in ListOver(Traded)
        /\ \A s \in Traded : start.n[s] = IF s \in closed THEN 0 ELSE asked.n[s]
    BY <1>2, <1>5, <1>6, TradedFinite, WithoutInside
  <1> HIDE DEF start
  <1>8. ASSUME NEW lo \in [Traded -> Nat], NEW hi \in [Traded -> Nat], NEW halves \in Nat,
               Within(p, lo, hi, halves), Within(b, lo, hi, halves), gross <= halves,
               \A s \in Traded \ closed : AICap[s] <= hi[s] /\ AICap[s] <= lo[s]
        PROVE  Bounded(w, lo, hi, halves) /\ (net = 0 \/ NetBy(w, net))
    <2>1. \A s \in Traded : start.n[s] = 0 \/ (AICap[s] <= hi[s] /\ AICap[s] <= lo[s])
      BY <1>7, <1>8
    <2>2. QED
      BY <1>4, <1>5, <1>7, <1>8, <2>1, ConstrainedBounded
  <1> HIDE DEF w
  <1>9. PICK lo \in [Traded -> Nat], hi \in [Traded -> Nat], halves \in Nat :
          /\ Within(p, lo, hi, halves) /\ Within(b, lo, hi, halves) /\ gross <= halves
          /\ \A s \in Traded \ closed : AICap[s] <= hi[s] /\ AICap[s] <= lo[s]
    <2> DEFINE f == [s \in Traded |-> AICap[s] + AbsOf(p[s]) + AbsOf(b[s])]
               h == gross + 2 * AbsSum(p) + 2 * AbsSum(b)
    <2>1. AICap \in [Traded -> Nat]
      BY TargetAssumption DEF TargetAssumption
    <2>2. f \in [Traded -> Nat]
      BY <2>1 DEF AbsOf
    <2>3. AbsSum(p) \in Nat /\ AbsSum(b) \in Nat
      <3>1. AbsSum(p) \in Nat
        BY TradedFinite, AbsFacts
      <3>2. AbsSum(b) \in Nat
        BY TradedFinite, AbsFacts
      <3>3. QED
        BY <3>1, <3>2
    <2>4. h \in Nat /\ gross <= h /\ 2 * AbsSum(p) <= h /\ 2 * AbsSum(b) <= h
      BY <1>5, <2>3
    <2>5. \A s \in Traded : /\ AICap[s] <= f[s] /\ p[s] <= f[s] /\ -p[s] <= f[s]
                            /\ b[s] <= f[s] /\ -b[s] <= f[s]
      BY <2>1 DEF AbsOf
    <2> HIDE DEF f, h
    <2>6. Within(p, f, f, h) /\ Within(b, f, f, h)
      BY <2>4, <2>5 DEF Within
    <2>7. QED
      BY <2>2, <2>4, <2>5, <2>6
  <1>10. w \in ListOver(Traded) /\ (net = 0 \/ NetBy(w, net))
    BY <1>8, <1>9 DEF Bounded
  <1>11. net = 0 \/ Beyond(final, net, Cardinality(dust))
    BY <1>5, <1>10, DustNet
  <1>12. ASSUME NEW lo1 \in [Traded -> Nat], NEW hi1 \in [Traded -> Nat], NEW h1 \in Nat,
                Bounded(w, lo1, hi1, h1)
         PROVE  Bounded(final, lo1, hi1, h1)
    BY <1>12, WithoutBounded, ReducedBounded
  <1>13. final \in ListOver(Traded)
    BY <1>8, <1>9, <1>12 DEF Bounded
  <1> HIDE DEF final, dust, net
  <1>14. /\ c.w = final /\ c.closed = closed /\ c.halves = gross /\ c.net = net /\ c.dust = dust
    BY <1>1
  <1> HIDE DEF c
  <1>15. QED
    BY <1>3, <1>5, <1>8, <1>11, <1>12, <1>13, <1>14 DEF Sound, c
-----------------------------------------------------------------------------
(* Bounds through the limits of risk_engine *)

\* _scale_to_gross_net keeps bounds.
LEMMA ScaleToInside ==
  ASSUME NEW S, IsFiniteSet(S), NEW w \in ListOver(S),
         NEW lo \in [S -> Nat], NEW hi \in [S -> Nat], Inside(w, lo, hi)
  PROVE  Inside(ScaleToGrossNet(w), lo, hi)
  <1> DEFINE gross == AbsSum(w.n)
             net == AbsOf(Sum(w.n))
             byNet == net > MaxNet * w.d /\ MaxNet * gross <= MaxGross * net
             total == IF byNet THEN net ELSE gross
             limit == IF byNet THEN MaxNet ELSE MaxGross
             v == ScaledTo(w, total, limit)
  <1>1. w.n \in [S -> Int] /\ w.d \in Nat \ {0} /\ MaxGross \in Nat /\ MaxNet \in Nat
    BY LimitsAssumption DEF ListOver, LimitsAssumption
  <1>2. gross \in Nat /\ net \in Nat
    BY <1>1, AbsFacts
  <1>3. ScaleToGrossNet(w) = IF total - limit * w.d > total \div 1000 THEN Reduced(v) ELSE w
    BY DEF ScaleToGrossNet
  <1>4. limit \in Nat /\ total \in Nat
    BY <1>1, <1>2
  <1> HIDE DEF total, limit, byNet, gross, net
  <1>5. CASE total - limit * w.d > total \div 1000
    <2>1. total \in Nat \ {0} /\ limit * w.d <= total
      <3>1. limit * w.d \in Nat
        BY <1>1, <1>4
      <3>2. total \div 1000 >= 0
        BY <1>4
      <3>3. QED
        BY <1>4, <1>5, <3>1, <3>2
    <2>2. PICK halves \in Nat : TRUE
      OBVIOUS
    <2>3. v \in ListOver(S) /\ Inside(v, lo, hi)
      BY <1>4, <2>1, <2>2, ScaledInside
    <2> HIDE DEF v
    <2>4. Inside(Reduced(v), lo, hi)
      BY <2>2, <2>3, ReducedInside
    <2>5. QED
      BY <1>3, <1>5, <2>4
  <1>6. CASE ~(total - limit * w.d > total \div 1000)
    BY <1>3, <1>6
  <1>7. QED
    BY <1>5, <1>6

\* A book that respects the bounds
Holds(S, lo, hi) == \A s \in S : book[s] <= hi[s] /\ -book[s] <= lo[s]

\* The turnover limit keeps bounds that the book respects.
LEMMA TurnoverInside ==
  ASSUME NEW S \in SUBSET Syms, NEW w \in ListOver(S), book \in [Syms -> Int],
         NEW lo \in [S -> Nat], NEW hi \in [S -> Nat], Inside(w, lo, hi), Holds(S, lo, hi)
  PROVE  Inside(LimitTurnover(w), lo, hi)
  <1> DEFINE t == Turnover(w)
             C == TurnoverCap
             v == Towards(w, book, t, C)
             a == t - C * w.d
             x == [s \in S |-> book[s]]
  <1>1. IsFiniteSet(Syms) /\ IsFiniteSet(S) /\ C \in Nat
    BY LimitsAssumption, FS_Subset DEF LimitsAssumption
  <1>2. t \in Nat /\ w.d \in Nat \ {0} /\ w.n \in [S -> Int]
    BY <1>1, DistanceType DEF Turnover, ListOver
  <1>3. LimitTurnover(w) = IF t <= C * w.d THEN w ELSE Reduced(v)
    BY DEF LimitTurnover
  <1> HIDE DEF t, C
  <1>4. CASE t <= C * w.d
    BY <1>3, <1>4
  <1>5. CASE ~(t <= C * w.d)
    <2>1. t \in Nat \ {0} /\ a \in Nat /\ t = a + C * w.d
      <3>1. C * w.d \in Nat
        BY <1>1, <1>2
      <3>2. QED
        BY <1>2, <1>5, <3>1
    <2>2. /\ v \in ListOver(S) /\ v.d = t
          /\ \A s \in S : v.n[s] = book[s] * t + (w.n[s] - book[s] * w.d) * C
      <3>1. S \subseteq Syms
        OBVIOUS
      <3>2. PartWay(v, w, book, t, C, S)
        BY <1>1, <2>1, <3>1, TowardsFacts
      <3>3. QED
        BY <3>2 DEF PartWay
    <2> HIDE DEF v, a
    <2>3. ASSUME NEW s \in S PROVE v.n[s] = a * book[s] + C * w.n[s]
      <3> DEFINE y == book[s]
                 m == w.n[s]
                 d == w.d
      <3>1. y \in Int /\ m \in Int /\ d \in Nat /\ v.n[s] = y * t + (m - y * d) * C
        BY <1>2, <2>2
      <3>2. t = a + C * d
        BY <2>1
      <3> HIDE DEF y, m, d
      <3>3. y * t = y * a + y * (C * d) /\ (m - y * d) * C = m * C - (y * d) * C
        BY <1>1, <2>1, <3>1, <3>2
      <3>4. y * (C * d) = (y * d) * C
        BY <1>1, <3>1
      <3>5. QED
        BY <1>1, <2>1, <3>1, <3>3, <3>4 DEF y, m
    <2>4. x \in [S -> Int] /\ \A s \in S : x[s] <= hi[s] /\ -x[s] <= lo[s]
      BY DEF Holds
    <2>5. Mixture(v, x, w, a, C, S)
      BY <2>1, <2>2, <2>3 DEF Mixture
    <2> HIDE DEF x
    <2>6. PICK halves \in Nat : TRUE
      OBVIOUS
    <2>7. Inside(v, lo, hi)
      BY <1>1, <2>1, <2>2, <2>4, <2>5, <2>6, MixedInside, SMTT(30)
    <2>8. Inside(Reduced(v), lo, hi)
      BY <1>1, <2>2, <2>6, <2>7, ReducedInside
    <2>9. QED
      BY <1>3, <1>5, <2>8
  <1>6. QED
    BY <1>4, <1>5

\* So do the limits together, and REDUCE_ONLY.
LEMMA ApplyInside ==
  ASSUME NEW S \in SUBSET Syms, NEW w \in ListOver(S), book \in [Syms -> Int],
         NEW lo \in [S -> Nat], NEW hi \in [S -> Nat], Inside(w, lo, hi), Holds(S, lo, hi)
  PROVE  Inside(ApplyPositionLimits(w), lo, hi)
  <1>1. PICK cap \in [S -> Nat] : \A s \in S : cap[s] = Cap[s]
    <2>1. [s \in S |-> Cap[s]] \in [S -> Nat]
      BY LimitsAssumption DEF LimitsAssumption
    <2>2. QED
      BY <2>1
  <1>2. ASSUME NEW x \in ListOver(S) PROVE ClipEach(x, Cap) = ClipEach(x, cap)
    <2>1. DOMAIN x.n = S
      BY DEF ListOver
    <2>2. QED
      BY <1>1, <2>1 DEF ClipEach
  <1>3. IsFiniteSet(S)
    BY LimitsAssumption, FS_Subset DEF LimitsAssumption
  <1>4. ASSUME NEW x \in ListOver(S), Inside(x, lo, hi)
        PROVE  ClipEach(x, Cap) \in ListOver(S) /\ Inside(ClipEach(x, Cap), lo, hi)
    <2>1. DOMAIN x.n = S
      BY DEF ListOver
    <2>2. \A s \in S : \/ x.n[s] <= hi[s] * x.d /\ -x.n[s] <= lo[s] * x.d
                       \/ cap[s] <= hi[s] /\ cap[s] <= lo[s]
      BY <1>4, <2>1 DEF Inside
    <2>3. Inside(ClipEach(x, cap), lo, hi)
      BY <2>2, ClipInside
    <2>4. ClipEach(x, cap) \in ListOver(S)
      BY ClipFacts
    <2>5. QED
      BY <1>2, <2>3, <2>4
  <1>5. ASSUME NEW x \in ListOver(S), Inside(x, lo, hi)
        PROVE  ScaleToGrossNet(x) \in ListOver(S) /\ Inside(ScaleToGrossNet(x), lo, hi)
    BY <1>3, <1>5, ScaleToFacts, ScaleToInside
  <1> DEFINE w1 == ScaleToGrossNet(ClipEach(w, Cap))
             w2 == LimitTurnover(w1)
  <1>6. w1 \in ListOver(S) /\ Inside(w1, lo, hi)
    BY <1>4, <1>5
  <1> HIDE DEF w1
  <1>7. w2 \in ListOver(S) /\ Inside(w2, lo, hi)
    BY <1>6, TurnoverType, TurnoverInside
  <1> HIDE DEF w2
  <1>8. Inside(ScaleToGrossNet(ClipEach(w2, Cap)), lo, hi)
    BY <1>4, <1>5, <1>7
  <1>9. QED
    BY <1>8 DEF ApplyPositionLimits, w2, w1

\* So does REDUCE_ONLY.
LEMMA ConstrainInside ==
  ASSUME NEW S \in SUBSET Syms, NEW w \in ListOver(S), book \in [Syms -> Int],
         NEW lo \in [S -> Nat], NEW hi \in [S -> Nat], Inside(w, lo, hi), Holds(S, lo, hi)
  PROVE  Inside(Constrain(w), lo, hi)
  <1>1. w.n \in [S -> Int] /\ w.d \in Nat \ {0} /\ w = [n |-> w.n, d |-> w.d]
    BY DEF ListOver
  <1> DEFINE m == [s \in S |-> IF AbsOf(w.n[s]) > AbsOf(book[s]) * w.d THEN book[s] * w.d ELSE w.n[s]]
  <1>2. Constrain(w) = [n |-> m, d |-> w.d]
    BY <1>1 DEF Constrain
  <1>3. SUFFICES ASSUME NEW s \in S PROVE m[s] <= hi[s] * w.d /\ -m[s] <= lo[s] * w.d
    BY <1>2 DEF Inside
  <1>4. w.n[s] <= hi[s] * w.d /\ -w.n[s] <= lo[s] * w.d
    BY <1>1 DEF Inside
  <1>5. book[s] * w.d <= hi[s] * w.d /\ -(book[s] * w.d) <= lo[s] * w.d
    <2> DEFINE x == book[s]
               h == hi[s]
               l == lo[s]
               d == w.d
    <2>1. x \in Int /\ h \in Nat /\ l \in Nat /\ d \in Nat /\ x <= h /\ -x <= l
      BY <1>1 DEF Holds
    <2> HIDE DEF x, h, l, d
    <2>2. x * d <= h * d
      BY <2>1
    <2>3. (-x) * d <= l * d /\ (-x) * d = -(x * d)
      BY <2>1
    <2>4. QED
      BY <2>2, <2>3 DEF x, h, l, d
  <1>6. m[s] = book[s] * w.d \/ m[s] = w.n[s]
    OBVIOUS
  <1> HIDE DEF m
  <1>7. QED
    BY <1>4, <1>5, <1>6
-----------------------------------------------------------------------------
(* The inductive invariant of proposal and approval *)

\* The position of the traded symbols
Held == [s \in Traded |-> book[s]]

\* The target is a list over some of the symbols.
Listed == \E S \in SUBSET Syms : target \in ListOver(S)

\* What the approved weights are
AsApproved ==
  \/ approvedMode = "HALT" /\ action = "HOLD" /\ weights = EmptyList
  \/ approvedMode = "REDUCE_ONLY" /\ weights = Constrain(ApplyPositionLimits(target))
  \/ approvedMode = "NORMAL" /\ weights = ApplyPositionLimits(target)

\* The inductive invariant: the approved weights are those of apply_position_limits
\* for the target and the mode, and a target that trades is the sound candidate
\* that Layer 2 decided on.
TargetInv ==
  /\ book \in [Syms -> Int]
  /\ prev \in [Traded -> Int]
  /\ Listed
  /\ IF done THEN action # "none" /\ AsApproved ELSE weights = EmptyList
  /\ action = "none" => decided = NotDecided
  /\ decided # NotDecided => Sound(decided, prev, Held)
  /\ action = "REBALANCE" /\ decided # NotDecided => target = decided.w

\* The empty list
LEMMA EmptyListed == EmptyList \in ListOver({})
  BY DEF EmptyList, ListOver

\* It holds before anything is proposed.
LEMMA InitTargetInv == TargetInit => TargetInv
  <1> SUFFICES ASSUME TargetInit PROVE TargetInv
    OBVIOUS
  <1>1. book \in [Syms -> Int] /\ prev \in [Traded -> Int]
    BY LimitsAssumption, ProposalAssumption DEF TargetInit, LimitsAssumption, ProposalAssumption
  <1>2. Listed
    BY EmptyListed DEF TargetInit, Listed
  <1>3. QED
    BY <1>1, <1>2 DEF TargetInit, TargetInv

\* The position of the traded symbols
LEMMA HeldType ==
  ASSUME book \in [Syms -> Int] PROVE Held \in [Traded -> Int]
  BY ProposalAssumption DEF Held, ProposalAssumption

\* Weights in whole units are a list.
LEMMA WholeListed ==
  ASSUME NEW S \in SUBSET Syms, NEW p \in [S -> Int]
  PROVE  Whole(p) \in ListOver(S)
  BY DEF Whole, ListOver

\* A proposal of Layer 2 keeps the invariant.
LEMMA Layer2Keeps == TargetInv /\ Layer2 => TargetInv'
  <1> SUFFICES ASSUME TargetInv, Layer2 PROVE TargetInv'
    OBVIOUS
  <1> DEFINE c == decided'
  <1>1. PICK m \in Features, how \in Circumstances :
          /\ c = Candidate(m, Signal(m, how.biased), how, prev, Held)
          /\ \/ action' = "REBALANCE" /\ target' = c.w
             \/ action' = "HOLD" /\ target' = Whole(prev)
    BY DEF Layer2, Held
  <1>2. /\ action = "none"
        /\ UNCHANGED <<book, weights, done, prev>>
    BY DEF Layer2
  <1>3. how.biased \in BOOLEAN
    <2>1. ASSUME NEW mean,
                 how = [biased |-> TRUE, recent |-> FALSE, capped |-> FALSE, due |-> TRUE,
                        night |-> FALSE, mean |-> mean]
          PROVE  how.biased \in BOOLEAN
      BY <2>1
    <2>2. ASSUME how \in [biased : {TRUE}, recent : {TRUE}, capped : BOOLEAN, due : {TRUE},
                          night : {TRUE}, mean : {-1, 0}]
          PROVE  how.biased \in BOOLEAN
      BY <2>2
    <2>3. ASSUME how \in [biased : {FALSE}, recent : {FALSE}, capped : {FALSE}, due : BOOLEAN,
                          night : {FALSE}, mean : {0, 1}]
          PROVE  how.biased \in BOOLEAN
      BY <2>3
    <2>4. QED
      BY <2>1, <2>2, <2>3, Zenon DEF Circumstances
  <1>4. /\ book \in [Syms -> Int] /\ prev \in [Traded -> Int] /\ Held \in [Traded -> Int]
        /\ ~done /\ weights = EmptyList
    BY <1>2, HeldType DEF TargetInv
  <1>5. Sound(c, prev, Held)
    BY <1>1, <1>3, <1>4, SignalType, CandidateSound
  <1>6. Traded \in SUBSET Syms
    BY ProposalAssumption DEF ProposalAssumption
  <1>7. target' \in ListOver(Traded)
    <2>1. c.w \in ListOver(Traded)
      BY <1>5 DEF Sound
    <2>2. Whole(prev) \in ListOver(Traded)
      BY <1>4, <1>6, WholeListed
    <2>3. QED
      BY <1>1, <2>1, <2>2
  <1>8. Listed'
    BY <1>6, <1>7 DEF Listed
  <1>9. Held' = Held
    BY <1>2 DEF Held
  <1>10. action' # "none" /\ (action' = "REBALANCE" => target' = decided'.w)
    BY <1>1
  <1>11. Sound(decided', prev', Held')
    BY <1>1, <1>2, <1>5, <1>9
  <1>12. QED
    BY <1>2, <1>4, <1>8, <1>10, <1>11 DEF TargetInv

\* So does one of v17_alpha,
LEMMA Alpha17Keeps == TargetInv /\ Alpha17 => TargetInv'
  <1> SUFFICES ASSUME TargetInv, Alpha17 PROVE TargetInv'
    OBVIOUS
  <1>1. PICK p \in Proposals : target' = Whole(p)
    BY DEF Alpha17
  <1>2. /\ action = "none" /\ action' \in {"REBALANCE", "HOLD"}
        /\ UNCHANGED <<book, weights, done, prev, decided>>
    BY DEF Alpha17
  <1>3. Listed'
    <2>1. DOMAIN p \in SUBSET Syms /\ p \in [DOMAIN p -> Int]
      BY ProposalAssumption DEF ProposalAssumption
    <2>2. Whole(p) \in ListOver(DOMAIN p)
      BY <2>1, WholeListed
    <2>3. QED
      BY <1>1, <2>1, <2>2 DEF Listed
  <1>4. QED
    BY <1>2, <1>3 DEF TargetInv

\* and the approval.
LEMMA RiskEngineKeeps == TargetInv /\ RiskEngine => TargetInv'
  <1> SUFFICES ASSUME TargetInv, RiskEngine PROVE TargetInv'
    OBVIOUS
  <1>1. PICK byGuards \in GuardModes : Approve(byGuards)
    BY DEF RiskEngine
  <1>2. /\ action # "none" /\ UNCHANGED <<book, target, prev, decided>>
        /\ done' = TRUE
    BY <1>1 DEF RiskEngine, Approve
  <1>3. Held' = Held /\ Listed' = Listed
    BY <1>2 DEF Held, Listed
  <1>4. /\ ApplyPositionLimits(target)' = ApplyPositionLimits(target)
        /\ Constrain(ApplyPositionLimits(target))' = Constrain(ApplyPositionLimits(target))
    BY <1>2 DEF ApplyPositionLimits, LimitTurnover, Turnover, Constrain
  <1>5. AsApproved' /\ action' # "none" /\ (action' = "REBALANCE" => action = "REBALANCE")
    BY <1>1, <1>2, <1>4 DEF Approve, AsApproved
  <1>6. QED
    BY <1>2, <1>3, <1>5 DEF TargetInv

\* A step that changes nothing keeps it.
LEMMA TargetStutter == TargetInv /\ UNCHANGED all => TargetInv'
  <1> SUFFICES ASSUME TargetInv, UNCHANGED all PROVE TargetInv'
    OBVIOUS
  <1>1. UNCHANGED <<approvedMode, action, book, target, weights, done, prev, decided>>
    BY DEF all, limitVars
  <1>2. Held' = Held /\ Listed' = Listed
    BY <1>1 DEF Held, Listed
  <1>3. /\ ApplyPositionLimits(target)' = ApplyPositionLimits(target)
        /\ Constrain(ApplyPositionLimits(target))' = Constrain(ApplyPositionLimits(target))
    BY <1>1 DEF ApplyPositionLimits, LimitTurnover, Turnover, Constrain
  <1>4. AsApproved' = AsApproved
    BY <1>1, <1>3 DEF AsApproved
  <1>5. QED
    BY <1>1, <1>2, <1>4 DEF TargetInv

\* The invariant holds in every state.
LEMMA TargetInvariant == TargetSpec => []TargetInv
  <1>1. TargetInit => TargetInv
    BY InitTargetInv
  <1>2. TargetInv /\ [TargetNext]_all => TargetInv'
    BY Layer2Keeps, Alpha17Keeps, RiskEngineKeeps, TargetStutter DEF TargetNext
  <1>3. QED
    BY <1>1, <1>2, PTL DEF TargetSpec

-----------------------------------------------------------------------------
(* What the approved weights are within *)

\* The empty list is within every limit.
LEMMA EmptyWithin ==
  /\ \A cap : Capped(EmptyList, cap)
  /\ AbsSum(EmptyList.n) = 0
  /\ EmptyList \in ListOver({})
  <1>1. EmptyList.n \in [{} -> Int] /\ DOMAIN EmptyList.n = {}
    BY DEF EmptyList
  <1>2. [s \in DOMAIN EmptyList.n |-> AbsOf(EmptyList.n[s])] \in [{} -> Int]
    BY <1>1
  <1>3. AbsSum(EmptyList.n) = 0
    BY <1>1, <1>2, SumOfNothing DEF AbsSum
  <1>4. QED
    BY <1>1, <1>3, EmptyListed DEF Capped

\* The weights of an approved target: see AsApproved.
LEMMA ApprovedFacts ==
  ASSUME TargetInv, done
  PROVE  /\ Capped(weights, Cap)
         /\ GrossIn(weights)
         /\ weights.d \in Nat /\ (\E S : IsFiniteSet(S) /\ weights.n \in [S -> Int])
         /\ approvedMode = "NORMAL" => NetIn(weights)
         /\ approvedMode = "REDUCE_ONLY" =>
              \A s \in DOMAIN weights.n : AbsOf(weights.n[s]) <= AbsOf(book[s]) * weights.d
  <1>1. PICK S \in SUBSET Syms : target \in ListOver(S)
    BY DEF TargetInv, Listed
  <1>2. book \in [Syms -> Int] /\ AsApproved
    BY DEF TargetInv
  <1> DEFINE r == ApplyPositionLimits(target)
  <1>3. IsFiniteSet(S)
    BY LimitsAssumption, FS_Subset DEF LimitsAssumption
  <1>4. r \in ListOver(S) /\ Capped(r, Cap) /\ GrossIn(r) /\ NetIn(r)
    BY <1>1, <1>2, ApplyFacts
  <1> HIDE DEF r
  <1>5. CASE approvedMode = "HALT" /\ weights = EmptyList
    <2>1. Capped(weights, Cap) /\ AbsSum(weights.n) = 0
      BY <1>5, EmptyWithin
    <2>2. weights.d = 1 /\ weights.n \in [{} -> Int] /\ IsFiniteSet({})
      BY <1>5, FS_EmptySet DEF EmptyList
    <2>3. GrossIn(weights)
      BY <2>1, <2>2, LimitsAssumption DEF GrossIn, Slack, LimitsAssumption
    <2>4. approvedMode # "NORMAL" /\ approvedMode # "REDUCE_ONLY"
      BY <1>5
    <2>5. QED
      BY <2>1, <2>2, <2>3, <2>4
  <1>6. CASE approvedMode = "REDUCE_ONLY" /\ weights = Constrain(r)
    <2>1. /\ weights \in ListOver(S) /\ Capped(weights, Cap) /\ GrossIn(weights)
          /\ \A s \in S : AbsOf(weights.n[s]) <= AbsOf(book[s]) * weights.d
      BY <1>2, <1>4, <1>6, ConstrainFacts
    <2>2. weights.n \in [S -> Int] /\ weights.d \in Nat
      BY <2>1 DEF ListOver
    <2>3. approvedMode # "NORMAL"
      BY <1>6
    <2>4. QED
      BY <1>3, <2>1, <2>2, <2>3
  <1>7. CASE approvedMode = "NORMAL" /\ weights = r
    <2>1. weights.n \in [S -> Int] /\ weights.d \in Nat
      BY <1>4, <1>7 DEF ListOver
    <2>2. approvedMode # "REDUCE_ONLY"
      BY <1>7
    <2>3. QED
      BY <1>3, <1>4, <1>7, <2>1, <2>2
  <1>8. QED
    BY <1>2, <1>5, <1>6, <1>7 DEF AsApproved, r

\* What follows for the caps and the exposures,
LEMMA ApprovedWithin == TargetInv => ApprovedWithinLimits
  <1> SUFFICES ASSUME TargetInv, done
               PROVE  /\ \A s \in DOMAIN weights.n : AbsOf(weights.n[s]) <= Cap[s] * weights.d
                      /\ WithinSlack(AbsSum(weights.n), MaxGross * weights.d)
                      /\ approvedMode = "NORMAL" =>
                           WithinSlack(AbsOf(Sum(weights.n)), MaxNet * weights.d)
    BY DEF ApprovedWithinLimits
  <1>1. PICK S : IsFiniteSet(S) /\ weights.n \in [S -> Int]
    BY ApprovedFacts
  <1>2. /\ AbsSum(weights.n) \in Nat /\ AbsOf(Sum(weights.n)) \in Nat /\ weights.d \in Nat
        /\ MaxGross \in Nat /\ MaxNet \in Nat
    BY <1>1, AbsFacts, ApprovedFacts, LimitsAssumption DEF LimitsAssumption
  <1>3. Capped(weights, Cap) /\ GrossIn(weights) /\ (approvedMode = "NORMAL" => NetIn(weights))
    BY ApprovedFacts
  <1>4. WithinSlack(AbsSum(weights.n), MaxGross * weights.d)
    BY <1>2, <1>3, SlackFacts DEF GrossIn
  <1>5. ASSUME approvedMode = "NORMAL"
        PROVE  WithinSlack(AbsOf(Sum(weights.n)), MaxNet * weights.d)
    BY <1>2, <1>3, <1>5, SlackFacts DEF NetIn
  <1>6. QED
    BY <1>3, <1>4, <1>5 DEF Capped

\* for REDUCE_ONLY,
LEMMA ReduceShrinks == TargetInv => ReduceOnlyShrinks
  BY ApprovedFacts DEF ReduceOnlyShrinks

\* and for the turnover.
LEMMA TurnoverWithin == TargetInv => TurnoverWithinCap
  <1> SUFFICES ASSUME TargetInv, done, approvedMode = "NORMAL", BookWithinLimits,
                      DOMAIN target.n = Syms
               PROVE  Turnover(weights) <= TurnoverCap * weights.d
    BY DEF TurnoverWithinCap
  <1>1. PICK S \in SUBSET Syms : target \in ListOver(S)
    BY DEF TargetInv, Listed
  <1>2. target \in ListOver(Syms)
    <2>1. DOMAIN target.n = S
      BY <1>1 DEF ListOver
    <2>2. QED
      BY <1>1, <2>1
  <1>3. weights = ApplyPositionLimits(target) /\ book \in [Syms -> Int]
    BY DEF TargetInv, AsApproved
  <1>4. QED
    BY <1>2, <1>3, ApplyTurnover

-----------------------------------------------------------------------------
(* What the candidate of Layer 2 is within *)

\* The greatest of three numbers
LEMMA HighestFacts ==
  ASSUME NEW a \in Int, NEW b \in Int, NEW c \in Int
  PROVE  /\ Highest({a, b, c}) \in {a, b, c}
         /\ a <= Highest({a, b, c}) /\ b <= Highest({a, b, c}) /\ c <= Highest({a, b, c})
  <1>1. \E x \in {a, b, c} : \A y \in {a, b, c} : x >= y
    <2>1. CASE a >= b /\ a >= c
      BY <2>1
    <2>2. CASE b >= a /\ b >= c
      BY <2>2
    <2>3. CASE c >= a /\ c >= b
      BY <2>3
    <2>4. QED
      BY <2>1, <2>2, <2>3
  <1> DEFINE h == CHOOSE x \in {a, b, c} : \A y \in {a, b, c} : x >= y
  <1>2. h \in {a, b, c} /\ \A y \in {a, b, c} : h >= y
    BY <1>1
  <1>3. Highest({a, b, c}) = h
    BY DEF Highest
  <1> HIDE DEF h
  <1>4. QED
    BY <1>2, <1>3

\* The bounds of each symbol: those of a closed symbol leave out its cap.
High ==
  [s \in Traded |-> IF s \in decided.closed THEN Highest({0, prev[s], Held[s]})
                    ELSE Highest({AICap[s], AbsOf(prev[s]), AbsOf(Held[s])})]
Low ==
  [s \in Traded |-> IF s \in decided.closed THEN Highest({0, -prev[s], -Held[s]})
                    ELSE Highest({AICap[s], AbsOf(prev[s]), AbsOf(Held[s])})]
\* The bound of the gross exposure, in half units
GrossHalves == Highest({decided.halves, 2 * AbsSum(prev), 2 * AbsSum(Held)})

\* They are bounds that the position and the previous target respect, and the caps
\* of the symbols that are not closed.
LEMMA BoundsFacts ==
  ASSUME NEW p \in [Traded -> Int], p = prev, NEW b \in [Traded -> Int], b = Held,
         decided.halves \in Nat
  PROVE  /\ High \in [Traded -> Nat] /\ Low \in [Traded -> Nat] /\ GrossHalves \in Nat
         /\ Within(p, Low, High, GrossHalves) /\ Within(b, Low, High, GrossHalves)
         /\ decided.halves <= GrossHalves
         /\ \A s \in Traded \ decided.closed : AICap[s] <= High[s] /\ AICap[s] <= Low[s]
         /\ \A s \in Traded : LET most == Highest({AICap[s], AbsOf(p[s]), AbsOf(b[s])})
                              IN  High[s] <= most /\ Low[s] <= most
  <1>1. AICap \in [Traded -> Nat]
    BY TargetAssumption DEF TargetAssumption
  <1>2. AbsSum(p) \in Nat /\ AbsSum(b) \in Nat
    <2>1. AbsSum(p) \in Nat
      BY TradedFinite, AbsFacts
    <2>2. AbsSum(b) \in Nat
      BY TradedFinite, AbsFacts
    <2>3. QED
      BY <2>1, <2>2
  <1>3. /\ GrossHalves \in Nat /\ decided.halves <= GrossHalves
        /\ 2 * AbsSum(p) <= GrossHalves /\ 2 * AbsSum(b) <= GrossHalves
    <2>1. 2 * AbsSum(p) \in Nat /\ 2 * AbsSum(b) \in Nat
      BY <1>2
    <2>2. GrossHalves = Highest({decided.halves, 2 * AbsSum(p), 2 * AbsSum(b)})
      BY DEF GrossHalves
    <2> DEFINE a == decided.halves
               e == 2 * AbsSum(p)
               f == 2 * AbsSum(b)
    <2>3. a \in Nat /\ e \in Nat /\ f \in Nat /\ GrossHalves = Highest({a, e, f})
      BY <2>1, <2>2
    <2>9. a \in Int /\ e \in Int /\ f \in Int
      BY <2>3
    <2> HIDE DEF a, e, f
    <2>4. /\ Highest({a, e, f}) \in {a, e, f}
          /\ a <= Highest({a, e, f}) /\ e <= Highest({a, e, f}) /\ f <= Highest({a, e, f})
      BY <2>9, HighestFacts
    <2>5. GrossHalves \in Nat /\ a <= GrossHalves /\ e <= GrossHalves /\ f <= GrossHalves
      BY <2>3, <2>4
    <2>6. QED
      BY <2>5 DEF a, e, f
  <1>4. ASSUME NEW s \in Traded
        PROVE  /\ High[s] \in Nat /\ Low[s] \in Nat
               /\ p[s] <= High[s] /\ -p[s] <= Low[s] /\ b[s] <= High[s] /\ -b[s] <= Low[s]
               /\ s \notin decided.closed => AICap[s] <= High[s] /\ AICap[s] <= Low[s]
               /\ High[s] <= Highest({AICap[s], AbsOf(p[s]), AbsOf(b[s])})
               /\ Low[s] <= Highest({AICap[s], AbsOf(p[s]), AbsOf(b[s])})
    <2> DEFINE x == p[s]
               y == b[s]
               c == AICap[s]
               most == Highest({c, AbsOf(x), AbsOf(y)})
    <2>1. x \in Int /\ y \in Int /\ c \in Nat
      BY <1>1
    <2>2. /\ High[s] = IF s \in decided.closed THEN Highest({0, x, y}) ELSE most
          /\ Low[s] = IF s \in decided.closed THEN Highest({0, -x, -y}) ELSE most
      BY DEF High, Low
    <2>3. AbsOf(x) \in Nat /\ AbsOf(y) \in Nat /\ x <= AbsOf(x) /\ -x <= AbsOf(x)
          /\ y <= AbsOf(y) /\ -y <= AbsOf(y)
      BY <2>1 DEF AbsOf
    <2> HIDE DEF x, y, c
    <2>4. /\ most \in Nat /\ c <= most /\ AbsOf(x) <= most /\ AbsOf(y) <= most
      <3> DEFINE e == AbsOf(x)
                 f == AbsOf(y)
      <3>1. c \in Int /\ e \in Int /\ f \in Int /\ c \in Nat /\ e \in Nat /\ f \in Nat
        BY <2>1, <2>3
      <3> HIDE DEF e, f
      <3>2. /\ Highest({c, e, f}) \in {c, e, f}
            /\ c <= Highest({c, e, f}) /\ e <= Highest({c, e, f}) /\ f <= Highest({c, e, f})
        BY <3>1, HighestFacts
      <3>3. most = Highest({c, e, f})
        BY DEF e, f
      <3> HIDE DEF most
      <3>4. most \in Nat /\ c <= most /\ e <= most /\ f <= most
        BY <3>1, <3>2, <3>3
      <3>5. QED
        BY <3>4 DEF e, f
    <2>5. LET h == Highest({0, x, y})
          IN  h \in {0, x, y} /\ 0 <= h /\ x <= h /\ y <= h
      BY <2>1, HighestFacts, SMTT(30)
    <2>6. LET h == Highest({0, -x, -y})
          IN  h \in {0, -x, -y} /\ 0 <= h /\ -x <= h /\ -y <= h
      <3>1. -x \in Int /\ -y \in Int /\ 0 \in Int
        BY <2>1
      <3>2. QED
        BY <3>1, HighestFacts
    <2> DEFINE h == Highest({0, x, y})
               l == Highest({0, -x, -y})
    <2> HIDE DEF most, h, l
    <2>7. /\ h \in {0, x, y} /\ 0 <= h /\ x <= h /\ y <= h
          /\ l \in {0, -x, -y} /\ 0 <= l /\ -x <= l /\ -y <= l
      BY <2>5, <2>6 DEF h, l
    <2>8. /\ High[s] = IF s \in decided.closed THEN h ELSE most
          /\ Low[s] = IF s \in decided.closed THEN l ELSE most
      BY <2>2 DEF h, l
    <2>9. h \in Nat /\ l \in Nat /\ h <= most /\ l <= most
      BY <2>1, <2>3, <2>4, <2>7
    <2>10. /\ High[s] \in Nat /\ Low[s] \in Nat
           /\ x <= High[s] /\ -x <= Low[s] /\ y <= High[s] /\ -y <= Low[s]
           /\ s \notin decided.closed => c <= High[s] /\ c <= Low[s]
           /\ High[s] <= most /\ Low[s] <= most
      BY <2>1, <2>3, <2>4, <2>7, <2>8, <2>9
    <2>11. QED
      BY <2>10 DEF x, y, c, most
  <1>5. High \in [Traded -> Nat] /\ Low \in [Traded -> Nat]
    <2>1. High = [s \in Traded |-> High[s]] /\ Low = [s \in Traded |-> Low[s]]
      BY DEF High, Low
    <2>2. QED
      BY <1>4, <2>1
  <1>6. QED
    BY <1>3, <1>4, <1>5 DEF Within

\* The candidate respects those bounds, and so do the position and the target.
LEMMA DecidedBounded ==
  ASSUME TargetInv, decided # NotDecided
  PROVE  /\ prev \in [Traded -> Int] /\ Held \in [Traded -> Int]
         /\ decided.w \in ListOver(Traded) /\ decided.closed \subseteq Traded
         /\ High \in [Traded -> Nat] /\ Low \in [Traded -> Nat] /\ GrossHalves \in Nat
         /\ Bounded(decided.w, Low, High, GrossHalves)
         /\ Within(Held, Low, High, GrossHalves)
         /\ \A s \in Traded : LET most == Highest({AICap[s], AbsOf(prev[s]), AbsOf(Held[s])})
                              IN  High[s] <= most /\ Low[s] <= most
         /\ decided.net = 0 \/ Beyond(decided.w, decided.net, Cardinality(decided.dust))
  <1>1. prev \in [Traded -> Int] /\ Held \in [Traded -> Int] /\ Sound(decided, prev, Held)
    BY HeldType DEF TargetInv
  <1>2. decided.w \in ListOver(Traded) /\ decided.closed \subseteq Traded /\ decided.halves \in Nat
    BY <1>1 DEF Sound
  <1>3. /\ High \in [Traded -> Nat] /\ Low \in [Traded -> Nat] /\ GrossHalves \in Nat
        /\ Within(prev, Low, High, GrossHalves) /\ Within(Held, Low, High, GrossHalves)
        /\ decided.halves <= GrossHalves
        /\ \A s \in Traded \ decided.closed : AICap[s] <= High[s] /\ AICap[s] <= Low[s]
        /\ \A s \in Traded : LET most == Highest({AICap[s], AbsOf(prev[s]), AbsOf(Held[s])})
                             IN  High[s] <= most /\ Low[s] <= most
    BY <1>1, <1>2, BoundsFacts
  <1> DEFINE lo == Low
             hi == High
             halves == GrossHalves
  <1> HIDE DEF lo, hi, halves
  <1>4. ASSUME lo \in [Traded -> Nat], hi \in [Traded -> Nat], halves \in Nat,
               Within(prev, lo, hi, halves), Within(Held, lo, hi, halves),
               decided.halves <= halves,
               \A s \in Traded \ decided.closed : AICap[s] <= hi[s] /\ AICap[s] <= lo[s]
        PROVE  Bounded(decided.w, lo, hi, halves)
    BY <1>1, <1>4 DEF Sound
  <1>5. Bounded(decided.w, Low, High, GrossHalves)
    BY <1>3, <1>4 DEF lo, hi, halves
  <1>6. decided.net = 0 \/ Beyond(decided.w, decided.net, Cardinality(decided.dust))
    BY <1>1 DEF Sound
  <1>7. QED
    BY <1>1, <1>2, <1>3, <1>5, <1>6

\* A bound of both signs is a bound of the absolute value.
LEMMA AbsBound ==
  ASSUME NEW x \in Int, NEW d \in Nat, NEW h \in Int, NEW l \in Int, NEW most \in Int,
         x <= h * d, -x <= l * d, h <= most, l <= most
  PROVE  AbsOf(x) <= d * most
  <1>1. h * d <= most * d /\ l * d <= most * d
    BY SMT
  <1>2. most * d = d * most
    BY SMT
  <1>3. x <= d * most /\ -x <= d * most
    BY <1>1, <1>2
  <1>4. QED
    BY <1>3 DEF AbsOf

\* What follows for the candidate.
LEMMA CandidateWithin == TargetInv => CandidateWithinLimits
  <1> SUFFICES ASSUME TargetInv, decided # NotDecided
               PROVE  /\ \A s \in Traded :
                           AbsOf(decided.w.n[s])
                             <= decided.w.d * Highest({AICap[s], AbsOf(prev[s]), AbsOf(book[s])})
                      /\ 2 * AbsSum(decided.w.n) <= decided.w.d * GrossHalves
                      /\ decided.net # 0 =>
                           3 * (AbsOf(Sum(decided.w.n)) - decided.net * decided.w.d)
                             <= Cardinality(decided.dust) * (Floor * decided.w.d)
    BY DEF CandidateWithinLimits, GrossHalves, Held
  <1>1. /\ decided.w.n \in [Traded -> Int] /\ decided.w.d \in Nat
        /\ Bounded(decided.w, Low, High, GrossHalves)
    BY DecidedBounded DEF ListOver
  <1>2. ASSUME NEW s \in Traded
        PROVE  AbsOf(decided.w.n[s])
                 <= decided.w.d * Highest({AICap[s], AbsOf(prev[s]), AbsOf(book[s])})
    <2> DEFINE most == Highest({AICap[s], AbsOf(prev[s]), AbsOf(Held[s])})
    <2>1. Held[s] = book[s]
      BY DEF Held
    <2>2. High[s] <= most /\ Low[s] <= most /\ High[s] \in Int /\ Low[s] \in Int
      BY DecidedBounded
    <2>3. most \in Int
      <3>1. AICap[s] \in Int /\ prev[s] \in Int /\ Held[s] \in Int
        BY DecidedBounded, TargetAssumption DEF TargetAssumption
      <3> DEFINE a == AICap[s]
                 e == AbsOf(prev[s])
                 f == AbsOf(Held[s])
      <3>2. a \in Int /\ e \in Int /\ f \in Int
        BY <3>1 DEF AbsOf
      <3> HIDE DEF a, e, f
      <3>3. Highest({a, e, f}) \in {a, e, f}
        BY <3>2, HighestFacts
      <3>4. Highest({a, e, f}) \in Int
        BY <3>2, <3>3
      <3>5. QED
        BY <3>4 DEF a, e, f
    <2>4. decided.w.n[s] <= High[s] * decided.w.d /\ -decided.w.n[s] <= Low[s] * decided.w.d
      BY <1>1 DEF Bounded, Inside
    <2> DEFINE x == decided.w.n[s]
               d == decided.w.d
               h == High[s]
               l == Low[s]
    <2>5. x \in Int /\ d \in Nat /\ h \in Int /\ l \in Int
      BY <1>1, <2>2
    <2>6. x <= h * d /\ -x <= l * d /\ h <= most /\ l <= most
      BY <2>2, <2>4
    <2> HIDE DEF x, d, h, l, most
    <2>7. AbsOf(x) <= d * most
      BY <2>3, <2>5, <2>6, AbsBound
    <2>8. QED
      BY <2>1, <2>7 DEF x, d, most
  <1>3. 2 * AbsSum(decided.w.n) <= decided.w.d * GrossHalves
    <2>1. 2 * AbsSum(decided.w.n) <= GrossHalves * decided.w.d /\ GrossHalves \in Nat
      BY DecidedBounded DEF Bounded, GrossBy
    <2> DEFINE g == GrossHalves
               d == decided.w.d
    <2>2. g \in Nat /\ d \in Nat
      BY <1>1, <2>1
    <2> HIDE DEF g, d
    <2>3. g * d = d * g
      BY <2>2
    <2>4. QED
      BY <2>1, <2>3 DEF g, d
  <1>4. decided.net # 0 =>
          3 * (AbsOf(Sum(decided.w.n)) - decided.net * decided.w.d)
            <= Cardinality(decided.dust) * (Floor * decided.w.d)
    BY DecidedBounded DEF Beyond
  <1>5. QED
    BY <1>2, <1>3, <1>4

-----------------------------------------------------------------------------
(* The symbols that Layer 2 closes *)

\* For a closed symbol the bounds are the previous target and the position.
LEMMA BetweenBounds ==
  ASSUME TargetInv, decided # NotDecided, NEW s \in decided.closed, s \in Traded, NEW w,
         w.n[s] \in Int, w.d \in Nat,
         w.n[s] <= High[s] * w.d, -w.n[s] <= Low[s] * w.d
  PROVE  Between(w, s, prev[s], book[s])
  <1>1. Held[s] = book[s] /\ High[s] \in Nat /\ Low[s] \in Nat
    BY DecidedBounded DEF Held
  <1>2. High[s] = Highest({0, prev[s], book[s]}) /\ Low[s] = Highest({0, -prev[s], -book[s]})
    BY <1>1 DEF High, Low
  <1> DEFINE h == High[s]
             l == Low[s]
             d == w.d
  <1>3. h \in Nat /\ l \in Nat /\ d \in Nat /\ w.n[s] <= h * d /\ -w.n[s] <= l * d
    BY <1>1
  <1> HIDE DEF h, l, d
  <1>4. h * d = d * h /\ l * d = d * l
    BY <1>3
  <1>5. w.n[s] <= d * h /\ -w.n[s] <= d * l
    BY <1>3, <1>4
  <1>6. w.n[s] <= d * Highest({0, prev[s], book[s]})
        /\ -w.n[s] <= d * Highest({0, -prev[s], -book[s]})
    BY <1>2, <1>5 DEF h, l
  <1>7. QED
    BY <1>6 DEF Between, d

\* The approved weights of the candidate respect its bounds.
LEMMA ApprovedInside ==
  ASSUME TargetInv, decided # NotDecided, done, action = "REBALANCE"
  PROVE  weights \in ListOver(Traded) /\ Inside(weights, Low, High)
  <1>1. /\ AsApproved /\ target = decided.w /\ book \in [Syms -> Int] /\ Traded \in SUBSET Syms
        /\ target \in ListOver(Traded) /\ IsFiniteSet(Traded)
    BY DecidedBounded, TradedFinite, ProposalAssumption DEF TargetInv, ProposalAssumption
  <1> DEFINE lo == Low
             hi == High
             r == ApplyPositionLimits(target)
  <1>2. lo \in [Traded -> Nat] /\ hi \in [Traded -> Nat]
    BY DecidedBounded
  <1>3. Inside(target, lo, hi) /\ Holds(Traded, lo, hi)
    <2>1. Inside(target, lo, hi)
      BY <1>1, DecidedBounded DEF Bounded
    <2>2. \A s \in Traded : Held[s] <= High[s] /\ -Held[s] <= Low[s]
      BY DecidedBounded DEF Within
    <2>3. Holds(Traded, lo, hi)
      BY <2>2 DEF Holds, Held
    <2>4. QED
      BY <2>1, <2>3
  <1> HIDE DEF lo, hi
  <1>4. r \in ListOver(Traded)
    BY <1>1, ApplyFacts
  <1>5. Inside(r, lo, hi)
    BY <1>1, <1>2, <1>3, ApplyInside
  <1> HIDE DEF r
  <1>6. Constrain(r) \in ListOver(Traded) /\ Inside(Constrain(r), lo, hi)
    <2>1. Capped(r, Cap) /\ GrossIn(r)
      BY <1>1, ApplyFacts DEF r
    <2>2. Constrain(r) \in ListOver(Traded)
      BY <1>1, <1>4, <2>1, ConstrainFacts
    <2>3. Inside(Constrain(r), lo, hi)
      BY <1>1, <1>2, <1>3, <1>4, <1>5, ConstrainInside
    <2>4. QED
      BY <2>2, <2>3
  <1>7. weights = r \/ weights = Constrain(r)
    BY <1>1 DEF AsApproved, r
  <1>8. QED
    BY <1>4, <1>5, <1>6, <1>7 DEF lo, hi

\* What follows for the closed symbols.
LEMMA ClosedShrinks == TargetInv => ClosedNeverGrows
  <1> SUFFICES ASSUME TargetInv, NEW s \in decided.closed
               PROVE  /\ Between(decided.w, s, prev[s], book[s])
                      /\ action = "REBALANCE" /\ s \in DOMAIN weights.n =>
                           Between(weights, s, prev[s], book[s])
    BY DEF ClosedNeverGrows
  <1>1. decided # NotDecided
    BY DEF NotDecided
  <1>2. s \in Traded /\ decided.w.n \in [Traded -> Int] /\ decided.w.d \in Nat
    BY <1>1, DecidedBounded DEF ListOver
  <1>3. decided.w.n[s] <= High[s] * decided.w.d /\ -decided.w.n[s] <= Low[s] * decided.w.d
    BY <1>1, <1>2, DecidedBounded DEF Bounded, Inside
  <1>4. Between(decided.w, s, prev[s], book[s])
    BY <1>1, <1>2, <1>3, BetweenBounds
  <1>5. ASSUME action = "REBALANCE", s \in DOMAIN weights.n
        PROVE  Between(weights, s, prev[s], book[s])
    <2>1. done
      BY <1>5 DEF TargetInv, EmptyList
    <2>2. weights \in ListOver(Traded) /\ Inside(weights, Low, High)
      BY <1>1, <1>5, <2>1, ApprovedInside
    <2>3. weights.n \in [Traded -> Int] /\ weights.d \in Nat
      BY <2>2 DEF ListOver
    <2>4. weights.n[s] <= High[s] * weights.d /\ -weights.n[s] <= Low[s] * weights.d
      BY <1>5, <2>2 DEF Inside
    <2>5. weights.n[s] \in Int
      BY <1>2, <2>3
    <2>6. QED
      BY <1>1, <1>2, <2>3, <2>4, <2>5, BetweenBounds
  <1>6. QED
    BY <1>4, <1>5

-----------------------------------------------------------------------------
(* Theorems *)

\* Whatever the universe, the caps, the position and the proposals are, an
\* approved portfolio is within the cap of each symbol and the gross cap, and in
\* NORMAL within the net cap: apply_position_limits clips and scales again after
\* its turnover limit moved the weights towards the position.
THEOREM ApprovedStaysWithinLimits == TargetSpec => []ApprovedWithinLimits
  <1>1. TargetSpec => []TargetInv
    BY TargetInvariant
  <1>2. TargetInv => ApprovedWithinLimits
    BY ApprovedWithin
  <1>3. QED
    BY <1>1, <1>2, PTL

\* Under REDUCE_ONLY, finalize_risk_mode_targets approves no symbol farther from
\* flat than it is held.
THEOREM ReduceOnlyNeverEnlarges == TargetSpec => []ReduceOnlyShrinks
  <1>1. TargetSpec => []TargetInv
    BY TargetInvariant
  <1>2. TargetInv => ReduceOnlyShrinks
    BY ReduceShrinks
  <1>3. QED
    BY <1>1, <1>2, PTL

\* A NORMAL approval from a position within the limits, for a target of the whole
\* universe, is within the turnover cap: the second clipping and scaling of
\* apply_position_limits does not move a weight away from the position again.
THEOREM ApprovedTurnoverCapped == TargetSpec => []TurnoverWithinCap
  <1>1. TargetSpec => []TargetInv
    BY TargetInvariant
  <1>2. TargetInv => TurnoverWithinCap
    BY TurnoverWithin
  <1>3. QED
    BY <1>1, <1>2, PTL

\* Layer 2 of ai_decision proposes no more than its caps, the position and the
\* previous target allow, in each symbol and in sum, through every step of
\* its pipeline and for every confidence and market state.
THEOREM CandidateStaysWithinLimits == TargetSpec => []CandidateWithinLimits
  <1>1. TargetSpec => []TargetInv
    BY TargetInvariant
  <1>2. TargetInv => CandidateWithinLimits
    BY CandidateWithin
  <1>3. QED
    BY <1>1, <1>2, PTL

\* A symbol that Layer 2 closes ends between flat, the previous target and the
\* position, in the candidate and in what risk_engine approves of it.
THEOREM ClosedSymbolsOnlyShrink == TargetSpec => []ClosedNeverGrows
  <1>1. TargetSpec => []TargetInv
    BY TargetInvariant
  <1>2. TargetInv => ClosedNeverGrows
    BY ClosedShrinks
  <1>3. QED
    BY <1>1, <1>2, PTL

=============================================================================
