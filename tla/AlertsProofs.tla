---------------------------- MODULE AlertsProofs ----------------------------
(* Proofs about Alerts, for any number of sources and any hold times. *)
EXTENDS Alerts, WellFoundedInduction, TLAPS

\* Only a signal that was heard once is lost, and only it has a level.
HeardFirst ==
  \A s \in Sources : health[s].lost \/ hold[s].level # Normal => health[s].ever

\* What the pass found valid is still in the store, what it found missing was lost then.
SnapIsKept ==
  pc # "idle" => \A s \in Sources :
    /\ snap[s] => IsValid(s)
    /\ ~snap[s] => health[s].lost = health[s].ever

\* The critical sources found by Consume have a reading, and no critical reading of the
\* snapshot was overlooked.
LookIsSound ==
  pc = "consumed" => \A s \in Sources :
    /\ s \in looked => IsValid(s)
    /\ snap[s] /\ LevelAt(s) = Critical => s \in looked

\* A touch waits in the mailbox while the card it was meant for is on screen.
TouchWaits ==
  /\ tapped # NoSource => ackReq /\ active = tapped
  /\ pc = "consumed" => tapped = NoSource

IInv == TypeOK /\ HeardFirst /\ SnapIsKept /\ LookIsSound /\ TouchWaits
-----------------------------------------------------------------------------
\* A non-empty set of naturals has a least member.
LEMMA LeastOne ==
  ASSUME NEW S \in SUBSET Nat, S # {}
  PROVE  \E s \in S : \A t \in S : s <= t
<1>1. PICK s \in S : \A t \in S : ~(<<t, s>> \in OpToRel(<, Nat))
  BY NatLessThanWellFounded, WFMin
<1>2. ASSUME NEW t \in S
      PROVE  s <= t
  <2>1. s \in Nat /\ t \in Nat
    OBVIOUS
  <2>2. ~(t < s)
    BY <1>1, <2>1 DEF OpToRel
  <2>q. QED
    BY <2>1, <2>2
<1>q. QED
  BY <1>2

\* A source on screen is the lowest one that is open.
LEMMA FirstIsOpen ==
  ASSUME NEW c \in SUBSET Sources, NEW a \in SUBSET Sources
  PROVE  IF c \ a = {} THEN FirstUnacknowledged(c, a) = NoSource
                       ELSE FirstUnacknowledged(c, a) \in c \ a
<1>1. CASE c \ a = {}
  BY <1>1 DEF FirstUnacknowledged
<1>2. CASE c \ a # {}
  <2>1. c \ a \in SUBSET Nat
    BY SourcesAssumption DEF Sources
  <2>2. \E s \in c \ a : \A t \in c \ a : s <= t
    BY <1>2, <2>1, LeastOne
  <2>q. QED
    BY <1>2, <2>2 DEF FirstUnacknowledged
<1>q. QED
  BY <1>1, <1>2

HealthStates == [ever : BOOLEAN, lost : BOOLEAN, clearing : 0..ClearHold]

\* What a step does to the flags of a sensor.
LEMMA HealthFlags ==
  ASSUME NEW h \in HealthStates, NEW v \in BOOLEAN
  PROVE  /\ ~v => SensorHealthStep(h, v).lost = h.ever
         /\ ~v => SensorHealthStep(h, v).ever = h.ever
         /\ (h.lost => h.ever) /\ v => SensorHealthStep(h, v).ever
  BY DEF SensorHealthStep, HealthStates

\* A step keeps the type of a sensor's health.
LEMMA HealthType ==
  ASSUME NEW h \in HealthStates, NEW v \in BOOLEAN
  PROVE  SensorHealthStep(h, v) \in HealthStates
<1>0. h = [ever |-> h.ever, lost |-> h.lost, clearing |-> h.clearing]
      /\ h.ever \in BOOLEAN /\ h.lost \in BOOLEAN /\ h.clearing \in 0..ClearHold
  BY DEF HealthStates
<1> USE HoldsAssumption
<1>1. CASE ~v
  <2>1. SensorHealthStep(h, v) = [ever |-> h.ever, lost |-> h.ever, clearing |-> 0]
    BY <1>0, <1>1 DEF SensorHealthStep
  <2>2. [ever |-> h.ever, lost |-> h.ever, clearing |-> 0] \in HealthStates
    BY <1>0 DEF HealthStates
  <2>q. QED
    BY <2>1, <2>2, Zenon
<1>2. CASE v /\ h.lost /\ h.clearing < ClearHold
  <2>1. SensorHealthStep(h, v) = [ever |-> h.ever, lost |-> h.lost, clearing |-> h.clearing + 1]
    BY <1>0, <1>2 DEF SensorHealthStep
  <2>2. [ever |-> h.ever, lost |-> h.lost, clearing |-> h.clearing + 1] \in HealthStates
    BY <1>0, <1>2 DEF HealthStates
  <2>q. QED
    BY <2>1, <2>2, Zenon
<1>3. CASE v /\ ~(h.lost /\ h.clearing < ClearHold)
  <2>1. SensorHealthStep(h, v) = [ever |-> TRUE, lost |-> FALSE, clearing |-> 0]
    BY <1>3 DEF SensorHealthStep
  <2>2. [ever |-> TRUE, lost |-> FALSE, clearing |-> 0] \in HealthStates
    BY DEF HealthStates
  <2>q. QED
    BY <2>1, <2>2, Zenon
<1>q. QED
  BY <1>1, <1>2, <1>3

\* A held level moves only to one of the two levels of the reading.
LEMMA HoldType ==
  ASSUME NEW h \in [level : Levels, age : 0..MinActive], NEW r \in Levels, NEW t \in Levels
  PROVE  /\ Aged(h) \in [level : Levels, age : 0..MinActive]
         /\ Aged(h).level = h.level
         /\ LevelHoldStep(h, r, t) \in [level : Levels, age : 0..MinActive]
         /\ LevelHoldStep(h, r, t).level \in {h.level, r, t}
  BY HoldsAssumption DEF Aged, LevelHoldStep, Levels

\* A missing reading raises no level.
LEMMA HoldStepType ==
  ASSUME TypeOK, NEW s \in Sources, NEW v \in BOOLEAN, v => IsValid(s)
  PROVE  /\ HoldStep(s, v) \in [level : Levels, age : 0..MinActive]
         /\ ~v => HoldStep(s, v).level \in {hold[s].level, Normal}
<1> DEFINE reading == IF v THEN store[s] ELSE "ok"
<1>1. hold[s] \in [level : Levels, age : 0..MinActive] /\ reading \in Readings
  BY DEF TypeOK, IsValid, Readings, NoReading
<1>2. Raw(s, reading) \in Levels /\ Sticky(reading) \in Levels
  BY <1>1 DEF Raw, Sticky, Levels, Readings
<1>3. ~v => Raw(s, reading) = Normal /\ Sticky(reading) = Normal
  BY DEF Raw, Sticky
<1>4. Aged(hold[s]) \in [level : Levels, age : 0..MinActive] /\ Aged(hold[s]).level = hold[s].level
  BY <1>1, <1>2, HoldType
<1>5. LevelHoldStep(Aged(hold[s]), Raw(s, reading), Sticky(reading))
        \in [level : Levels, age : 0..MinActive]
  BY <1>2, <1>4, HoldType
<1>6. LevelHoldStep(Aged(hold[s]), Raw(s, reading), Sticky(reading)).level
        \in {hold[s].level, Raw(s, reading), Sticky(reading)}
  BY <1>2, <1>4, HoldType
<1>7. HoldStep(s, v) = IF IsUser(s) /\ ~v THEN Aged(hold[s])
                       ELSE LevelHoldStep(Aged(hold[s]), Raw(s, reading), Sticky(reading))
  BY DEF HoldStep
<1> HIDE DEF reading
<1>q. QED
  BY <1>3, <1>4, <1>5, <1>6, <1>7

\* A critical level needs a reading that is there or a sensor that is lost.
LEMMA CriticalIsSeen ==
  ASSUME TypeOK, HeardFirst, SnapIsKept, pc = "evaluated", NEW s \in Sources, IsShowable(s)
  PROVE  IsValid(s)
<1> SUFFICES ASSUME ~IsValid(s) PROVE FALSE
  OBVIOUS
<1>1. ~snap[s] /\ health[s].lost = health[s].ever /\ LevelAt(s) = Critical /\ ~health[s].lost
  BY DEF SnapIsKept, IsShowable, SensorLostAt
<1>2. hold[s].level = Normal
  BY <1>1 DEF HeardFirst
<1>3. LevelAt(s) = Normal
  BY <1>1, <1>2 DEF LevelAt
<1>q. QED
  BY <1>1, <1>3 DEF Normal, Critical

LEMMA InitInv == Init => IInv
<1> SUFFICES ASSUME Init PROVE IInv
  OBVIOUS
<1> USE HoldsAssumption
<1>1. Unheard \in HealthStates /\ Calm \in [level : Levels, age : 0..MinActive]
  BY DEF Unheard, Calm, HealthStates, Levels, Normal
<1>2. health \in [Sources -> HealthStates] /\ hold \in [Sources -> [level : Levels, age : 0..MinActive]]
  BY <1>1 DEF Init
<1>3. TypeOK
  BY <1>2 DEF Init, TypeOK, HealthStates, Nothing
<1>4. HeardFirst
  BY DEF Init, HeardFirst, Unheard, Calm, Normal
<1>q. QED
  BY <1>3, <1>4 DEF Init, IInv, SnapIsKept, LookIsSound, TouchWaits

LEMMA EvaluateInv ==
  ASSUME IInv, NEW due \in BOOLEAN, Evaluate(due)
  PROVE  IInv'
<1>1. PICK stale \in SUBSET {s \in Sources : IsValid(s)} :
        LET valid == [s \in Sources |-> IsValid(s) /\ s \notin stale]
        IN
        /\ store' = [s \in Sources |-> IF valid[s] THEN store[s] ELSE NoReading]
        /\ health' = [s \in Sources |-> SensorHealthStep(health[s], valid[s])]
        /\ hold' = [s \in Sources |-> HoldStep(s, valid[s])]
        /\ IF due THEN snap' = valid /\ pc' = "evaluated" ELSE UNCHANGED <<snap, pc>>
  BY DEF Evaluate
<1> DEFINE valid == [s \in Sources |-> IsValid(s) /\ s \notin stale]
<1>2. \A s \in Sources : valid[s] \in BOOLEAN /\ (valid[s] => IsValid(s))
  BY DEF IsValid
<1>3. TypeOK /\ pc = "idle" /\ UNCHANGED <<looked, takeover, requests>>
  BY DEF IInv, Evaluate
<1>4. \A s \in Sources : health[s] \in HealthStates
  BY <1>3 DEF TypeOK, HealthStates
<1> HIDE DEF valid
<1>5. \A s \in Sources : SensorHealthStep(health[s], valid[s]) \in HealthStates
  BY <1>2, <1>4, HealthType
<1>6. \A s \in Sources : /\ HoldStep(s, valid[s]) \in [level : Levels, age : 0..MinActive]
                         /\ ~valid[s] => HoldStep(s, valid[s]).level \in {hold[s].level, Normal}
  BY <1>2, <1>3, HoldStepType
<1>7. /\ store' = [s \in Sources |-> IF valid[s] THEN store[s] ELSE NoReading]
      /\ health' = [s \in Sources |-> SensorHealthStep(health[s], valid[s])]
      /\ hold' = [s \in Sources |-> HoldStep(s, valid[s])]
      /\ \/ snap' = valid /\ pc' = "evaluated"
         \/ UNCHANGED <<snap, pc>>
  BY <1>1 DEF valid
<1>8. valid \in [Sources -> BOOLEAN]
  BY <1>2 DEF valid
<1>9. TypeOK'
  <2>1. health' \in [Sources -> HealthStates]
    BY <1>5, <1>7
  <2>2. hold' \in [Sources -> [level : Levels, age : 0..MinActive]]
    BY <1>6, <1>7
  <2>3. store' \in [Sources -> Readings \union {NoReading}]
    BY <1>3, <1>7 DEF TypeOK
  <2>4. snap' \in [Sources -> BOOLEAN] /\ pc' \in {"idle", "evaluated", "consumed"}
    BY <1>3, <1>7, <1>8 DEF TypeOK
  <2>q. QED
    BY <1>3, <2>1, <2>2, <2>3, <2>4 DEF TypeOK, HealthStates, takeover, requests
<1>10. HeardFirst'
  <2> SUFFICES ASSUME NEW s \in Sources, health'[s].lost \/ hold'[s].level # Normal
               PROVE  health'[s].ever
    BY DEF HeardFirst
  <2>1. health'[s] = SensorHealthStep(health[s], valid[s]) /\ hold'[s] = HoldStep(s, valid[s])
    BY <1>7
  <2>2. health[s].lost \/ hold[s].level # Normal => health[s].ever
    BY DEF IInv, HeardFirst
  <2>3. CASE valid[s]
    BY <1>2, <1>4, <2>1, <2>2, <2>3, HealthFlags
  <2>4. CASE ~valid[s]
    <3>1. health'[s].lost = health[s].ever /\ health'[s].ever = health[s].ever
      BY <1>2, <1>4, <2>1, <2>4, HealthFlags
    <3>2. hold'[s].level \in {hold[s].level, Normal}
      BY <1>6, <2>1, <2>4
    <3>q. QED
      BY <2>2, <3>1, <3>2
  <2>q. QED
    BY <2>3, <2>4
<1>11. SnapIsKept'
  <2> SUFFICES ASSUME pc' # "idle", NEW s \in Sources
               PROVE  /\ snap'[s] => IsValid(s)'
                      /\ ~snap'[s] => health'[s].lost = health'[s].ever
    BY DEF SnapIsKept
  <2>1. snap' = valid
    BY <1>3, <1>7
  <2>2. valid[s] => store'[s] = store[s] /\ IsValid(s)
    BY <1>2, <1>7
  <2>3. ~valid[s] => health'[s].lost = health'[s].ever
    BY <1>2, <1>4, <1>7, HealthFlags
  <2>q. QED
    BY <2>1, <2>2, <2>3 DEF IsValid
<1>12. LookIsSound' /\ TouchWaits'
  BY <1>3, <1>7 DEF IInv, LookIsSound, TouchWaits, takeover, requests
<1>q. QED
  BY <1>9, <1>10, <1>11, <1>12 DEF IInv

LEMMA ConsumeInv ==
  ASSUME IInv, Consume
  PROVE  IInv'
<1> USE DEF IInv
<1>1. pc = "evaluated" /\ pc' = "consumed" /\ looked' = {s \in Sources : IsShowable(s)}
      /\ UNCHANGED <<store, health, hold, snap, shown, active>>
  BY DEF Consume, engine
<1>2. acked' \subseteq Sources
  BY DEF Consume, TypeOK, Acknowledge, NoSource
<1>3. TypeOK'
  BY <1>1, <1>2 DEF Consume, TypeOK
<1>4. HeardFirst' /\ SnapIsKept'
  BY <1>1 DEF HeardFirst, SnapIsKept, IsValid
<1>5. LookIsSound'
  <2> SUFFICES ASSUME NEW s \in Sources
               PROVE  /\ s \in looked' => IsValid(s)'
                      /\ snap'[s] /\ LevelAt(s)' = Critical => s \in looked'
    BY DEF LookIsSound
  <2>1. IsValid(s)' = IsValid(s) /\ LevelAt(s)' = LevelAt(s) /\ snap' = snap
    BY <1>1 DEF IsValid, LevelAt
  <2>2. s \in looked' <=> IsShowable(s)
    BY <1>1
  <2>3. IsShowable(s) => IsValid(s)
    BY <1>1, CriticalIsSeen
  <2>4. snap[s] /\ LevelAt(s) = Critical => IsShowable(s)
    BY <1>1 DEF SnapIsKept, IsShowable
  <2>q. QED
    BY <2>1, <2>2, <2>3, <2>4
<1>6. TouchWaits'
  BY <1>1 DEF Consume, TouchWaits
<1>q. QED
  BY <1>3, <1>4, <1>5, <1>6

\* What a pass leaves in the take-over.
LEMMA SettleResult ==
  ASSUME IInv, Settle
  PROVE  /\ shown' \subseteq Sources /\ acked' \subseteq shown'
         /\ IF shown' \ acked' = {} THEN active' = NoSource ELSE active' \in shown' \ acked'
<1>1. shown' \subseteq Sources
  BY DEF IInv, TypeOK, Settle, CriticalHold
<1>2. acked' \subseteq shown'
  BY DEF Settle, Retain
<1>q. QED
  BY <1>1, <1>2, FirstIsOpen DEF Settle

LEMMA SettleInv ==
  ASSUME IInv, Settle
  PROVE  IInv'
<1> USE DEF IInv
<1>1. pc = "consumed" /\ pc' = "idle" /\ snap' = Nothing /\ looked' = {}
      /\ UNCHANGED <<store, health, hold, ackReq, ackNamed, tapped>>
  BY DEF Settle, engine, requests
<1>2. TypeOK'
  <2>1. snap' \in [Sources -> BOOLEAN]
    BY <1>1 DEF Nothing
  <2>2. active' \in Sources \union {NoSource}
    BY SettleResult
  <2>3. acked' \subseteq Sources /\ shown' \subseteq Sources
    BY SettleResult
  <2>q. QED
    BY <1>1, <2>1, <2>2, <2>3 DEF TypeOK
<1>3. HeardFirst' /\ SnapIsKept' /\ LookIsSound'
  BY <1>1 DEF HeardFirst, SnapIsKept, LookIsSound
<1>4. TouchWaits'
  BY <1>1 DEF TouchWaits
<1>q. QED
  BY <1>2, <1>3, <1>4

LEMMA ReloadInv ==
  ASSUME IInv, Reload
  PROVE  IInv'
<1> USE DEF IInv
<1> USE HoldsAssumption
<1>1. Unheard \in HealthStates /\ Calm \in [level : Levels, age : 0..MinActive]
  BY DEF Unheard, Calm, HealthStates, Levels, Normal
<1>2. health' \in [Sources -> HealthStates] /\ hold' \in [Sources -> [level : Levels, age : 0..MinActive]]
  BY <1>1 DEF Reload
<1>3. TypeOK'
  BY <1>2 DEF Reload, TypeOK, HealthStates
<1>4. HeardFirst'
  BY DEF Reload, HeardFirst, Unheard, Calm, Normal
<1>q. QED
  BY <1>3, <1>4 DEF Reload, SnapIsKept, LookIsSound, TouchWaits

\* Requests touch the mailbox only.
LEMMA RequestInv ==
  ASSUME IInv, Tap \/ RequestAcknowledge \/ \E s \in Sources : RequestAcknowledgeSource(s)
  PROVE  IInv'
<1> USE DEF IInv
<1>1. UNCHANGED <<store, health, hold, snap, looked, shown, acked, active, pc>>
  BY DEF Tap, RequestAcknowledge, RequestAcknowledgeSource, engine, takeover
<1>2. /\ ackReq' \in BOOLEAN /\ ackNamed' \subseteq Sources
      /\ tapped' \in Sources \union {NoSource}
  BY DEF TypeOK, Tap, RequestAcknowledge, RequestAcknowledgeSource
<1>3. TypeOK'
  BY <1>1, <1>2 DEF TypeOK
<1>4. HeardFirst' /\ SnapIsKept' /\ LookIsSound'
  BY <1>1 DEF HeardFirst, SnapIsKept, LookIsSound, IsValid, LevelAt
<1>5. TouchWaits'
  BY <1>1 DEF TouchWaits, Tap, RequestAcknowledge, RequestAcknowledgeSource
<1>q. QED
  BY <1>3, <1>4, <1>5

LEMMA UpdateInv ==
  ASSUME IInv, NEW s \in Sources, NEW reading \in Readings, Update(s, reading)
  PROVE  IInv'
<1> USE DEF IInv
<1>1. /\ store' = [store EXCEPT ![s] = reading]
      /\ UNCHANGED <<health, hold, snap, looked, shown, acked, active, ackReq, ackNamed, tapped, pc>>
  BY DEF Update, engine, takeover, requests
<1>2. TypeOK'
  BY <1>1 DEF TypeOK
<1>3. \A t \in Sources : IsValid(t) => IsValid(t)'
  BY <1>1 DEF IsValid, TypeOK, Readings, NoReading
<1>4. \A t \in Sources : LevelAt(t)' = LevelAt(t)
  BY <1>1 DEF LevelAt
<1>5. HeardFirst' /\ SnapIsKept' /\ LookIsSound' /\ TouchWaits'
  BY <1>1, <1>3, <1>4 DEF HeardFirst, SnapIsKept, LookIsSound, TouchWaits
<1>q. QED
  BY <1>2, <1>5

LEMMA NextInv == IInv /\ [Next]_vars => IInv'
<1> SUFFICES ASSUME IInv, [Next]_vars PROVE IInv'
  OBVIOUS
<1>1. CASE \E due \in BOOLEAN : Evaluate(due)
  BY <1>1, EvaluateInv
<1>2. CASE Consume
  BY <1>2, ConsumeInv
<1>3. CASE Settle
  BY <1>3, SettleInv
<1>4. CASE Reload
  BY <1>4, ReloadInv
<1>5. CASE Tap \/ RequestAcknowledge \/ \E s \in Sources : RequestAcknowledgeSource(s)
  BY <1>5, RequestInv
<1>6. CASE \E s \in Sources, reading \in Readings : Update(s, reading)
  BY <1>6, UpdateInv
<1>7. CASE UNCHANGED vars
  BY <1>7 DEF vars, engine, takeover, requests, IInv, TypeOK, HeardFirst, SnapIsKept,
              LookIsSound, TouchWaits, IsValid, LevelAt
<1>q. QED
  BY <1>1, <1>2, <1>3, <1>4, <1>5, <1>6, <1>7 DEF Next, UiStep

LEMMA Invariance == Spec => []IInv
  BY InitInv, NextInv, PTL DEF Spec
-----------------------------------------------------------------------------
\* Types, for any number of sources.
THEOREM TypeCorrect == Spec => []TypeOK
<1>1. IInv => TypeOK
  BY DEF IInv
<1>q. QED
  BY <1>1, Invariance, PTL

\* An acknowledgement ends with its alert, and between two passes the screen shows an
\* open alert whenever there is one.
BetweenPasses == AckEndsWithAlert /\ ScreenIsOwed

LEMMA InitBetween == Init => BetweenPasses
  BY DEF Init, BetweenPasses, AckEndsWithAlert, ScreenIsOwed

LEMMA NextBetween == IInv /\ BetweenPasses /\ [Next]_vars => BetweenPasses'
<1> SUFFICES ASSUME IInv, BetweenPasses, [Next]_vars PROVE BetweenPasses'
  OBVIOUS
<1> USE DEF BetweenPasses, AckEndsWithAlert, ScreenIsOwed
<1>1. CASE Settle
  <2>1. acked' \subseteq shown'
    BY <1>1, SettleResult
  <2>2. active' # NoSource => active' \in shown' \ acked'
    BY <1>1, SettleResult
  <2>3. shown' \ acked' # {} => active' # NoSource
    <3>1. NoSource \notin shown'
      BY <1>1, SettleResult, SourcesAssumption DEF Sources, NoSource
    <3>q. QED
      BY <1>1, <3>1, SettleResult
  <2>q. QED
    BY <2>1, <2>2, <2>3
<1>2. CASE Consume
  BY <1>2 DEF Consume
<1>3. CASE Reload
  BY <1>3 DEF Reload
<1>4. CASE (pc' = "idle" => pc = "idle") /\ UNCHANGED takeover
  BY <1>4 DEF takeover
<1>q. QED
  <2>1. ASSUME NEW due \in BOOLEAN, Evaluate(due)
        PROVE  (pc' = "idle" => pc = "idle") /\ UNCHANGED takeover
    BY <2>1 DEF Evaluate
  <2>2. ASSUME \/ Tap \/ RequestAcknowledge \/ UNCHANGED vars
               \/ \E s \in Sources : RequestAcknowledgeSource(s)
               \/ \E s \in Sources, reading \in Readings : Update(s, reading)
        PROVE  pc' = pc /\ UNCHANGED takeover
    BY <2>2 DEF Tap, RequestAcknowledge, RequestAcknowledgeSource, Update, vars, takeover
  <2>q. QED
    BY <1>1, <1>2, <1>3, <1>4, <2>1, <2>2 DEF Next, UiStep

\* The acknowledged sources are critical ones between two passes: what a driver
\* acknowledged once is shown again when it trips again.
THEOREM AckEnds == Spec => []AckEndsWithAlert
<1>1. BetweenPasses => AckEndsWithAlert
  BY DEF BetweenPasses
<1>q. QED
  BY <1>1, Invariance, InitBetween, NextBetween, PTL DEF Spec

\* Something is on screen exactly while an alert is open.
THEOREM ScreenOwed == Spec => []ScreenIsOwed
<1>1. BetweenPasses => ScreenIsOwed
  BY DEF BetweenPasses
<1>q. QED
  BY <1>1, Invariance, InitBetween, NextBetween, PTL DEF Spec

\* A take-over is not ended by a signal that stops.
THEOREM LostDataKeeps == Spec => LostDataKeepsTakeover
<1>1. ASSUME IInv, Settle, NEW s \in shown \ shown'
      PROVE  s \in acked \/ Recovered(s) \/ CameBack(s)
  <2>1. s \in Sources /\ pc = "consumed"
    BY <1>1 DEF IInv, TypeOK, Settle
  <2>2. s \notin looked /\ ~(s \notin acked /\ ~IsValid(s))
    BY <1>1, <2>1 DEF Settle, CriticalHold, NoDataSources
  <2>3. snap[s] => LevelAt(s) # Critical
    BY <1>1, <2>1, <2>2 DEF IInv, LookIsSound
  <2>q. QED
    BY <2>2, <2>3 DEF Recovered, CameBack
<1>2. IInv => [Settle => \A s \in shown \ shown' : s \in acked \/ Recovered(s) \/ CameBack(s)]_vars
  BY <1>1
<1>q. QED
  BY <1>2, Invariance, PTL DEF LostDataKeepsTakeover

\* A take-over comes up only on a reading the store has.
THEOREM NoDataRaises == Spec => NoDataRaisesNothing
<1>1. ASSUME IInv, Settle, NEW s \in shown' \ shown
      PROVE  IsValid(s)
  <2>1. s \in looked /\ pc = "consumed"
    BY <1>1 DEF Settle, CriticalHold
  <2>2. s \in Sources
    BY <1>1, <2>1 DEF IInv, TypeOK
  <2>q. QED
    BY <1>1, <2>1, <2>2 DEF IInv, LookIsSound
<1>2. IInv => [Settle => \A s \in shown' \ shown : IsValid(s)]_vars
  BY <1>1
<1>q. QED
  BY <1>2, Invariance, PTL DEF NoDataRaisesNothing

\* The next pass takes a touch for the alert that was on screen when it was made.
THEOREM TapHeard == Spec => TapIsHeard
<1>1. ASSUME IInv, Consume, tapped # NoSource
      PROVE  tapped \in acked'
  <2>1. ackReq /\ active = tapped
    BY <1>1 DEF IInv, TouchWaits
  <2>q. QED
    BY <1>1, <2>1 DEF Consume, Acknowledge
<1>2. IInv => [Consume /\ tapped # NoSource => tapped \in acked']_vars
  BY <1>1
<1>q. QED
  BY <1>2, Invariance, PTL DEF TapIsHeard
=============================================================================
