------------------------------- MODULE Alerts -------------------------------
(***************************************************************************)
(* Critical alerts: the reading, the level the alert engine keeps for it,  *)
(* and the take-over that covers the screen until the driver acknowledges  *)
(* it or the reading recovers.                                             *)
(*                                                                         *)
(* The UI task evaluates the engine on a snapshot of the signal store and, *)
(* in the same frame, looks at the store again to decide what stays on     *)
(* screen.  The CAN task writes the store in between, and the input, BLE   *)
(* and USB tasks ask for acknowledgements at any moment, so a pass is      *)
(* three steps here: Evaluate, Consume, Settle.                            *)
(*                                                                         *)
(* A reading is hot (past the critical limit), near (inside the hysteresis *)
(* band) or ok; an entry that timed out has none.  Sources below BuiltIns  *)
(* are the engine's own; the others are the critical alerts of the         *)
(* dashboard file.  A lower number wins the screen.                        *)
(***************************************************************************)
EXTENDS Integers, FiniteSets

CONSTANTS
  BuiltIns,    (* number of built-in sources                                *)
  Users,       (* number of configured critical alerts                      *)
  MinActive,   (* kAlertMinActiveMs, in engine ticks                        *)
  ClearHold    (* kAlertSensorLostClearHoldMs, in engine ticks              *)

ASSUME SourcesAssumption == BuiltIns \in Nat /\ Users \in Nat
ASSUME HoldsAssumption == MinActive \in Nat /\ ClearHold \in Nat

VARIABLES
  store,     (* per source, the valid reading of its signal in the store    *)
  health,    (* SensorHealth                                                *)
  hold,      (* LevelHold                                                   *)
  snap,      (* which signals were valid in the snapshot of this pass       *)
  looked,    (* the critical sources found by Consume                       *)
  shown,     (* s_criticalSources                                           *)
  acked,     (* s_acknowledgedSources                                       *)
  active,    (* s_activeSource: the source on screen                        *)
  ackReq,    (* s_ackRequested                                              *)
  ackNamed,  (* s_ackRequestedSources                                       *)
  tapped,    (* history: the source a tap was meant for, until it is taken  *)
  pc         (* where the UI task is in its pass                            *)

engine == <<health, hold>>
takeover == <<shown, acked, active>>
requests == <<ackReq, ackNamed, tapped>>
vars == <<store, engine, snap, looked, takeover, requests, pc>>

Sources == 0..(BuiltIns + Users - 1)
NoSource == -1
IsUser(s) == s >= BuiltIns

Normal == 0
Warning == 2
Critical == 3
Levels == {Normal, Warning, Critical}
Readings == {"ok", "near", "hot"}
NoReading == "none"

Higher(a, b) == IF a > b THEN a ELSE b

Nothing == [s \in Sources |-> FALSE]
Unheard == [ever |-> FALSE, lost |-> FALSE, clearing |-> 0]
Calm == [level |-> Normal, age |-> 0]

Init ==
  /\ store = [s \in Sources |-> NoReading]
  /\ health = [s \in Sources |-> Unheard]
  /\ hold = [s \in Sources |-> Calm]
  /\ snap = Nothing /\ looked = {}
  /\ shown = {} /\ acked = {} /\ active = NoSource
  /\ ackReq = FALSE /\ ackNamed = {} /\ tapped = NoSource
  /\ pc = "idle"

IsValid(s) == store[s] # NoReading

-----------------------------------------------------------------------------
(* The engine. *)

\* The level of a reading, and its level at the edges of the hysteresis band.
\* A configured alert knows no warning.
Raw(s, r) ==
  CASE r = "hot" -> Critical
    [] r = "near" /\ ~IsUser(s) -> Warning
    [] OTHER -> Normal
Sticky(r) == IF r = "ok" THEN Normal ELSE Critical

\* sensor_health_step.  clearing counts the ticks of the present run of valid
\* readings and matters only while the sensor is lost.
SensorHealthStep(h, valid) ==
  IF ~valid THEN [h EXCEPT !.lost = h.ever, !.clearing = 0]
  ELSE IF h.lost /\ h.clearing < ClearHold
    THEN [h EXCEPT !.clearing = @ + 1]
    ELSE [ever |-> TRUE, lost |-> FALSE, clearing |-> 0]

\* level_hold_step on a hold whose age is up to date: up at once, down only when
\* the band is left and the level has been there for MinActive.
LevelHoldStep(h, raw, sticky) ==
  IF raw > h.level THEN [level |-> raw, age |-> 0]
  ELSE IF sticky >= h.level \/ h.age < MinActive THEN h
  ELSE [level |-> sticky, age |-> 0]

\* Time goes on for a hold whether it is stepped or not.
Aged(h) == IF h.level = Normal \/ h.age >= MinActive THEN h ELSE [h EXCEPT !.age = @ + 1]

\* An absent reading of a built-in source counts as a healthy one; a configured
\* alert is not stepped at all without data.
HoldStep(s, valid) ==
  LET reading == IF valid THEN store[s] ELSE "ok"
      h == Aged(hold[s])
  IN
  IF IsUser(s) /\ ~valid THEN h ELSE LevelHoldStep(h, Raw(s, reading), Sticky(reading))

\* The level published for s, and its sensorLost flag.
LevelAt(s) ==
  CASE IsUser(s) /\ ~snap[s] -> Normal
    [] ~IsUser(s) /\ health[s].lost -> Higher(hold[s].level, Warning)
    [] OTHER -> hold[s].level
SensorLostAt(s) == health[s].lost

-----------------------------------------------------------------------------
(* The take-over. *)

\* A level held over a sensor that went quiet would raise the take-over.
MutIsShowable(s) == LevelAt(s) = Critical

\* isShowable, with the store as it is now.
IsShowable(s) == LevelAt(s) = Critical /\ ~(SensorLostAt(s) /\ ~IsValid(s))

NoDataSources == {s \in Sources : ~IsValid(s)}

\* What is shown goes as soon as it is not critical.
MutCriticalHold(was, critical, acknowledged, noData) == critical

\* alert_critical_hold_rs: a source on screen stays while its data is missing.
CriticalHold(was, critical, acknowledged, noData) ==
  critical \union ((was \ acknowledged) \intersect noData)

\* An acknowledgement that is never taken back.
MutRetain(acknowledged, critical) == acknowledged

Retain(acknowledged, critical) == acknowledged \intersect critical

\* The lowest source that is critical, whatever was acknowledged.
MutFirstUnacknowledged(critical, acknowledged) ==
  IF critical = {} THEN NoSource
  ELSE CHOOSE s \in critical : \A t \in critical : s <= t

\* The lowest critical source, or nothing when that one was acknowledged.
MutLowestOrNothing(critical, acknowledged) ==
  LET lowest == MutFirstUnacknowledged(critical, acknowledged)
  IN IF lowest \in acknowledged THEN NoSource ELSE lowest

FirstUnacknowledged(critical, acknowledged) ==
  LET open == critical \ acknowledged
  IN IF open = {} THEN NoSource ELSE CHOOSE s \in open : \A t \in open : s <= t

\* The empty screen is acknowledged like any source.
MutAcknowledge(acknowledged, source) == acknowledged \union {source}

\* acknowledge: no source on screen, nothing to acknowledge.
Acknowledge(acknowledged, source) ==
  IF source = NoSource THEN acknowledged ELSE acknowledged \union {source}

-----------------------------------------------------------------------------
(* The UI task: tickAlerts. *)

\* checkTimeouts, snapshotAll, AlertEngine::tick.  The take-over is updated in
\* every fifth frame or so.
Evaluate(updateIsDue) ==
  /\ pc = "idle"
  /\ \E stale \in SUBSET {s \in Sources : IsValid(s)} :
       LET valid == [s \in Sources |-> IsValid(s) /\ s \notin stale]
       IN
       /\ store' = [s \in Sources |-> IF valid[s] THEN store[s] ELSE NoReading]
       /\ health' = [s \in Sources |-> SensorHealthStep(health[s], valid[s])]
       /\ hold' = [s \in Sources |-> HoldStep(s, valid[s])]
       /\ IF updateIsDue THEN snap' = valid /\ pc' = "evaluated" ELSE UNCHANGED <<snap, pc>>
  /\ UNCHANGED <<looked, takeover, requests>>

\* The unnamed acknowledgement is left in its mailbox.
MutConsume ==
  /\ pc = "evaluated" /\ pc' = "consumed"
  /\ acked' = acked \union ackNamed
  /\ ackNamed' = {} /\ tapped' = NoSource
  /\ looked' = {s \in Sources : IsShowable(s)}
  /\ UNCHANGED <<store, engine, snap, shown, active, ackReq>>

\* consumeAcknowledge, then criticalSources.
Consume ==
  /\ pc = "evaluated" /\ pc' = "consumed"
  /\ acked' = IF ackReq THEN Acknowledge(acked \union ackNamed, active) ELSE acked \union ackNamed
  /\ ackReq' = FALSE /\ ackNamed' = {} /\ tapped' = NoSource
  /\ looked' = {s \in Sources : IsShowable(s)}
  /\ UNCHANGED <<store, engine, snap, shown, active>>

\* noDataSources and the rest of pickCriticalSource, then what is on screen.
Settle ==
  /\ pc = "consumed" /\ pc' = "idle"
  /\ shown' = CriticalHold(shown, looked, acked, NoDataSources)
  /\ acked' = Retain(acked, shown')
  /\ active' = FirstUnacknowledged(shown', acked')
  /\ snap' = Nothing /\ looked' = {}
  /\ UNCHANGED <<store, engine, requests>>

\* rearmConfigConsumers: the dashboard was reloaded, engine and take-over start over.
Reload ==
  /\ pc = "idle"
  /\ health' = [s \in Sources |-> Unheard]
  /\ hold' = [s \in Sources |-> Calm]
  /\ shown' = {} /\ acked' = {} /\ active' = NoSource
  /\ ackReq' = FALSE /\ ackNamed' = {} /\ tapped' = NoSource
  /\ UNCHANGED <<store, snap, looked, pc>>

\* A touch on the card: the click arrives on the UI task, between two passes.
Tap ==
  /\ pc = "idle" /\ active # NoSource
  /\ ackReq' = TRUE /\ tapped' = active
  /\ UNCHANGED <<store, engine, snap, looked, takeover, ackNamed, pc>>

UiStep == Evaluate(TRUE) \/ Evaluate(FALSE) \/ Consume \/ Settle

-----------------------------------------------------------------------------
(* The other tasks. *)

\* A frame is decoded on the CAN task.
Update(s, reading) ==
  /\ store' = [store EXCEPT ![s] = reading]
  /\ UNCHANGED <<engine, snap, looked, takeover, requests, pc>>

\* A button while the take-over is up, or ack_alert from the phone.
RequestAcknowledge ==
  /\ ackReq' = TRUE
  /\ UNCHANGED <<store, engine, snap, looked, takeover, ackNamed, tapped, pc>>

\* ack_alert with a source.
RequestAcknowledgeSource(s) ==
  /\ ackNamed' = ackNamed \union {s}
  /\ UNCHANGED <<store, engine, snap, looked, takeover, ackReq, tapped, pc>>

Next ==
  \/ UiStep \/ Reload \/ Tap \/ RequestAcknowledge
  \/ \E s \in Sources :
       RequestAcknowledgeSource(s) \/ \E reading \in Readings : Update(s, reading)

Spec == Init /\ [][Next]_vars

\* The UI task runs for ever, and the period of the take-over elapses again and again.
FairSpec == Spec /\ WF_vars(Evaluate(TRUE)) /\ WF_vars(Consume) /\ WF_vars(Settle)

-----------------------------------------------------------------------------
(* Properties. *)

\* Types.
TypeOK ==
  /\ store \in [Sources -> Readings \union {NoReading}]
  /\ health \in [Sources -> [ever : BOOLEAN, lost : BOOLEAN, clearing : 0..ClearHold]]
  /\ hold \in [Sources -> [level : Levels, age : 0..MinActive]]
  /\ snap \in [Sources -> BOOLEAN]
  /\ looked \subseteq Sources /\ shown \subseteq Sources /\ acked \subseteq Sources
  /\ active \in Sources \union {NoSource}
  /\ ackReq \in BOOLEAN /\ ackNamed \subseteq Sources
  /\ tapped \in Sources \union {NoSource}
  /\ pc \in {"idle", "evaluated", "consumed"}

\* An acknowledgement ends with the alert it was given for: between two passes
\* nothing is acknowledged that is not critical, so the next time the source trips it
\* is shown again.
AckEndsWithAlert == pc = "idle" => acked \subseteq shown

\* Between two passes the screen owes the driver nothing: something is on it exactly
\* when an alert is open, and what is on it is neither acknowledged nor over.
ScreenIsOwed ==
  pc = "idle" =>
    /\ active # NoSource => active \in shown \ acked
    /\ shown \ acked # {} => active # NoSource

\* The snapshot had a live reading of s that is not critical.
Recovered(s) == snap[s] /\ LevelAt(s) # Critical
\* The reading of s came back after the pass had found it missing.
CameBack(s) == ~snap[s] /\ IsValid(s)

\* A source leaves the take-over only when it was acknowledged, when a live reading is
\* below the limit, or on a config reload: never because its data stopped.  The one
\* exception is a reading that comes back between the two looks at the store.
LostDataKeepsTakeover ==
  [][Settle => \A s \in shown \ shown' : s \in acked \/ Recovered(s) \/ CameBack(s)]_vars

\* Missing data raises no alert: a source comes up only while the store has a reading
\* of it, even though the engine goes on holding the level of a lost one.
NoDataRaisesNothing ==
  [][Settle => \A s \in shown' \ shown : IsValid(s)]_vars

\* A touch acknowledges the alert the driver saw: no pass changes the screen between
\* the touch and the pass that takes it.
TapIsHeard == [][Consume /\ tapped # NoSource => tapped \in acked']_vars

\* An alert that stays on reaches the driver: as long as a reading stays hot, the
\* take-over keeps coming back until that source is acknowledged.
AlertReachesDriver ==
  \A s \in Sources :
    <>[](store[s] = "hot" /\ s \notin acked) => []<>(active # NoSource)
=============================================================================
