------------------------------- MODULE CanBus -------------------------------
(***************************************************************************)
(* The CAN task and its driver: installation with retries, bus-off         *)
(* recovery, the bus scan that borrows the driver, and the exchange of     *)
(* trouble codes with the engine computer.                                 *)
(*                                                                         *)
(* Three tasks share this state through flags: the CAN task owns the       *)
(* driver, the USB task asks for scans and exchanges, and an init task     *)
(* that was given up may still install the driver later.  Time is          *)
(* abstract: a window, a deadline or a retry period elapses at any moment. *)
(***************************************************************************)
EXTENDS Integers, FiniteSets

CONSTANTS
  Rates,          (* BUS_SCAN_RATE_COUNT                                    *)
  MaxRetries,     (* kTwaiInitMaxRetries                                    *)
  MaxRecoveries,  (* MAX_BUS_OFF_RECOVERIES                                 *)
  MaxFaults       (* bound: driver calls that fail for no visible reason    *)

ASSUME CountsAssumption ==
  /\ Rates \in Nat \ {0} /\ MaxRetries \in Nat
  /\ MaxRecoveries \in Nat /\ MaxFaults \in Nat

VARIABLES
  drv,        (* state of the TWAI driver                                   *)
  mode,       (* the mode it was installed in                               *)
  installed,  (* s_twaiInstalled                                            *)
  attempts,   (* s_retryAttempts                                            *)
  down,       (* s_permanentlyDownWarned                                    *)
  lateInit,   (* an init task nobody waits for any more                     *)
  recoveries, (* s_busOffRecoveries                                         *)
  requested,  (* s_requested                                                *)
  running,    (* s_running                                                  *)
  driverUp,   (* s_driverUp                                                 *)
  phase,      (* BusScan.phase                                              *)
  probe,      (* BusScan.probe_index                                        *)
  pending,    (* s_pending: the exchange under way                          *)
  responded,  (* s_responded                                                *)
  held,       (* the pending exchange the CAN task has read in onRxFrame    *)
  owed,       (* history: the host waits for the reply to a command         *)
  wire,       (* requests and replies under way on the bus                  *)
  pc,         (* where the CAN task is                                      *)
  usb,        (* where the USB task is                                      *)
  faults      (* faults so far                                              *)

driver == <<drv, mode>>
install == <<installed, attempts, down, lateInit>>
scan == <<requested, running, driverUp, phase, probe>>
exchange == <<pending, responded, held, owed, wire>>
vars == <<driver, install, recoveries, scan, exchange, pc, usb, faults>>

Kinds == {"read", "clear"}
Frames == {"request", "reply"} \X Kinds

Init ==
  /\ drv = "none" /\ mode = "normal"
  /\ installed = FALSE /\ attempts = 0 /\ down = FALSE /\ lateInit = FALSE
  /\ recoveries = 0
  /\ requested = FALSE /\ running = FALSE /\ driverUp = FALSE
  /\ phase = "idle" /\ probe = 1
  /\ pending = "none" /\ responded = FALSE /\ held = "none" /\ owed = FALSE /\ wire = {}
  /\ pc = "boot" /\ usb = "idle" /\ faults = 0

ClaimsBus == requested \/ running

-----------------------------------------------------------------------------
(* What the driver calls can do.  An outcome is the driver they leave, whether *)
(* they reported success, s_driverUp after them, and the faults they spent.  *)

Outcome(ok, d, m, up, bad) == [ok |-> ok, drv |-> d, mode |-> m, up |-> up, bad |-> bad]

\* stopOnThisCore.  Stopping twice is no error; the driver lets itself be uninstalled
\* when it is stopped or off the bus, not while it recovers.
Stopped(d, m) ==
  IF d \in {"none", "recovering"} THEN {Outcome(FALSE, d, m, TRUE, 0)}
  ELSE {Outcome(TRUE, "none", m, FALSE, 0), Outcome(FALSE, d, m, TRUE, 1)}
       \union {Outcome(FALSE, "stopped", m, TRUE, 1) : x \in {d} \intersect {"running"}}

\* startDriver: a start that fails leaves the driver installed.
Started(d, m, new) ==
  IF d # "none" THEN {Outcome(FALSE, d, m, FALSE, 0)}
  ELSE {Outcome(TRUE, "running", new, TRUE, 0), Outcome(FALSE, "none", m, FALSE, 1),
        Outcome(FALSE, "stopped", new, FALSE, 1)}

\* releaseDriver
Released(d, m, up) == IF up THEN Stopped(d, m) ELSE {Outcome(TRUE, d, m, FALSE, 0)}

\* installListenOnly and restoreDriver: release, then start in the other mode.
Switched(d, m, up, new) ==
  UNION {IF r.ok THEN {[s EXCEPT !.bad = @ + r.bad] : s \in Started(r.drv, r.mode, new)} ELSE {r}
         : r \in Released(d, m, up)}

Leaves(o) == drv' = o.drv /\ mode' = o.mode
Spend(bad) == faults + bad <= MaxFaults /\ faults' = faults + bad

-----------------------------------------------------------------------------
(* Installation. *)

\* installOnCore0: the init task succeeds, fails, or is not waited for any longer.
InstallOnCore0 ==
  \/ /\ \E o \in Started(drv, mode, "normal") :
          Leaves(o) /\ Spend(o.bad) /\ installed' = o.ok
     /\ lateInit' = FALSE
  \/ /\ lateInit' = TRUE /\ Spend(1)
     /\ UNCHANGED <<driver, installed>>

\* initHardware at boot, before the CAN task starts.
BootInit ==
  /\ pc = "boot" /\ pc' = "tick"
  /\ InstallOnCore0
  /\ UNCHANGED <<attempts, down, recoveries, scan, exchange, usb>>

\* tickInitRetry.  The init task has one stack: spawning it again takes it away from
\* one that is still at work.
TickInitRetry ==
  /\ pc = "tick" /\ ~installed /\ attempts < MaxRetries
  /\ attempts' = attempts + 1
  /\ InstallOnCore0
  /\ UNCHANGED <<down, recoveries, scan, exchange, pc, usb>>

\* Spawning over a task at work may also end in a panic: the dash restarts.
PanicOnSpawn ==
  /\ pc = "tick" /\ ~installed /\ attempts < MaxRetries /\ lateInit
  /\ drv' = "none" /\ mode' = "normal"
  /\ attempts' = 0 /\ down' = FALSE /\ lateInit' = FALSE
  /\ recoveries' = 0
  /\ requested' = FALSE /\ driverUp' = FALSE /\ phase' = "idle" /\ probe' = 1
  /\ pending' = "none" /\ responded' = FALSE /\ held' = "none" /\ owed' = FALSE
  /\ pc' = "boot" /\ usb' = "idle"
  /\ UNCHANGED <<installed, running, wire, faults>>

WarnPermanentlyDown ==
  /\ pc = "tick" /\ ~installed /\ attempts = MaxRetries /\ ~down
  /\ down' = TRUE
  /\ UNCHANGED <<driver, installed, attempts, lateInit, recoveries, scan, exchange, pc, usb, faults>>

\* twaiInitTaskFn, after the task that waited for it has left.
LateInit ==
  /\ lateInit /\ lateInit' = FALSE
  /\ \E o \in Started(drv, mode, "normal") :
       Leaves(o) /\ Spend(o.bad) /\ installed' = (installed \/ o.ok)
  /\ UNCHANGED <<attempts, down, recoveries, scan, exchange, pc, usb>>

-----------------------------------------------------------------------------
(* Bus-off recovery: superviseBus, once in a stats window. *)

AtBus == pc = "tick" /\ installed /\ ~ClaimsBus

\* Gives up in every window.
MutBusAction ==
  CASE drv = "busoff" /\ recoveries < MaxRecoveries -> "recover"
    [] drv = "busoff" -> "giveUp"
    [] drv = "stopped" -> "restart"
    [] OTHER -> "none"

\* A stopped driver is left alone.
MutNoRestart ==
  CASE drv = "busoff" /\ recoveries < MaxRecoveries -> "recover"
    [] drv = "busoff" /\ recoveries = MaxRecoveries -> "giveUp"
    [] OTHER -> "none"

\* bus_action
BusAction ==
  CASE drv = "busoff" /\ recoveries < MaxRecoveries -> "recover"
    [] drv = "busoff" /\ recoveries = MaxRecoveries -> "giveUp"
    [] drv = "stopped" -> "restart"
    [] OTHER -> "none"

RecoverFromBusOff ==
  /\ AtBus /\ BusAction = "recover"
  /\ recoveries' = recoveries + 1
  /\ \/ drv' = "recovering" /\ UNCHANGED faults
     \/ Spend(1) /\ UNCHANGED drv
  /\ UNCHANGED <<mode, install, scan, exchange, pc, usb>>

GiveUpOnBus ==
  /\ AtBus /\ BusAction = "giveUp"
  /\ recoveries' = recoveries + 1
  /\ UNCHANGED <<driver, install, scan, exchange, pc, usb, faults>>

RestartAfterRecovery ==
  /\ AtBus /\ BusAction = "restart"
  /\ \/ drv' = "running" /\ UNCHANGED faults
     \/ Spend(1) /\ UNCHANGED drv
  /\ UNCHANGED <<mode, install, recoveries, scan, exchange, pc, usb>>

-----------------------------------------------------------------------------
(* The bus scan. *)

\* restoreDriver gives the bus back first ...
GiveBack == phase' = "done" /\ running' = FALSE /\ pc' = "restore"

\* DriverLost is not passed on.
MutRestore ==
  /\ pc = "restore" /\ pc' = "tick"
  /\ \E n \in Switched(drv, mode, driverUp, "normal") :
       Spend(n.bad) /\ Leaves(n) /\ driverUp' = (~n.ok /\ n.up)
  /\ UNCHANGED <<install, recoveries, requested, running, phase, probe, exchange, usb>>

\* ... and then the driver, or reports DriverLost, which is markDriverDown.
Restore ==
  /\ pc = "restore" /\ pc' = "tick"
  /\ \E n \in Switched(drv, mode, driverUp, "normal") :
       /\ Spend(n.bad) /\ Leaves(n) /\ driverUp' = (~n.ok /\ n.up)
       /\ installed' = n.ok
       /\ attempts' = IF n.ok THEN attempts ELSE 0
  /\ UNCHANGED <<down, lateInit, recoveries, requested, running, phase, probe, exchange, usb>>

\* installOrFail: listening at the next rate, or the scan has failed.
InstallOrFail(o, next, k) ==
  /\ Spend(o.bad) /\ Leaves(o) /\ driverUp' = o.up
  /\ \/ /\ o.ok /\ running' = TRUE /\ phase' = next /\ probe' = k /\ pc' = "tick"
     \/ ~o.ok /\ GiveBack /\ UNCHANGED probe

\* beginScan takes the request first ...
BeginScan ==
  /\ pc = "tick" /\ installed /\ requested /\ ~running
  /\ requested' = FALSE /\ pc' = "begin"
  /\ UNCHANGED <<driver, install, recoveries, running, driverUp, phase, probe, exchange, usb, faults>>

\* ... and can not stop the driver: abortBeforeListening ...
AbortBeforeListening ==
  /\ pc = "begin" /\ pc' = "tick"
  /\ \E r \in Stopped(drv, mode) : ~r.ok /\ Leaves(r) /\ Spend(r.bad)
  /\ phase' = "done" /\ probe' = 1
  /\ UNCHANGED <<install, recoveries, requested, running, driverUp, exchange, usb>>

\* ... or holds the bus and listens at the first rate.
StartListening ==
  /\ pc = "begin"
  /\ \E r \in Stopped(drv, mode) :
       r.ok /\ \E o \in Started(r.drv, r.mode, "listen") : InstallOrFail(o, "probing", 1)
  /\ UNCHANGED <<install, recoveries, requested, exchange, usb>>

Scanning == pc = "tick" /\ installed /\ running

\* The same rate again and again.
MutNextRate ==
  /\ Scanning /\ phase = "probing" /\ probe < Rates
  /\ \E o \in Switched(drv, mode, driverUp, "listen") : InstallOrFail(o, "probing", probe)
  /\ UNCHANGED <<install, recoveries, requested, exchange, usb>>

\* after_probe: the window of a rate is over.
NextRate ==
  /\ Scanning /\ phase = "probing" /\ probe < Rates
  /\ \E o \in Switched(drv, mode, driverUp, "listen") : InstallOrFail(o, "probing", probe + 1)
  /\ UNCHANGED <<install, recoveries, requested, exchange, usb>>

\* after_probes picked a rate.
Collect ==
  /\ Scanning /\ phase = "probing" /\ probe = Rates
  /\ \E o \in Switched(drv, mode, driverUp, "listen") : InstallOrFail(o, "collecting", probe)
  /\ UNCHANGED <<install, recoveries, requested, exchange, usb>>

\* Done, and the driver is left as it is.
MutFinish ==
  /\ Scanning /\ (phase = "collecting" \/ (phase = "probing" /\ probe = Rates))
  /\ phase' = "done" /\ running' = FALSE
  /\ UNCHANGED <<driver, install, recoveries, requested, driverUp, probe, exchange, pc, usb, faults>>

\* No rate was picked, or the identifiers are collected.
Finish ==
  /\ Scanning /\ (phase = "collecting" \/ (phase = "probing" /\ probe = Rates))
  /\ GiveBack
  /\ UNCHANGED <<driver, install, recoveries, requested, driverUp, probe, exchange, usb, faults>>

\* handleBusScanStart, requestStart: the flags are looked at ...
CheckScanStart ==
  /\ usb = "idle" /\ installed /\ ~ClaimsBus
  /\ usb' = "start"
  /\ UNCHANGED <<driver, install, recoveries, scan, exchange, pc, faults>>

\* ... and the scan is queued.
QueueScan ==
  /\ usb = "start" /\ usb' = "idle"
  /\ phase' = "probing" /\ probe' = 1 /\ requested' = TRUE
  /\ UNCHANGED <<driver, install, recoveries, running, driverUp, exchange, pc, faults>>

-----------------------------------------------------------------------------
(* Trouble codes. *)

\* sendFrame, unless the transmit queue is full.
CanSend == installed /\ ~ClaimsBus /\ drv = "running" /\ mode = "normal"

\* beginExchange: the exchange is pending before its request is sent ...
BeginExchange(k) ==
  /\ usb = "idle" /\ usb' = "send" /\ pending = "none"
  /\ pending' = k /\ responded' = FALSE /\ owed' = TRUE
  /\ UNCHANGED <<driver, install, recoveries, scan, held, wire, pc, faults>>

\* A request that could not be sent stays pending.
MutSendRequest ==
  /\ usb = "send" /\ usb' = "idle"
  /\ \/ CanSend /\ wire' = wire \union {<<"request", pending>>} /\ UNCHANGED owed
     \/ owed' = FALSE /\ UNCHANGED wire
  /\ UNCHANGED <<driver, install, recoveries, scan, pending, responded, held, pc, faults>>

\* ... or the host is told obd_send_failed.
SendRequest ==
  /\ usb = "send" /\ usb' = "idle"
  /\ \/ CanSend /\ wire' = wire \union {<<"request", pending>>} /\ UNCHANGED <<pending, owed>>
     \/ pending' = "none" /\ owed' = FALSE /\ UNCHANGED wire
  /\ UNCHANGED <<driver, install, recoveries, scan, responded, held, pc, faults>>

\* onRxFrame reads what is pending ...
ReceiveReply(k) ==
  /\ AtBus /\ drv = "running" /\ <<"reply", k>> \in wire
  /\ wire' = wire \ {<<"reply", k>>}
  /\ IF pending = k THEN held' = k /\ pc' = "rx" ELSE UNCHANGED <<held, pc>>
  /\ UNCHANGED <<driver, install, recoveries, scan, pending, responded, owed, usb, faults>>

\* ... and marks it answered.
MarkResponded ==
  /\ pc = "rx" /\ pc' = "tick"
  /\ responded' = TRUE /\ held' = "none"
  /\ UNCHANGED <<driver, install, recoveries, scan, pending, owed, wire, usb, faults>>

\* A timeout is not reported.
MutTakeOutcome ==
  /\ usb = "idle" /\ pending # "none"
  /\ pending' = "none" /\ owed' = (owed /\ ~responded)
  /\ UNCHANGED <<driver, install, recoveries, scan, responded, held, wire, pc, usb, faults>>

\* tickObdDtc, takeOutcome: answered, or the deadline is over.
TakeOutcome ==
  /\ usb = "idle" /\ pending # "none"
  /\ pending' = "none" /\ owed' = FALSE
  /\ UNCHANGED <<driver, install, recoveries, scan, responded, held, wire, pc, usb, faults>>

-----------------------------------------------------------------------------
(* The bus and the engine computer. *)

BusOff ==
  /\ drv = "running" /\ mode = "normal" /\ drv' = "busoff"
  /\ UNCHANGED <<mode, install, recoveries, scan, exchange, pc, usb, faults>>

RecoveryEnds ==
  /\ drv = "recovering" /\ drv' = "stopped"
  /\ UNCHANGED <<mode, install, recoveries, scan, exchange, pc, usb, faults>>

EcuAnswers(k) ==
  /\ <<"request", k>> \in wire
  /\ wire' = (wire \ {<<"request", k>>}) \union {<<"reply", k>>}
  /\ UNCHANGED <<driver, install, recoveries, scan, pending, responded, held, owed, pc, usb, faults>>

\* Not answered, or received while a scan had the driver.
FrameIsLost(f) ==
  /\ f \in wire /\ wire' = wire \ {f}
  /\ UNCHANGED <<driver, install, recoveries, scan, pending, responded, held, owed, pc, usb, faults>>

-----------------------------------------------------------------------------
InitTask == BootInit \/ TickInitRetry \/ PanicOnSpawn \/ WarnPermanentlyDown \/ LateInit
Supervise == RecoverFromBusOff \/ GiveUpOnBus \/ RestartAfterRecovery
RunScan == BeginScan \/ AbortBeforeListening \/ StartListening \/ NextRate \/ Collect \/ Finish \/ Restore
Usb == CheckScanStart \/ QueueScan \/ TakeOutcome \/ SendRequest \/ \E k \in Kinds : BeginExchange(k)
Receive == MarkResponded \/ \E k \in Kinds : ReceiveReply(k)
Environment ==
  \/ BusOff \/ RecoveryEnds
  \/ \E k \in Kinds : EcuAnswers(k)
  \/ \E f \in Frames : FrameIsLost(f)

Next == InitTask \/ Supervise \/ RunScan \/ Usb \/ Receive \/ Environment

Spec == Init /\ [][Next]_vars

\* The CAN task and the USB task run for ever: windows and deadlines elapse, and a step
\* of a handler is followed by the next one.
FairSpec ==
  /\ Spec
  /\ WF_vars(RestartAfterRecovery) /\ WF_vars(RunScan)
  /\ WF_vars(BootInit) /\ WF_vars(TickInitRetry) /\ WF_vars(MarkResponded)
  /\ WF_vars(QueueScan) /\ WF_vars(SendRequest) /\ SF_vars(TakeOutcome)

-----------------------------------------------------------------------------
(* Properties. *)

\* Types.
TypeOK ==
  /\ drv \in {"none", "stopped", "running", "busoff", "recovering"}
  /\ mode \in {"normal", "listen"}
  /\ installed \in BOOLEAN /\ attempts \in 0..MaxRetries
  /\ down \in BOOLEAN /\ lateInit \in BOOLEAN
  /\ recoveries \in 0..(MaxRecoveries + 1)
  /\ requested \in BOOLEAN /\ running \in BOOLEAN /\ driverUp \in BOOLEAN
  /\ phase \in {"idle", "probing", "collecting", "done"} /\ probe \in 1..Rates
  /\ pending \in Kinds \union {"none"} /\ responded \in BOOLEAN
  /\ held \in Kinds \union {"none"} /\ owed \in BOOLEAN /\ wire \subseteq Frames
  /\ pc \in {"boot", "tick", "begin", "restore", "rx"} /\ usb \in {"idle", "start", "send"}
  /\ faults \in 0..MaxFaults

\* The CAN task never receives from a driver that is not there: whatever failed while
\* a scan switched it, the flag says so once the scan has given it back.
DriverIsThere == installed /\ pc # "restore" => drv # "none"

\* The dash is deaf and mute to the engine computer only while a scan runs: no path out
\* of a scan leaves the driver listening only and in use.
ListenOnlyIsScan == installed /\ ~running /\ pc # "restore" => mode = "normal"

\* A command the host got no error for has one reply to come: exactly the pending
\* exchange, so a refused request is never answered a second time.
OneReply == owed <=> pending # "none"

\* A stopped driver, after a recovery or a scan that could not be begun, is started
\* again, or it is known to be lost.
BusRestarts == installed /\ drv = "stopped" ~> drv = "running" \/ ~installed

\* An accepted scan ends with a result, unless the driver was lost: the bus is not
\* claimed for ever.
ScanEnds == requested \/ running ~> phase = "done" \/ ~installed

\* A read or clear that was sent is answered, scan or no scan.
CommandIsAnswered == owed ~> ~owed
=============================================================================
