---------------------------- MODULE CanBusProofs ----------------------------
(* Proofs about CanBus, for any number of rates, retries, recoveries and   *)
(* faults.                                                                 *)
EXTENDS CanBus, TLAPS

Drivers == {"none", "stopped", "running", "busoff", "recovering"}
Modes == {"normal", "listen"}
Outcomes == [ok : BOOLEAN, drv : Drivers, mode : Modes, up : BOOLEAN, bad : Nat]

\* The request for a scan is taken on a dash that has its driver and does not scan, and
\* a request of trouble codes is sent for the exchange that is pending.
BeginsInUse == (pc = "begin" => installed /\ ~running) /\ (usb = "send" => pending # "none")

IInv == TypeOK /\ DriverIsThere /\ ListenOnlyIsScan /\ OneReply /\ BeginsInUse
-----------------------------------------------------------------------------
LEMMA OutcomeType ==
  ASSUME NEW ok \in BOOLEAN, NEW d \in Drivers, NEW m \in Modes, NEW up \in BOOLEAN, NEW bad \in Nat
  PROVE  Outcome(ok, d, m, up, bad) \in Outcomes
  BY DEF Outcome, Outcomes

\* What stopOnThisCore leaves.
LEMMA StoppedOutcome ==
  ASSUME NEW d \in Drivers, NEW m \in Modes, NEW r \in Stopped(d, m)
  PROVE  /\ r \in Outcomes /\ r.mode = m
         /\ r.ok => r.drv = "none"
         /\ ~r.ok /\ d # "none" => r.drv # "none"
<1>1. CASE d \in {"none", "recovering"}
  <2>1. r = Outcome(FALSE, d, m, TRUE, 0)
    BY <1>1 DEF Stopped
  <2>2. r \in Outcomes
    BY <2>1, OutcomeType
  <2>3. ~r.ok /\ r.drv = d /\ r.mode = m
    BY <2>1 DEF Outcome
  <2>q. QED
    BY <2>2, <2>3
<1>2. CASE d \notin {"none", "recovering"}
  <2>1. \/ r = Outcome(TRUE, "none", m, FALSE, 0)
        \/ r = Outcome(FALSE, d, m, TRUE, 1)
        \/ r = Outcome(FALSE, "stopped", m, TRUE, 1)
    BY <1>2 DEF Stopped
  <2>2. r \in Outcomes
    <3>1. "none" \in Drivers /\ "stopped" \in Drivers
      BY DEF Drivers
    <3>q. QED
      BY <2>1, <3>1, OutcomeType
  <2>3. /\ r.mode = m
        /\ r.ok => r.drv = "none"
        /\ ~r.ok /\ d # "none" => r.drv # "none"
    BY <2>1 DEF Outcome
  <2>q. QED
    BY <2>2, <2>3
<1>q. QED
  BY <1>1, <1>2

\* What startDriver leaves.
LEMMA StartedOutcome ==
  ASSUME NEW d \in Drivers, NEW m \in Modes, NEW new \in Modes, NEW o \in Started(d, m, new)
  PROVE  /\ o \in Outcomes
         /\ o.ok => o.drv = "running" /\ o.mode = new
         /\ d # "none" => o.drv = d /\ o.mode = m
<1>1. CASE d # "none"
  <2>1. o = Outcome(FALSE, d, m, FALSE, 0)
    BY <1>1 DEF Started
  <2>2. o \in Outcomes
    BY <2>1, OutcomeType
  <2>3. ~o.ok /\ o.drv = d /\ o.mode = m
    BY <2>1 DEF Outcome
  <2>q. QED
    BY <2>2, <2>3
<1>2. CASE d = "none"
  <2>1. \/ o = Outcome(TRUE, "running", new, TRUE, 0)
        \/ o = Outcome(FALSE, "none", m, FALSE, 1)
        \/ o = Outcome(FALSE, "stopped", new, FALSE, 1)
    BY <1>2 DEF Started
  <2>2. o \in Outcomes
    <3>1. "none" \in Drivers /\ "stopped" \in Drivers /\ "running" \in Drivers
      BY DEF Drivers
    <3>q. QED
      BY <2>1, <3>1, OutcomeType
  <2>3. o.ok => o.drv = "running" /\ o.mode = new
    BY <2>1 DEF Outcome
  <2>q. QED
    BY <1>2, <2>2, <2>3
<1>q. QED
  BY <1>1, <1>2

\* What a switch of the driver leaves.
LEMMA SwitchedOutcome ==
  ASSUME NEW d \in Drivers, NEW m \in Modes, NEW up \in BOOLEAN, NEW new \in Modes,
         NEW o \in Switched(d, m, up, new)
  PROVE  /\ o \in Outcomes
         /\ o.ok => o.drv = "running" /\ o.mode = new
<1>1. PICK r \in Released(d, m, up) :
        o \in IF r.ok THEN {[s EXCEPT !.bad = @ + r.bad] : s \in Started(r.drv, r.mode, new)} ELSE {r}
  BY DEF Switched
<1>2. r \in Outcomes
  <2>1. CASE up
    BY <2>1, StoppedOutcome DEF Released
  <2>2. CASE ~up
    <3>1. r = Outcome(TRUE, d, m, FALSE, 0)
      BY <2>2 DEF Released
    <3>q. QED
      BY <3>1, OutcomeType
  <2>q. QED
    BY <2>1, <2>2
<1>3. CASE r.ok
  <2>1. PICK s \in Started(r.drv, r.mode, new) : o = [s EXCEPT !.bad = @ + r.bad]
    BY <1>1, <1>3
  <2>2. r.drv \in Drivers /\ r.mode \in Modes /\ r.bad \in Nat
    BY <1>2 DEF Outcomes
  <2>3. s \in Outcomes /\ (s.ok => s.drv = "running" /\ s.mode = new)
    BY <2>2, StartedOutcome
  <2>4. o = [ok |-> s.ok, drv |-> s.drv, mode |-> s.mode, up |-> s.up, bad |-> s.bad + r.bad]
    BY <2>1, <2>3 DEF Outcomes
  <2>5. s.bad + r.bad \in Nat
    BY <2>2, <2>3 DEF Outcomes
  <2>6. [ok |-> s.ok, drv |-> s.drv, mode |-> s.mode, up |-> s.up, bad |-> s.bad + r.bad] \in Outcomes
    BY <2>3, <2>5 DEF Outcomes
  <2>q. QED
    BY <2>3, <2>4, <2>6
<1>4. CASE ~r.ok
  BY <1>1, <1>2, <1>4
<1>q. QED
  BY <1>3, <1>4

-----------------------------------------------------------------------------
LEMMA SpendType ==
  ASSUME TypeOK, NEW bad \in Nat, Spend(bad)
  PROVE  faults' \in 0..MaxFaults
  BY CountsAssumption DEF TypeOK, Spend

\* A step of a scan that listens at a rate or fails, whatever its driver calls did.
LEMMA ListenStep ==
  ASSUME IInv, installed, NEW o \in Outcomes, o.ok => o.drv = "running" /\ o.mode = "listen",
         NEW next \in {"probing", "collecting"}, NEW k \in 1..Rates, InstallOrFail(o, next, k),
         UNCHANGED <<install, recoveries, requested, exchange, usb>>
  PROVE  IInv'
<1>1. o.ok \in BOOLEAN /\ o.drv \in Drivers /\ o.mode \in Modes /\ o.up \in BOOLEAN /\ o.bad \in Nat
  BY DEF Outcomes
<1>2. drv' = o.drv /\ mode' = o.mode /\ driverUp' = o.up /\ faults' \in 0..MaxFaults
  BY <1>1, SpendType DEF InstallOrFail, Leaves, IInv
<1>3. \/ o.ok /\ running' = TRUE /\ phase' = next /\ probe' = k /\ pc' = "tick"
      \/ ~o.ok /\ phase' = "done" /\ running' = FALSE /\ pc' = "restore" /\ probe' = probe
  BY DEF InstallOrFail, GiveBack
<1>4. TypeOK'
  <2>1. driverUp' \in BOOLEAN /\ running' \in BOOLEAN
    BY <1>1, <1>2, <1>3, Zenon
  <2>2. phase' \in {"idle", "probing", "collecting", "done"} /\ probe' \in 1..Rates
        /\ pc' \in {"boot", "tick", "begin", "restore", "rx"}
    BY <1>3 DEF IInv, TypeOK
  <2>q. QED
    BY <1>1, <1>2, <2>1, <2>2 DEF IInv, TypeOK, Drivers, Modes, install, exchange
<1>5. DriverIsThere' /\ ListenOnlyIsScan'
  BY <1>2, <1>3 DEF DriverIsThere, ListenOnlyIsScan
<1>6. OneReply' /\ BeginsInUse'
  BY <1>3 DEF IInv, OneReply, BeginsInUse, exchange
<1>q. QED
  BY <1>4, <1>5, <1>6 DEF IInv

\* The driver as the other lemmas want it.
LEMMA DriverType ==
  ASSUME TypeOK
  PROVE  /\ drv \in Drivers /\ mode \in Modes /\ driverUp \in BOOLEAN
         /\ "normal" \in Modes /\ "listen" \in Modes
  BY DEF TypeOK, Drivers, Modes

\* A wait for the init task, and the init task itself.
LEMMA InstallKeeps ==
  ASSUME IInv, NEW o \in Started(drv, mode, "normal"), Leaves(o), Spend(o.bad),
         installed' = o.ok \/ installed' = (installed \/ o.ok)
  PROVE  /\ drv' \in Drivers /\ mode' \in Modes /\ installed' \in BOOLEAN /\ faults' \in 0..MaxFaults
         /\ installed' /\ pc # "restore" => drv' # "none"
         /\ installed' /\ ~running /\ pc # "restore" => mode' = "normal"
<1>1. drv \in Drivers /\ mode \in Modes /\ "normal" \in Modes
  BY DriverType DEF IInv
<1>2. /\ o \in Outcomes
      /\ o.ok => o.drv = "running" /\ o.mode = "normal"
      /\ drv # "none" => o.drv = drv /\ o.mode = mode
  BY <1>1, StartedOutcome
<1>3. o.ok \in BOOLEAN /\ o.drv \in Drivers /\ o.mode \in Modes /\ o.bad \in Nat
  BY <1>2 DEF Outcomes
<1>4. faults' \in 0..MaxFaults
  BY <1>3, SpendType DEF IInv
<1>5. drv' = o.drv /\ mode' = o.mode
  BY DEF Leaves
<1>6. /\ installed \in BOOLEAN /\ (installed /\ pc # "restore" => drv # "none")
      /\ (installed /\ ~running /\ pc # "restore" => mode = "normal")
  BY DEF IInv, TypeOK, DriverIsThere, ListenOnlyIsScan
<1>7. installed' \in BOOLEAN
  BY <1>3, <1>6, Zenon
<1>8. installed' => installed \/ o.ok
  BY Zenon
<1>9. /\ installed' /\ pc # "restore" => drv' # "none"
      /\ installed' /\ ~running /\ pc # "restore" => mode' = "normal"
  BY <1>2, <1>5, <1>6, <1>8
<1>q. QED
  BY <1>3, <1>4, <1>5, <1>7, <1>9

\* A task that tries to install the driver, whether it is waited for or not.
LEMMA InstallOnCore0Keeps ==
  ASSUME IInv, InstallOnCore0
  PROVE  /\ drv' \in Drivers /\ mode' \in Modes /\ installed' \in BOOLEAN /\ faults' \in 0..MaxFaults
         /\ lateInit' \in BOOLEAN
         /\ installed' /\ pc # "restore" => drv' # "none"
         /\ installed' /\ ~running /\ pc # "restore" => mode' = "normal"
<1>1. CASE /\ \E o \in Started(drv, mode, "normal") :
                Leaves(o) /\ Spend(o.bad) /\ installed' = o.ok
           /\ lateInit' = FALSE
  BY <1>1, InstallKeeps
<1>2. CASE lateInit' = TRUE /\ Spend(1) /\ UNCHANGED <<driver, installed>>
  <2>1. faults' \in 0..MaxFaults
    BY <1>2, SpendType DEF IInv
  <2>2. drv' = drv /\ mode' = mode /\ installed' = installed
    BY <1>2 DEF driver
  <2>q. QED
    BY <1>2, <2>1, <2>2, DriverType DEF IInv, TypeOK, DriverIsThere, ListenOnlyIsScan
<1>q. QED
  BY <1>1, <1>2 DEF InstallOnCore0

LEMMA InitInv == Init => IInv
<1> SUFFICES ASSUME Init PROVE IInv
  OBVIOUS
<1>1. 0 \in 0..MaxRetries /\ 0 \in 0..(MaxRecoveries + 1) /\ 1 \in 1..Rates /\ 0 \in 0..MaxFaults
  BY CountsAssumption
<1>2. TypeOK
  BY <1>1 DEF Init, TypeOK
<1>3. DriverIsThere /\ ListenOnlyIsScan /\ BeginsInUse
  BY DEF Init, DriverIsThere, ListenOnlyIsScan, BeginsInUse
<1>4. OneReply
  BY Zenon DEF Init, OneReply
<1>q. QED
  BY <1>2, <1>3, <1>4 DEF IInv

LEMMA InitTaskInv == IInv /\ InitTask => IInv'
<1> SUFFICES ASSUME IInv, InitTask PROVE IInv'
  OBVIOUS
<1> USE DEF IInv, scan, exchange
<1>1. CASE BootInit
  <2>1. /\ drv' \in Drivers /\ mode' \in Modes /\ installed' \in BOOLEAN /\ faults' \in 0..MaxFaults
        /\ lateInit' \in BOOLEAN
        /\ installed' /\ pc # "restore" => drv' # "none"
        /\ installed' /\ ~running /\ pc # "restore" => mode' = "normal"
    BY <1>1, InstallOnCore0Keeps DEF BootInit
  <2>2. TypeOK'
    BY <1>1, <2>1 DEF BootInit, TypeOK, Drivers, Modes
  <2>q. QED
    BY <1>1, <2>1, <2>2 DEF BootInit, DriverIsThere, ListenOnlyIsScan, OneReply, BeginsInUse
<1>2. CASE TickInitRetry
  <2>1. /\ drv' \in Drivers /\ mode' \in Modes /\ installed' \in BOOLEAN /\ faults' \in 0..MaxFaults
        /\ lateInit' \in BOOLEAN
        /\ installed' /\ pc # "restore" => drv' # "none"
        /\ installed' /\ ~running /\ pc # "restore" => mode' = "normal"
    BY <1>2, InstallOnCore0Keeps DEF TickInitRetry
  <2>2. attempts' \in 0..MaxRetries
    BY <1>2, CountsAssumption DEF TickInitRetry, TypeOK
  <2>3. TypeOK'
    BY <1>2, <2>1, <2>2 DEF TickInitRetry, TypeOK, Drivers, Modes
  <2>q. QED
    BY <1>2, <2>1, <2>3 DEF TickInitRetry, DriverIsThere, ListenOnlyIsScan, OneReply, BeginsInUse
<1>3. CASE PanicOnSpawn
  <2>1. 0 \in 0..MaxRetries /\ 0 \in 0..(MaxRecoveries + 1) /\ 1 \in 1..Rates
    BY CountsAssumption
  <2>2. TypeOK'
    BY <1>3, <2>1 DEF PanicOnSpawn, TypeOK
  <2>3. OneReply'
    BY <1>3, Zenon DEF PanicOnSpawn, OneReply
  <2>4. DriverIsThere' /\ ListenOnlyIsScan' /\ BeginsInUse'
    BY <1>3 DEF PanicOnSpawn, DriverIsThere, ListenOnlyIsScan, BeginsInUse
  <2>q. QED
    BY <2>2, <2>3, <2>4
<1>4. CASE WarnPermanentlyDown
  BY <1>4 DEF WarnPermanentlyDown, TypeOK, DriverIsThere, ListenOnlyIsScan, OneReply, BeginsInUse, driver
<1>5. CASE LateInit
  <2>1. PICK o \in Started(drv, mode, "normal") :
          Leaves(o) /\ Spend(o.bad) /\ installed' = (installed \/ o.ok)
    BY <1>5 DEF LateInit
  <2>2. /\ drv' \in Drivers /\ mode' \in Modes /\ installed' \in BOOLEAN /\ faults' \in 0..MaxFaults
        /\ installed' /\ pc # "restore" => drv' # "none"
        /\ installed' /\ ~running /\ pc # "restore" => mode' = "normal"
    BY <2>1, InstallKeeps
  <2>3. installed => installed'
    BY <2>1, Zenon
  <2>4. lateInit' = FALSE /\ UNCHANGED <<attempts, down, recoveries, scan, exchange, pc, usb>>
    BY <1>5 DEF LateInit
  <2>5. lateInit' \in BOOLEAN
    BY <2>4, Zenon
  <2>6. TypeOK'
    BY <2>2, <2>4, <2>5 DEF TypeOK, Drivers, Modes
  <2>q. QED
    BY <2>2, <2>3, <2>4, <2>6 DEF DriverIsThere, ListenOnlyIsScan, OneReply, BeginsInUse
<1>q. QED
  BY <1>1, <1>2, <1>3, <1>4, <1>5 DEF InitTask

LEMMA SuperviseInv == IInv /\ Supervise => IInv'
<1> SUFFICES ASSUME IInv, Supervise PROVE IInv'
  OBVIOUS
<1> USE DEF IInv, TypeOK, AtBus, install, scan, exchange, DriverIsThere, ListenOnlyIsScan,
            OneReply, BeginsInUse
<1>1. CASE RecoverFromBusOff
  <2>1. recoveries < MaxRecoveries
    BY <1>1 DEF RecoverFromBusOff, BusAction
  <2>2. recoveries' \in 0..(MaxRecoveries + 1)
    BY <1>1, <2>1, CountsAssumption DEF RecoverFromBusOff
  <2>3. faults' \in 0..MaxFaults
    BY <1>1, SpendType DEF RecoverFromBusOff
  <2>q. QED
    BY <1>1, <2>2, <2>3 DEF RecoverFromBusOff
<1>2. CASE GiveUpOnBus
  <2>1. recoveries = MaxRecoveries
    BY <1>2 DEF GiveUpOnBus, BusAction
  <2>2. recoveries' \in 0..(MaxRecoveries + 1)
    BY <1>2, <2>1, CountsAssumption DEF GiveUpOnBus
  <2>q. QED
    BY <1>2, <2>2 DEF GiveUpOnBus, driver
<1>3. CASE RestartAfterRecovery
  <2>1. faults' \in 0..MaxFaults
    BY <1>3, SpendType DEF RestartAfterRecovery
  <2>q. QED
    BY <1>3, <2>1 DEF RestartAfterRecovery
<1>q. QED
  BY <1>1, <1>2, <1>3 DEF Supervise

LEMMA RunScanInv == IInv /\ RunScan => IInv'
<1> SUFFICES ASSUME IInv, RunScan PROVE IInv'
  OBVIOUS
<1>t. drv \in Drivers /\ mode \in Modes /\ driverUp \in BOOLEAN /\ "normal" \in Modes /\ "listen" \in Modes
  BY DriverType DEF IInv
<1>p. 1 \in 1..Rates /\ probe \in 1..Rates /\ (probe < Rates => probe + 1 \in 1..Rates)
  BY CountsAssumption DEF IInv, TypeOK
<1>1. CASE BeginScan
  <2>1. TypeOK'
    <3>1. requested' \in BOOLEAN /\ pc' = "begin"
      BY <1>1 DEF BeginScan
    <3>2. UNCHANGED <<driver, install, recoveries, running, driverUp, phase, probe, exchange, usb, faults>>
      BY <1>1 DEF BeginScan
    <3>q. QED
      BY <3>1, <3>2 DEF IInv, TypeOK, driver, install, exchange
  <2>2. DriverIsThere' /\ ListenOnlyIsScan' /\ OneReply' /\ BeginsInUse'
    BY <1>1 DEF BeginScan, IInv, DriverIsThere, ListenOnlyIsScan, OneReply, BeginsInUse, driver, install,
                exchange
  <2>q. QED
    BY <2>1, <2>2 DEF IInv
<1>2. CASE AbortBeforeListening
  <2>1. PICK r \in Stopped(drv, mode) : ~r.ok /\ Leaves(r) /\ Spend(r.bad)
    BY <1>2 DEF AbortBeforeListening
  <2>2. r \in Outcomes /\ r.mode = mode /\ (drv # "none" => r.drv # "none")
    BY <1>t, <2>1, StoppedOutcome
  <2>3. drv' \in Drivers /\ mode' = mode /\ (drv # "none" => drv' # "none") /\ r.bad \in Nat
    BY <2>1, <2>2 DEF Leaves, Outcomes
  <2>4. faults' \in 0..MaxFaults
    BY <2>1, <2>3, SpendType DEF IInv
  <2>5. TypeOK'
    BY <1>2, <1>p, <2>3, <2>4 DEF AbortBeforeListening, IInv, TypeOK, Drivers, install, exchange
  <2>q. QED
    BY <1>2, <2>3, <2>5 DEF AbortBeforeListening, IInv, DriverIsThere, ListenOnlyIsScan, OneReply,
       BeginsInUse, install, exchange
<1>3. CASE StartListening
  <2>1. PICK r \in Stopped(drv, mode) :
          r.ok /\ \E o \in Started(r.drv, r.mode, "listen") : InstallOrFail(o, "probing", 1)
    BY <1>3 DEF StartListening
  <2>2. PICK o \in Started(r.drv, r.mode, "listen") : InstallOrFail(o, "probing", 1)
    BY <2>1
  <2>3. r \in Outcomes
    BY <1>t, StoppedOutcome
  <2>4. r.drv \in Drivers /\ r.mode \in Modes
    BY <2>3 DEF Outcomes
  <2>5. o \in Outcomes /\ (o.ok => o.drv = "running" /\ o.mode = "listen")
    BY <1>t, <2>4, StartedOutcome
  <2>6. installed /\ UNCHANGED <<install, recoveries, requested, exchange, usb>>
    BY <1>3 DEF StartListening, IInv, BeginsInUse
  <2>q. QED
    BY <1>p, <2>2, <2>5, <2>6, ListenStep
<1>4. CASE NextRate
  <2>1. PICK o \in Switched(drv, mode, driverUp, "listen") : InstallOrFail(o, "probing", probe + 1)
    BY <1>4 DEF NextRate
  <2>2. o \in Outcomes /\ (o.ok => o.drv = "running" /\ o.mode = "listen")
    BY <1>t, SwitchedOutcome
  <2>3. /\ probe + 1 \in 1..Rates
        /\ installed /\ UNCHANGED <<install, recoveries, requested, exchange, usb>>
    BY <1>4, <1>p DEF NextRate, Scanning
  <2>q. QED
    BY <2>1, <2>2, <2>3, ListenStep
<1>5. CASE Collect
  <2>1. PICK o \in Switched(drv, mode, driverUp, "listen") : InstallOrFail(o, "collecting", probe)
    BY <1>5 DEF Collect
  <2>2. o \in Outcomes /\ (o.ok => o.drv = "running" /\ o.mode = "listen")
    BY <1>t, SwitchedOutcome
  <2>3. installed /\ UNCHANGED <<install, recoveries, requested, exchange, usb>>
    BY <1>5 DEF Collect, Scanning
  <2>q. QED
    BY <1>p, <2>1, <2>2, <2>3, ListenStep
<1>6. CASE Finish
  <2>1. running' = FALSE /\ phase' = "done" /\ pc' = "restore"
    BY <1>6 DEF Finish, GiveBack
  <2>2. running' \in BOOLEAN
    BY <2>1, Zenon
  <2>3. UNCHANGED <<driver, install, recoveries, requested, driverUp, probe, exchange, usb, faults>>
    BY <1>6 DEF Finish
  <2>4. TypeOK'
    BY <2>1, <2>2, <2>3 DEF IInv, TypeOK, driver, install, exchange
  <2>5. DriverIsThere' /\ ListenOnlyIsScan' /\ OneReply' /\ BeginsInUse'
    BY <2>1, <2>3 DEF IInv, DriverIsThere, ListenOnlyIsScan, OneReply, BeginsInUse, exchange
  <2>q. QED
    BY <2>4, <2>5 DEF IInv
<1>7. CASE Restore
  <2>1. PICK n \in Switched(drv, mode, driverUp, "normal") :
          /\ Spend(n.bad) /\ Leaves(n) /\ driverUp' = (~n.ok /\ n.up)
          /\ installed' = n.ok
          /\ attempts' = IF n.ok THEN attempts ELSE 0
    BY <1>7 DEF Restore
  <2>2. n \in Outcomes /\ (n.ok => n.drv = "running" /\ n.mode = "normal")
    BY <1>t, SwitchedOutcome
  <2>3. n.ok \in BOOLEAN /\ n.drv \in Drivers /\ n.mode \in Modes /\ n.up \in BOOLEAN /\ n.bad \in Nat
    BY <2>2 DEF Outcomes
  <2>4. faults' \in 0..MaxFaults
    BY <2>1, <2>3, SpendType DEF IInv
  <2>5. drv' = n.drv /\ mode' = n.mode /\ installed' = n.ok
    BY <2>1 DEF Leaves
  <2>6. driverUp' \in BOOLEAN
    <3>1. driverUp' = (~n.ok /\ n.up)
      BY <2>1
    <3>q. QED
      BY <3>1, Zenon
  <2>7. attempts' \in 0..MaxRetries
    BY <2>1, CountsAssumption DEF IInv, TypeOK
  <2>8. /\ pc' = "tick"
        /\ UNCHANGED <<down, lateInit, recoveries, requested, running, phase, probe, exchange, usb>>
    BY <1>7 DEF Restore
  <2>9. TypeOK'
    BY <2>3, <2>4, <2>5, <2>6, <2>7, <2>8 DEF IInv, TypeOK, Drivers, Modes, exchange
  <2>10. DriverIsThere' /\ ListenOnlyIsScan'
    BY <2>2, <2>5 DEF DriverIsThere, ListenOnlyIsScan
  <2>11. OneReply' /\ BeginsInUse'
    BY <2>8 DEF IInv, OneReply, BeginsInUse, exchange
  <2>q. QED
    BY <2>9, <2>10, <2>11 DEF IInv
<1>q. QED
  BY <1>1, <1>2, <1>3, <1>4, <1>5, <1>6, <1>7 DEF RunScan

LEMMA UsbInv == IInv /\ Usb => IInv'
<1> SUFFICES ASSUME IInv, Usb PROVE IInv'
  OBVIOUS
<1> USE CountsAssumption DEF IInv, TypeOK, DriverIsThere, ListenOnlyIsScan, OneReply, BeginsInUse,
                             driver, install, scan, exchange
<1>1. CASE CheckScanStart
  BY <1>1 DEF CheckScanStart
<1>2. CASE QueueScan
  BY <1>2 DEF QueueScan
<1>3. CASE TakeOutcome
  <2>1. OneReply'
    BY <1>3, Zenon DEF TakeOutcome
  <2>2. owed' \in BOOLEAN
    BY <1>3, Zenon DEF TakeOutcome
  <2>3. TypeOK' /\ DriverIsThere' /\ ListenOnlyIsScan' /\ BeginsInUse'
    BY <1>3, <2>2 DEF TakeOutcome
  <2>q. QED
    BY <2>1, <2>3
<1>4. ASSUME NEW k \in Kinds, BeginExchange(k) PROVE IInv'
  <2>1. k # "none" /\ owed' = TRUE
    BY <1>4 DEF Kinds, BeginExchange
  <2>2. OneReply'
    BY <1>4, <2>1, Zenon DEF BeginExchange
  <2>3. responded' \in BOOLEAN /\ owed' \in BOOLEAN
    BY <1>4, Zenon DEF BeginExchange
  <2>4. TypeOK' /\ DriverIsThere' /\ ListenOnlyIsScan' /\ BeginsInUse'
    BY <1>4, <2>1, <2>3 DEF BeginExchange
  <2>q. QED
    BY <2>2, <2>4
<1>5. CASE SendRequest
  <2>1. CASE wire' = wire \union {<<"request", pending>>} /\ UNCHANGED <<pending, owed>>
    <3>1. <<"request", pending>> \in Frames
      BY <1>5 DEF SendRequest, Frames
    <3>q. QED
      BY <1>5, <2>1, <3>1 DEF SendRequest
  <2>2. CASE pending' = "none" /\ owed' = FALSE /\ UNCHANGED wire
    <3>1. owed' \in BOOLEAN /\ OneReply'
      BY <2>2, Zenon
    <3>2. TypeOK' /\ DriverIsThere' /\ ListenOnlyIsScan' /\ BeginsInUse'
      BY <1>5, <2>2, <3>1 DEF SendRequest
    <3>q. QED
      BY <3>1, <3>2
  <2>q. QED
    BY <1>5, <2>1, <2>2 DEF SendRequest
<1>q. QED
  BY <1>1, <1>2, <1>3, <1>4, <1>5 DEF Usb

LEMMA ReceiveInv == IInv /\ Receive => IInv'
<1> SUFFICES ASSUME IInv, Receive PROVE IInv'
  OBVIOUS
<1> USE DEF IInv, TypeOK, DriverIsThere, ListenOnlyIsScan, OneReply, BeginsInUse,
            driver, install, scan, exchange
<1>1. CASE MarkResponded
  BY <1>1 DEF MarkResponded
<1>2. ASSUME NEW k \in Kinds, ReceiveReply(k) PROVE IInv'
  BY <1>2 DEF ReceiveReply, AtBus
<1>q. QED
  BY <1>1, <1>2 DEF Receive

LEMMA EnvironmentInv == IInv /\ Environment => IInv'
<1> SUFFICES ASSUME IInv, Environment PROVE IInv'
  OBVIOUS
<1> USE DEF IInv, TypeOK, DriverIsThere, ListenOnlyIsScan, OneReply, BeginsInUse,
            driver, install, scan, exchange
<1>1. CASE BusOff
  BY <1>1 DEF BusOff
<1>2. CASE RecoveryEnds
  BY <1>2 DEF RecoveryEnds
<1>3. ASSUME NEW k \in Kinds, EcuAnswers(k) PROVE IInv'
  BY <1>3 DEF EcuAnswers, Frames
<1>4. ASSUME NEW f \in Frames, FrameIsLost(f) PROVE IInv'
  BY <1>4 DEF FrameIsLost
<1>q. QED
  BY <1>1, <1>2, <1>3, <1>4 DEF Environment

LEMMA NextInv == IInv /\ [Next]_vars => IInv'
<1> SUFFICES ASSUME IInv, [Next]_vars PROVE IInv'
  OBVIOUS
<1>1. CASE UNCHANGED vars
  BY <1>1 DEF vars, driver, install, scan, exchange, IInv, TypeOK, DriverIsThere, ListenOnlyIsScan,
       OneReply, BeginsInUse
<1>2. CASE Next
  BY <1>2, InitTaskInv, SuperviseInv, RunScanInv, UsbInv, ReceiveInv, EnvironmentInv DEF Next
<1>q. QED
  BY <1>1, <1>2

LEMMA Inductive == Spec => []IInv
  BY InitInv, NextInv, PTL DEF Spec

-----------------------------------------------------------------------------
\* Every variable has its type in every reachable state: the counters of retries,
\* recoveries and rates stay within their bounds.
THEOREM TypeCorrect == Spec => []TypeOK
<1>1. IInv => TypeOK
  BY DEF IInv
<1>q. QED
  BY <1>1, Inductive, PTL

\* The CAN task never uses a driver that is not there, for any number of failing
\* driver calls, late init tasks and scans.
THEOREM DriverThere == Spec => []DriverIsThere
<1>1. IInv => DriverIsThere
  BY DEF IInv
<1>q. QED
  BY <1>1, Inductive, PTL

\* No scan, however it fails, leaves the driver listening only and in use.
THEOREM ListenOnlyInScan == Spec => []ListenOnlyIsScan
<1>1. IInv => ListenOnlyIsScan
  BY DEF IInv
<1>q. QED
  BY <1>1, Inductive, PTL

\* The host is owed a reply exactly while an exchange is pending.
THEOREM RepliesMatch == Spec => []OneReply
<1>1. IInv => OneReply
  BY DEF IInv
<1>q. QED
  BY <1>1, Inductive, PTL
=============================================================================
