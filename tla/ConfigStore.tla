---------------------------- MODULE ConfigStore -----------------------------
(***************************************************************************)
(* /config/dashboard.json on flash, from the two tasks that touch it.      *)
(*                                                                         *)
(* The writer (USB task; the setup task when it provisions) stages a       *)
(* document in dashboard.json.tmp and swaps it in with                     *)
(* StorageAtomicSwap::finalize, one SPIFFS call at a time.  The loader     *)
(* (UI task; the setup task at boot) reads it with                         *)
(* ConfigLoaderInternal::loadDashboard or vetDashboard, and may itself     *)
(* rename or remove files to fall back to dashboard.json.bak.  PUT_CONFIG  *)
(* and the loader hold the LVGL mutex; PUT_CONFIG_CHUNK does not, so its   *)
(* swap interleaves with a load: each task can be preempted or blocked on  *)
(* the log mutex between two SPIFFS calls.  Power may fail at any point.   *)
(*                                                                         *)
(* A document is only known by what the loader makes of it: Good ones      *)
(* load, Refused ones parse and are turned down, Unreadable ones do not    *)
(* parse.  A SPIFFS call is atomic and may fail.                           *)
(***************************************************************************)
CONSTANTS
  Good, Refused, Unreadable,   (* the documents, by what the loader does   *)
  Default,                     (* the dashboard embedded in the firmware   *)
  Absent,                      (* no such file                             *)
  Torn                         (* a staged file not all of which is there  *)

Docs == Good \union Refused \union Unreadable

ASSUME ClassesDisjoint ==
  /\ Good \intersect Refused = {}
  /\ Good \intersect Unreadable = {}
  /\ Refused \intersect Unreadable = {}

ASSUME DefaultLoads == Default \in Good

ASSUME MarkersApart == Absent \notin Docs /\ Torn \notin Docs /\ Absent # Torn

VARIABLES
  primary,   (* dashboard.json                                             *)
  staged,    (* dashboard.json.tmp                                         *)
  backup,    (* dashboard.json.bak                                         *)
  wpc,       (* next step of the writer                                    *)
  via,       (* who writes: PUT_CONFIG, PUT_CONFIG_CHUNK or provisioning   *)
  doc,       (* the document the host last offered                         *)
  had,       (* finalize's hadOriginal                                     *)
  lvgl,      (* holder of the LVGL mutex                                   *)
  upc,       (* next step of the loader                                    *)
  kind,      (* a load at boot, or a reload the host asked for             *)
  first,     (* stageWithFallback is on its first stageDashboard           *)
  udoc,      (* the document the loader parsed                             *)
  outcome,   (* DashboardOutcome of this load                              *)
  flag,      (* PendingActions::configReload                               *)
  verdict,   (* ConfigReloadStatus::s_state                                *)
  risked,    (* history: a swap began that put the stored config at risk    *)
  faulted,   (* history: a SPIFFS call of a swap or a fallback failed        *)
  crossed,   (* history: the last commit landed before the load of another  *)
  acked      (* history: the committed document the host holds an ok for   *)

flash  == <<primary, staged, backup>>
writer == <<wpc, via, doc, had>>
loader == <<upc, kind, first, udoc, outcome>>
reload == <<flag, verdict>>
vars   == <<flash, writer, lvgl, loader, reload, risked, faulted, crossed, acked>>

-----------------------------------------------------------------------------
(* Power-on with an empty file system, before the storage driver mounts. *)

Init ==
  /\ primary = Absent /\ staged = Absent /\ backup = Absent
  /\ wpc = "idle" /\ via = "provision" /\ doc = Default /\ had = FALSE
  /\ lvgl = "free"
  /\ upc = "sweep" /\ kind = "boot" /\ first = TRUE
  /\ udoc = Absent /\ outcome = "none"
  /\ flag = FALSE /\ verdict = "idle"
  /\ risked = FALSE /\ faulted = FALSE /\ crossed = FALSE /\ acked = Absent

-----------------------------------------------------------------------------
(* The writer. *)

\* burnDashboard gives the mutex back when its scope ends; the chunked path
\* and provisioning never took it.
Unlocked == IF via = "line" THEN "free" ELSE lvgl

\* The writer is done, with or without success; a provisioning boot goes on.
WriterDone ==
  /\ wpc' = "idle" /\ had' = FALSE
  /\ lvgl' = Unlocked
  /\ upc' = IF via = "provision" THEN "primary" ELSE upc
  /\ UNCHANGED <<via, doc, kind, first, udoc, outcome>>

\* PUT_CONFIG opens dashboard.json.tmp under the LVGL mutex, PUT_CONFIG_CHUNK
\* without it.  Whatever was staged before is gone.
Begin(d, link) ==
  /\ wpc = "idle"
  /\ kind = "boot" => upc = "idle"
  /\ link = "line" => lvgl = "free"
  /\ lvgl' = IF link = "line" THEN "usb" ELSE lvgl
  /\ via' = link /\ doc' = d /\ staged' = Torn /\ wpc' = "staging"
  /\ UNCHANGED <<primary, backup, had, loader, reload, risked, faulted, crossed, acked>>

\* What the writer writes.
Payload == IF via = "provision" THEN Default ELSE doc

\* Without the byte count a partial upload would be closed and swapped in.
MutStageUnchecked ==
  /\ wpc = "staging"
  /\ staged' \in {Payload, Torn} /\ wpc' = "drop"
  /\ UNCHANGED <<primary, backup, via, doc, had, lvgl, loader, reload, risked, faulted, crossed, acked>>

\* The last byte is in, the counts agree, the file is closed.
StageComplete ==
  /\ wpc = "staging"
  /\ staged' = Payload /\ wpc' = "drop"
  /\ UNCHANGED <<primary, backup, via, doc, had, lvgl, loader, reload, risked, faulted, crossed, acked>>

\* endChunkedWriteChecked answers Committed for a slot that is not open: a writer
\* that finished after losing its staged file would be told ok.
MutFailAcked ==
  /\ wpc = "staging"
  /\ staged' \in {Absent, Torn}
  /\ WriterDone
  /\ acked' = doc
  /\ UNCHANGED <<primary, backup, reload, risked, faulted, crossed>>

\* Open failure, short write, bad chunk, idle timeout, corrupt embedded copy:
\* the staged file is dropped, or left behind when its removal fails.
StageFail ==
  /\ wpc = "staging"
  /\ staged' \in {Absent, Torn}
  /\ WriterDone
  /\ UNCHANGED <<primary, backup, reload, risked, faulted, crossed, acked>>

\* dropStaleBackup: a failed removal is logged and ignored.  The swap does not
\* look at what it is about to rotate into the backup: over a primary that does
\* not load it puts the stored config at risk.
DropStaleBackup ==
  /\ wpc = "drop" /\ wpc' = "check"
  /\ \/ backup' = Absent /\ UNCHANGED faulted
     \/ backup # Absent /\ faulted' = TRUE /\ UNCHANGED backup
  /\ risked' = (risked \/ (via # "provision" /\ primary \notin Good))
  /\ UNCHANGED <<primary, staged, via, doc, had, lvgl, loader, reload, crossed, acked>>

CheckOriginal ==
  /\ wpc = "check"
  /\ had' = (primary # Absent)
  /\ wpc' = IF primary # Absent THEN "rotate" ELSE "promote"
  /\ UNCHANGED <<flash, via, doc, lvgl, loader, reload, risked, faulted, crossed, acked>>

\* A rename over an existing file fails; this one removes the original first.
MutRemoveOriginal ==
  /\ wpc = "rotate" /\ wpc' = "promote"
  /\ primary' = Absent
  /\ UNCHANGED <<staged, backup, via, doc, had, lvgl, loader, reload, risked, faulted, crossed, acked>>

\* SPIFFS refuses a rename from a file that is gone or onto one that exists.
CanRename(from, to) == from # Absent /\ to = Absent

\* dashboard.json -> dashboard.json.bak.
Rotate ==
  /\ wpc = "rotate"
  /\ \/ /\ CanRename(primary, backup)
        /\ backup' = primary /\ primary' = Absent
        /\ wpc' = "promote" /\ UNCHANGED faulted
     \/ /\ wpc' = "discard"
        /\ faulted' = (faulted \/ CanRename(primary, backup))
        /\ UNCHANGED <<primary, backup>>
  /\ UNCHANGED <<staged, via, doc, had, lvgl, loader, reload, risked, crossed, acked>>

\* dashboard.json.tmp -> dashboard.json: the commit point.
Promote ==
  /\ wpc = "promote" /\ primary = Absent
  /\ primary' = staged /\ staged' = Absent
  /\ crossed' = (via # "provision" /\ (flag \/ upc # "idle"))
  /\ IF via = "provision"
       THEN WriterDone /\ UNCHANGED acked
       ELSE /\ wpc' = "mark" /\ had' = FALSE /\ lvgl' = Unlocked /\ acked' = Absent
            /\ UNCHANGED <<via, doc, loader>>
  /\ UNCHANGED <<backup, reload, risked, faulted>>

PromoteFails ==
  /\ wpc = "promote" /\ wpc' = IF had THEN "restore" ELSE "discard"
  /\ faulted' = (faulted \/ primary = Absent)
  /\ UNCHANGED <<flash, via, doc, had, lvgl, loader, reload, risked, crossed, acked>>

\* restoreOriginal: the promote failed, put the original back if possible.
RestoreOriginal ==
  /\ wpc = "restore" /\ wpc' = "discard"
  /\ \/ /\ CanRename(backup, primary)
        /\ primary' = backup /\ backup' = Absent /\ UNCHANGED faulted
     \/ /\ faulted' = (faulted \/ CanRename(backup, primary))
        /\ UNCHANGED <<primary, backup>>
  /\ UNCHANGED <<staged, via, doc, had, lvgl, loader, reload, risked, crossed, acked>>

\* dropTmp, then the error reply.
DropTmp ==
  /\ wpc = "discard"
  /\ staged' \in {staged, Absent}
  /\ WriterDone
  /\ UNCHANGED <<primary, backup, reload, risked, faulted, crossed, acked>>

\* requestConfigReload: markPending, then the mailbox flag.
MarkPending ==
  /\ wpc = "mark" /\ wpc' = "raise"
  /\ verdict' = "pending"
  /\ UNCHANGED <<flash, via, doc, had, lvgl, loader, flag, risked, faulted, crossed, acked>>

RaiseAndAck ==
  /\ wpc = "raise" /\ wpc' = "idle"
  /\ flag' = TRUE /\ acked' = doc
  /\ UNCHANGED <<flash, via, doc, had, lvgl, loader, verdict, risked, faulted, crossed>>

-----------------------------------------------------------------------------
(* Boot, on the setup task, before any other task runs. *)

\* Mount, and sweepOrphanTmp: a failed removal leaves the orphan.
Sweep ==
  /\ upc = "sweep" /\ upc' = "provision"
  /\ staged' \in {Absent, staged}
  /\ UNCHANGED <<primary, backup, writer, lvgl, kind, first, udoc, outcome, reload,
                 risked, faulted, crossed, acked>>

\* With only the primary looked at, a swap cut short would be overwritten.
MutProvisionIgnoresBackup ==
  /\ upc = "provision"
  /\ IF primary = Absent
       THEN /\ upc' = "provisioning"
            /\ via' = "provision" /\ staged' = Torn /\ wpc' = "staging"
       ELSE upc' = "primary" /\ UNCHANGED <<via, staged, wpc>>
  /\ UNCHANGED <<primary, backup, doc, had, lvgl, kind, first, udoc, outcome, reload,
                 risked, faulted, crossed, acked>>

\* provisionMissingFiles: the embedded copy is written only when neither the
\* file nor its backup is there.  (It is over an empty file too, which no writer here leaves.)
Provision ==
  /\ upc = "provision"
  /\ IF primary = Absent /\ backup = Absent
       THEN /\ upc' = "provisioning"
            /\ via' = "provision" /\ staged' = Torn /\ wpc' = "staging"
       ELSE upc' = "primary" /\ UNCHANGED <<via, staged, wpc>>
  /\ UNCHANGED <<primary, backup, doc, had, lvgl, kind, first, udoc, outcome, reload,
                 risked, faulted, crossed, acked>>

-----------------------------------------------------------------------------
(* The loader. *)

Conclude(o) ==
  /\ outcome' = o /\ upc' = "settle"

\* stageWithFallback's reading of a stageDashboard outcome.
Staged(o) ==
  IF first
    THEN IF o = "Refused" THEN upc' = "fallback" /\ outcome' = o ELSE Conclude(o)
    ELSE Conclude(IF o = "Loaded" THEN "RestoredPrevious" ELSE "Refused")

\* The UI task takes the reload request, holding the LVGL mutex for the whole
\* frame.  In workshop mode it runs the same loader as a dry run, with the same
\* effects on flash; on the dash the reload gives up at once when it cannot
\* allocate its blank screen.
TakeReload ==
  /\ upc = "idle" /\ flag /\ lvgl = "free"
  /\ flag' = FALSE /\ lvgl' = "ui" /\ kind' = "reload"
  /\ \/ upc' = "primary" /\ UNCHANGED outcome
     \/ Conclude("NoMemory")
  /\ UNCHANGED <<flash, writer, first, udoc, verdict, risked, faulted, crossed, acked>>

\* parsePrimary: out of memory ends the load, any other failure tries the backup.
ReadPrimary ==
  /\ upc = "primary"
  /\ \/ Staged("NoMemory") /\ UNCHANGED udoc
     \/ /\ primary \in Good \union Refused
        /\ udoc' = primary /\ upc' = "build" /\ UNCHANGED outcome
     \/ /\ primary \notin Good \union Refused
        /\ upc' = "backup" /\ UNCHANGED <<udoc, outcome>>
  /\ UNCHANGED <<flash, writer, lvgl, kind, first, reload, risked, faulted, crossed, acked>>

\* recoverFromBak: exists and parse.
ReadBackup ==
  /\ upc = "backup"
  /\ \/ backup # Absent /\ Staged("NoMemory") /\ UNCHANGED udoc
     \/ backup \in Good \union Refused /\ udoc' = backup /\ upc' = "recover" /\ UNCHANGED outcome
     \/ backup \notin Good \union Refused /\ Staged("Unreadable") /\ UNCHANGED udoc
  /\ UNCHANGED <<flash, writer, lvgl, kind, first, reload, risked, faulted, crossed, acked>>

\* Then the backup is renamed over the primary, which fails, harmlessly to this
\* load, when an unreadable primary is still there.
RecoverFromBak ==
  /\ upc = "recover" /\ upc' = "build"
  /\ \/ /\ CanRename(backup, primary)
        /\ primary' = backup /\ backup' = Absent /\ UNCHANGED faulted
     \/ /\ faulted' = (faulted \/ CanRename(backup, primary))
        /\ UNCHANGED <<primary, backup>>
  /\ UNCHANGED <<staged, writer, lvgl, kind, first, udoc, outcome, reload, risked, crossed, acked>>

\* buildDashboard.
Build ==
  /\ upc = "build"
  /\ \/ udoc \in Good /\ Staged("Loaded")
     \/ udoc \in Refused /\ Staged("Refused")
     \/ Staged("NoMemory")
  /\ UNCHANGED <<flash, writer, lvgl, kind, first, udoc, reload, risked, faulted, crossed, acked>>

\* promoteBackup: is there a backup to restore?
FindPrevious ==
  /\ upc = "fallback"
  /\ IF backup = Absent THEN Conclude("Refused") ELSE upc' = "remove" /\ UNCHANGED outcome
  /\ UNCHANGED <<flash, writer, lvgl, kind, first, udoc, reload, risked, faulted, crossed, acked>>

\* promoteBackup: remove the refused file.
RemoveRefused ==
  /\ upc = "remove"
  /\ \/ primary' = Absent /\ upc' = "restore" /\ UNCHANGED <<outcome, faulted>>
     \/ /\ primary # Absent /\ Conclude("Refused")
        /\ faulted' = TRUE /\ UNCHANGED primary
  /\ UNCHANGED <<staged, backup, writer, lvgl, kind, first, udoc, reload, risked, crossed, acked>>

\* promoteBackup: rename the backup, then stage again.
RestorePrevious ==
  /\ upc = "restore"
  /\ \/ /\ CanRename(backup, primary)
        /\ primary' = backup /\ backup' = Absent
        /\ first' = FALSE /\ upc' = "primary" /\ UNCHANGED <<outcome, faulted>>
     \/ /\ Conclude("Refused")
        /\ faulted' = (faulted \/ CanRename(backup, primary))
        /\ UNCHANGED <<primary, backup, first>>
  /\ UNCHANGED <<staged, writer, lvgl, kind, udoc, reload, risked, crossed, acked>>

\* A restored previous file taken for the upload.
MutStateForOutcome ==
  [Loaded |-> "applied", RestoredPrevious |-> "applied", Refused |-> "refused",
   Unreadable |-> "refused", NoMemory |-> "unchecked"]

\* ConfigReloadStatus::kStateForOutcome.
StateForOutcome ==
  [Loaded |-> "applied", RestoredPrevious |-> "refused", Refused |-> "refused",
   Unreadable |-> "refused", NoMemory |-> "unchecked"]

\* A reload that ends without settling its verdict.
MutSettleNever ==
  /\ upc = "settle" /\ upc' = "idle"
  /\ lvgl' = IF kind = "boot" THEN lvgl ELSE "free"
  /\ first' = TRUE /\ udoc' = Absent /\ outcome' = "none"
  /\ UNCHANGED <<flash, writer, kind, reload, risked, faulted, crossed, acked>>

\* loadDashboard is over; uiSettleConfigReload publishes the verdict of a reload.
Settle ==
  /\ upc = "settle" /\ upc' = "idle"
  /\ lvgl' = IF kind = "boot" THEN lvgl ELSE "free"
  /\ verdict' = IF kind = "boot" THEN verdict ELSE StateForOutcome[outcome]
  /\ first' = TRUE /\ udoc' = Absent /\ outcome' = "none"
  /\ UNCHANGED <<flash, writer, kind, flag, risked, faulted, crossed, acked>>

-----------------------------------------------------------------------------
(* Power fails, or the dash restarts: RAM is lost, flash is not. *)

PowerCut ==
  /\ wpc' = "idle" /\ lvgl' = "free" /\ flag' = FALSE /\ verdict' = "idle"
  /\ upc' = "sweep" /\ kind' = "boot" /\ first' = TRUE /\ udoc' = Absent /\ outcome' = "none"
  /\ via' = "provision" /\ had' = FALSE
  /\ crossed' = FALSE
  /\ UNCHANGED <<flash, doc, risked, faulted, acked>>

Host == \E d \in Docs, link \in {"line", "chunk"} : Begin(d, link)

WriterStep ==
  \/ StageComplete \/ StageFail
  \/ DropStaleBackup \/ CheckOriginal \/ Rotate \/ Promote \/ PromoteFails
  \/ RestoreOriginal \/ DropTmp
  \/ MarkPending \/ RaiseAndAck

LoaderStep ==
  \/ Sweep \/ Provision
  \/ ReadPrimary \/ ReadBackup \/ RecoverFromBak \/ Build
  \/ FindPrevious \/ RemoveRefused \/ RestorePrevious \/ Settle

Next == Host \/ WriterStep \/ TakeReload \/ LoaderStep \/ PowerCut

Spec == Init /\ [][Next]_vars

\* Both tasks run for ever.  The UI task retries the mutex every frame and has
\* the higher priority, so a mutex that is free again and again is taken.
FairSpec == Spec /\ WF_vars(WriterStep) /\ WF_vars(LoaderStep) /\ SF_vars(TakeReload)

-----------------------------------------------------------------------------
(* Properties. *)

\* The document the next boot would bring up from the files p and b: the primary
\* when it loads, else the backup when it loads; the embedded one when neither
\* file exists.
BootDoc(p, b) ==
  IF p = Absent /\ b = Absent THEN Default
  ELSE IF p \in Good THEN p
  ELSE IF b \in Good THEN b
  ELSE Absent

\* Nothing has put the stored config beyond what the swap protects.
Safe == ~risked /\ ~faulted

\* Types, and that a torn upload is never anything but the staged file.
TypeOK ==
  /\ primary \in Docs \union {Absent}
  /\ backup \in Docs \union {Absent}
  /\ staged \in Docs \union {Absent, Torn}
  /\ wpc \in {"idle", "staging", "drop", "check", "rotate", "promote", "restore", "discard",
              "mark", "raise"}
  /\ via \in {"provision", "line", "chunk"}
  /\ doc \in Docs /\ had \in BOOLEAN
  /\ lvgl \in {"free", "usb", "ui"}
  /\ upc \in {"sweep", "provision", "provisioning", "idle", "primary", "backup", "recover",
              "build", "fallback", "remove", "restore", "settle"}
  /\ kind \in {"boot", "reload"} /\ first \in BOOLEAN
  /\ udoc \in Docs \union {Absent}
  /\ outcome \in DOMAIN StateForOutcome \union {"none"}
  /\ flag \in BOOLEAN
  /\ verdict \in {"idle", "pending", "applied", "refused", "unchecked"}
  /\ risked \in BOOLEAN /\ faulted \in BOOLEAN /\ crossed \in BOOLEAN
  /\ acked \in Docs \union {Absent}

\* As long as no swap started over a primary that does not load and no SPIFFS
\* call of a swap or a fallback failed, there is at every instant a dashboard the
\* next boot can bring up, whatever is uploaded, however the swap interleaves with
\* a load, and wherever the power fails.
SafeFallback == Safe => BootDoc(primary, backup) \in Good

\* Under the same proviso an upload the host holds an ok for is the one the next
\* boot brings up, if it loads at all.
AckMeansCommitted == Safe /\ acked \in Good => BootDoc(primary, backup) = acked

Quiet == wpc = "idle" /\ upc = "idle" /\ ~flag

\* Under the same proviso, for an upload committed when no load was due or under
\* way, and once both tasks are done, the reload verdict the host polls is about
\* its upload: applied, and that file is the config; refused, and a file that loads
\* has replaced it; unchecked, and it is untouched.
VerdictHonest ==
  Safe /\ ~crossed /\ Quiet =>
    /\ verdict = "applied" => primary = acked
    /\ verdict = "refused" => acked \in Refused /\ primary \in Good
    /\ verdict = "unchecked" => primary = acked
    /\ verdict # "pending"

\* usb-transport.md, the reload verdict: applied means that the uploaded file
\* loaded, SPIFFS faults aside.  The code breaks this one: a file that does not
\* parse makes the loader fall back to the backup, which counts as loaded.
AppliedMeansLoaded == ~faulted /\ Quiet /\ verdict = "applied" => acked \in Good

\* The same line for a file the loader refuses.  The code breaks this as well: when
\* the load of an earlier upload meets the new file, refuses it and restores the
\* previous one, the reload asked for by the new file judges the restored one.
AppliedIsNotRefused == ~faulted /\ Quiet /\ verdict = "applied" => acked \notin Refused

\* flash-layout.md, atomic writes: a burn cut short costs the last change, not the
\* config, SPIFFS faults aside and once the previous upload is reported applied.
\* The code breaks this one too: behind an unreadable primary reported applied,
\* the next swap drops the backup, the only copy that loads.
BurnCostsLastChange == ~faulted /\ verdict = "applied" => BootDoc(primary, backup) \in Good

\* The verdict leaves pending: the tuner's polling ends.
PendingSettles == verdict = "pending" ~> verdict # "pending"

\* The stored config is an atomic register, across loads, fallbacks and power cuts.
Register == INSTANCE ConfigRegister WITH
  value <- BootDoc(primary, backup), offer <- doc, intact <- Safe

ImplementsRegister == Register!Spec
=============================================================================
