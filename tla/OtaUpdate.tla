------------------------------ MODULE OtaUpdate ------------------------------
(***************************************************************************)
(* A firmware update, from OTA_BEGIN to the image being marked valid: the   *)
(* receiver and the session watch on the USB task, the restart into the     *)
(* trial slot, the soak and the mark on the UI task, workshop mode with its *)
(* resume after a reboot, and the bootloader that rolls a trial back.       *)
(*                                                                         *)
(* Two tasks interleave: the USB task serves one command or tick after the  *)
(* other, the UI task draws frames and leaves workshop mode.  Either may     *)
(* restart the dash while the other is in the middle of something, and so   *)
(* may a crash.  Hosts are arbitrary: any of them may send any chunk of any *)
(* image at any time.                                                      *)
(*                                                                         *)
(* An image is Size parts.  A slot holds, part by part, the image the part  *)
(* was written from.                                                       *)
(***************************************************************************)
EXTENDS Naturals

CONSTANTS
  Images, Signed,   (* all there are; those with the release key's signature *)
  Offered,          (* those hosts send                                    *)
  Factory,          (* the image of slot 0 to begin with                   *)
  Blank,            (* a part that was never written                       *)
  NoImage,
  Size              (* parts of an image                                   *)

ASSUME SignedImages == Signed \subseteq Images /\ Factory \in Signed
ASSUME OfferedImages == Offered \subseteq Images
ASSUME MarkersApart == Blank \notin Images /\ NoImage \notin Images
ASSUME SizeAssumption == Size \in Nat \ {0}

VARIABLES
  slots,     (* the two app partitions                                     *)
  img,       (* esp_ota_img_states_t of each                               *)
  boot,      (* the slot the active otadata entry names                    *)
  running,   (* the slot the dash runs from                                *)
  rx,        (* OtaReceiver and the session clock                          *)
  usb,       (* what the USB task is busy with: see Idle                   *)
  ui,        (* what the UI task is busy with: run, mark, restart          *)
  mode,      (* WorkshopMode::s_state, behind the two steps of a boot      *)
  soaked,    (* up for kSoakMs                                             *)
  marked,    (* otaSlotMarked                                              *)
  closed,    (* s_socketClosed                                             *)
  resume,    (* the resume reason in NVS                                   *)
  why,       (* the reason this boot took                                  *)
  proven,    (* history: images that have been up for kSoakMs              *)
  asked      (* history: what a socket command last asked to restart for;  *)
             (* "unknown" once a write to NVS has failed                   *)

flash == <<slots, img, boot>>
ram   == <<running, rx, usb, ui, mode, soaked, marked, closed, why>>
vars  == <<flash, ram, resume, proven, asked>>

Slots == {0, 1}
Other(s) == 1 - s
Hosts == {"serial", "socket"}
Parts == 1..Size

\* All of slot s is image i.
Holds(s, i) == slots[s] = [k \in Parts |-> i]

\* The image a slot's contents are, if they are one, and the image slot s starts.
ImageIn(c) == IF \E i \in Images : c = [k \in Parts |-> i] THEN c[1] ELSE NoImage
ImageOf(s) == ImageIn(slots[s])

\* Idle, Committed and Failed: no session.
NoSession == [open |-> FALSE, image |-> NoImage, written |-> 0, host |-> "serial", stale |-> FALSE]
Idle == [at |-> "idle", host |-> "serial", why |-> "none"]

Init ==
  /\ slots = [s \in Slots |-> [k \in Parts |-> IF s = 0 THEN Factory ELSE Blank]]
  /\ img = [s \in Slots |-> IF s = 0 THEN "valid" ELSE "undefined"]
  /\ boot = 0 /\ running = 0
  /\ rx = NoSession /\ usb = Idle /\ ui = "run"
  /\ mode = "booting" /\ soaked = FALSE /\ marked = FALSE /\ closed = FALSE
  /\ resume = "none" /\ why = "none"
  /\ proven = {Factory} /\ asked = "none"

-----------------------------------------------------------------------------
(* The bootloader and the boot sequence. *)

\* A reset: RAM is lost, and the bootloader starts a new image on trial, undoes a
\* trial that did not get to its mark, or starts the same image again.
Reset ==
  /\ rx' = NoSession /\ usb' = Idle /\ ui' = "run"
  /\ mode' = "booting" /\ soaked' = FALSE /\ marked' = FALSE /\ closed' = FALSE
  /\ why' = "none"
  /\ boot' = IF img[boot] = "pending" THEN Other(boot) ELSE boot
  /\ running' = boot'
  /\ img' = IF img[boot] = "pending" THEN [img EXCEPT ![boot] = "aborted"]
            ELSE IF img[boot] = "new" THEN [img EXCEPT ![boot] = "pending"]
            ELSE img
  /\ UNCHANGED slots

\* runningImagePendingVerify.
OnTrial == img[running] = "pending"

\* A resume request that is read and left there.
MutTakeResume ==
  /\ mode = "booting" /\ mode' = "setup"
  /\ why' = resume
  /\ UNCHANGED <<flash, running, rx, usb, ui, soaked, marked, closed, resume, proven, asked>>

\* takeResumeRequest: first thing of a boot; a reason that cannot be cleared does
\* not count.
TakeResume ==
  /\ mode = "booting" /\ mode' = "setup"
  /\ \/ why' = resume /\ resume' = "none" /\ UNCHANGED asked
     \/ resume # "none" /\ why' = "none" /\ asked' = "unknown" /\ UNCHANGED resume
  /\ UNCHANGED <<flash, running, rx, usb, ui, soaked, marked, closed, proven>>

\* resumeAfterReboot, last thing of a boot; not without a file system.
ResumeAfterReboot ==
  /\ mode = "setup"
  /\ mode' \in IF why = "config" \/ (why = "update" /\ OnTrial) THEN {"entering", "driving"}
               ELSE {"driving"}
  /\ why' = "none"
  /\ asked' = IF asked = "unknown" THEN asked ELSE "none"
  /\ UNCHANGED <<flash, running, rx, usb, ui, soaked, marked, closed, resume, proven>>

\* A crash, a power cut, or a restart nobody prepares: a long press, a board
\* profile, a rotation.
Crash == Reset /\ UNCHANGED <<resume, proven, asked>>

Up == mode \in {"driving", "entering", "active"}

-----------------------------------------------------------------------------
(* The USB task: OtaReceiver and its handlers. *)

\* A tuner on the socket needs workshop mode; the USB task is free.
Serves(h) == Up /\ usb = Idle /\ (h = "socket" => mode = "active")

OnlyRx == UNCHANGED <<flash, running, usb, ui, mode, soaked, marked, closed, resume, why, proven,
                      asked>>

\* esp_ota_begin refuses while the running image is on trial.
BeginAllowed == ~OnTrial

\* handleOtaBegin: bad arguments leave a session alone; a refusal ends it.
Begin(h, i) ==
  /\ Serves(h)
  /\ \/ /\ BeginAllowed
        /\ rx' = [open |-> TRUE, image |-> i, written |-> 0, host |-> h, stale |-> FALSE]
     \/ rx' = NoSession
  /\ OnlyRx

\* Not even the length is looked at.
MutInSequence(k) == k = rx.written + 1

\* The offset is what was written so far, and the chunk fits.
InSequence(k) == k = rx.written + 1 /\ k <= Size

\* A refused chunk that counts as activity.
MutRefuseChunk(h, k) ==
  /\ Serves(h)
  /\ ~rx.open \/ ~InSequence(k)
  /\ rx' = [rx EXCEPT !.stale = FALSE]
  /\ OnlyRx

\* refuseChunk: the session goes on as it was.
RefuseChunk(h, k) ==
  /\ Serves(h)
  /\ ~rx.open \/ ~InSequence(k)
  /\ UNCHANGED vars

\* writeChunk, part k of image i, whoever sends it.
WriteChunk(h, i, k) ==
  /\ Serves(h) /\ rx.open /\ InSequence(k)
  /\ rx' = [rx EXCEPT !.written = k, !.stale = FALSE]
  /\ slots' = [slots EXCEPT ![Other(running)][k] = i]
  /\ UNCHANGED <<img, boot, running, usb, ui, mode, soaked, marked, closed, resume, why, proven,
                 asked>>

\* abortWrite, a chunk that does not decode, OTA_END abort, and a commit of what
\* fails the checks or cannot be activated.
AbortSession(h) ==
  /\ Serves(h) /\ rx.open
  /\ rx' = NoSession
  /\ OnlyRx

\* The hash alone.
MutImageAccepted == rx.written = Size /\ Holds(Other(running), rx.image)

\* imageRejection: the length, the hash that BEGIN announced, the signature.
ImageAccepted ==
  /\ rx.written = Size
  /\ Holds(Other(running), rx.image)
  /\ rx.image \in Signed

\* The boot partition set before the image is checked.
MutCommit(h) ==
  /\ Serves(h) /\ rx.open
  /\ rx' = IF ImageAccepted THEN NoSession ELSE NoSession
  /\ boot' = Other(running) /\ img' = [img EXCEPT ![Other(running)] = "new"]
  /\ usb' = [at |-> "arm", host |-> h, why |-> "update"]
  /\ UNCHANGED <<slots, running, ui, mode, soaked, marked, closed, resume, why, proven, asked>>

\* commit, activateImage: the next boot is of the new image.
Commit(h) ==
  /\ Serves(h) /\ rx.open /\ ImageAccepted
  /\ rx' = NoSession
  /\ boot' = Other(running) /\ img' = [img EXCEPT ![Other(running)] = "new"]
  /\ usb' = [at |-> "arm", host |-> h, why |-> "update"]
  /\ UNCHANGED <<slots, running, ui, mode, soaked, marked, closed, resume, why, proven, asked>>

\* A saved device config, input bindings or signals file.
SaveConfig(h) ==
  /\ Serves(h)
  /\ usb' = [at |-> "arm", host |-> h, why |-> "config"]
  /\ UNCHANGED <<flash, running, rx, ui, mode, soaked, marked, closed, resume, why, proven, asked>>

\* armResume, for a command that came over the socket.
Arm ==
  /\ usb.at = "arm" /\ usb' = [Idle EXCEPT !.at = "hold"]
  /\ resume' \in IF usb.host = "socket" THEN {usb.why, resume} ELSE {resume}
  /\ asked' = IF asked = "unknown" THEN asked
              ELSE IF usb.host = "socket" THEN usb.why ELSE "none"
  /\ UNCHANGED <<flash, running, rx, ui, mode, soaked, marked, closed, why, proven>>

\* The reply, the completion screen, and flushAndRestart.
UsbRestart == usb.at = "hold" /\ Reset /\ UNCHANGED <<resume, proven, asked>>

-----------------------------------------------------------------------------
(* The session watch, on the USB task's tick. *)

\* The session clock runs out.
Age ==
  /\ rx.open /\ ~rx.stale
  /\ rx' = [rx EXCEPT !.stale = TRUE]
  /\ OnlyRx

IdleTimeout ==
  /\ usb = Idle /\ rx.open /\ rx.stale
  /\ rx' = NoSession
  /\ OnlyRx

SocketClose ==
  /\ mode = "active" /\ closed' = TRUE
  /\ UNCHANGED <<flash, running, rx, usb, ui, mode, soaked, marked, resume, why, proven, asked>>

TakeSocketClose ==
  /\ usb = Idle /\ closed /\ closed' = FALSE
  /\ rx' = IF rx.open /\ rx.host = "socket" THEN NoSession ELSE rx
  /\ UNCHANGED <<flash, running, usb, ui, mode, soaked, marked, resume, why, proven, asked>>

-----------------------------------------------------------------------------
(* The UI task. *)

\* Without asking what the running image is.
MutMark == img' = [img EXCEPT ![boot] = "valid"]

\* markOtaSlotValidIfPending.  The library marks the active otadata entry, which
\* need not be the running slot's, and may fail.
Mark == \/ OnTrial /\ img' = [img EXCEPT ![boot] = "valid"]
        \/ UNCHANGED img

\* The uptime reaches kSoakMs.
Soak ==
  /\ Up /\ ~soaked /\ soaked' = TRUE
  /\ proven' = proven \union {ImageOf(running)}
  /\ UNCHANGED <<flash, running, rx, usb, ui, mode, marked, closed, resume, why, asked>>

OnlyMark == UNCHANGED <<slots, boot, running, rx, usb, mode, soaked, closed, resume, why, proven,
                        asked>>

\* Workshop frames count, dash frames do not.
MutDashFrame ==
  /\ ui = "run" /\ mode = "active" /\ ~marked /\ soaked
  /\ marked' = TRUE /\ Mark
  /\ UNCHANGED ui /\ OnlyMark

\* uiHandleOtaMark: once per boot, whatever comes of it, and not on a workshop frame.
DashFrame ==
  /\ Up /\ ui = "run" /\ mode # "active" /\ ~marked /\ soaked
  /\ marked' = TRUE /\ Mark
  /\ UNCHANGED ui /\ OnlyMark

\* request, and the UI task that builds the workshop screen or fails to.
RequestWorkshop ==
  /\ mode = "driving" /\ ui = "run" /\ mode' = "entering"
  /\ UNCHANGED <<flash, running, rx, usb, ui, soaked, marked, closed, resume, why, proven, asked>>

SettleEntry ==
  /\ mode = "entering" /\ ui = "run" /\ mode' \in {"active", "driving"}
  /\ UNCHANGED <<flash, running, rx, usb, ui, soaked, marked, closed, resume, why, proven, asked>>

\* The Leave button, or leaveOnMotion, which takes a resume request back.
Leave ==
  /\ mode = "active" /\ ui = "run" /\ ui' = "mark"
  /\ resume' \in {resume, "none"}
  /\ UNCHANGED <<flash, running, rx, usb, mode, soaked, marked, closed, why, proven, asked>>

\* restartIntoDash.
MarkLeaving ==
  /\ ui = "mark" /\ ui' = "restart"
  /\ IF soaked THEN Mark ELSE UNCHANGED img
  /\ UNCHANGED marked /\ OnlyMark

UiRestart == ui = "restart" /\ Reset /\ UNCHANGED <<resume, proven, asked>>

-----------------------------------------------------------------------------
Host ==
  \E h \in Hosts :
    \/ \E i \in Offered : Begin(h, i)
    \/ \E k \in 1..Size + 1 : RefuseChunk(h, k) \/ \E i \in Offered : WriteChunk(h, i, k)
    \/ AbortSession(h) \/ Commit(h) \/ SaveConfig(h)

UiStep == SettleEntry \/ MarkLeaving \/ UiRestart

BootStep == TakeResume \/ ResumeAfterReboot

Watch == IdleTimeout \/ TakeSocketClose

Next ==
  \/ Host \/ Arm \/ UsbRestart
  \/ Age \/ Watch \/ SocketClose
  \/ Soak \/ DashFrame \/ UiStep \/ RequestWorkshop \/ Leave
  \/ BootStep \/ Crash

Spec == Init /\ [][Next]_vars

\* The tasks and the clocks run for ever; nothing else has to happen.
FairSpec ==
  Spec /\ WF_vars(Age) /\ WF_vars(IdleTimeout) /\ WF_vars(Arm) /\ WF_vars(UsbRestart)
       /\ WF_vars(Soak) /\ WF_vars(DashFrame) /\ WF_vars(UiStep) /\ WF_vars(BootStep)

-----------------------------------------------------------------------------
(* Properties. *)

Reasons == {"none", "update", "config"}
ImgStates == {"undefined", "new", "pending", "valid", "aborted"}

\* Types; a session never writes past the image (writeChunk).
TypeOK ==
  /\ slots \in [Slots -> [Parts -> Images \union {Blank}]]
  /\ img \in [Slots -> ImgStates]
  /\ boot \in Slots /\ running \in Slots
  /\ rx \in [open : BOOLEAN, image : Images \union {NoImage}, written : 0..Size,
             host : Hosts, stale : BOOLEAN]
  /\ usb \in [at : {"idle", "arm", "hold"}, host : Hosts, why : Reasons]
  /\ ui \in {"run", "mark", "restart"}
  /\ mode \in {"booting", "setup", "driving", "entering", "active"}
  /\ soaked \in BOOLEAN /\ marked \in BOOLEAN /\ closed \in BOOLEAN
  /\ resume \in Reasons /\ why \in Reasons
  /\ proven \subseteq Images \union {NoImage}
  /\ asked \in Reasons \union {"unknown"}

\* Whatever hosts send in whatever order, and wherever a reset strikes: the next
\* boot is of an image that is whole and signed, and while it is on trial so is the
\* one the bootloader would go back to.
AlwaysBootable ==
  /\ ImageOf(boot) \in Signed
  /\ img[boot] \in {"new", "pending"} =>
       ImageOf(Other(boot)) \in Signed /\ img[Other(boot)] = "valid"

\* An image is marked valid only after it has been up for kSoakMs itself: never by
\* the image that fetched it.
TrialIsTried == img[boot] = "valid" => ImageOf(boot) \in proven

\* A boot enters workshop mode by itself only for the restart a command over the
\* socket asked for, and once; unless a request could not be cleared before.
ResumeIsOwed ==
  [][mode = "setup" /\ mode' = "entering" => asked \in {why, "unknown"}]_vars

\* workshop-mode.md, the resume reasons: for config nothing is required because the
\* image did not change.  The code breaks it: the restart of a config saved while
\* the running image is on trial is what rolls it back.
ConfigResumeKeepsImage ==
  [][Up /\ resume = "config" /\ mode' = "booting" => ImageOf(running') = ImageOf(running)]_vars

BeginStep == \E h \in Hosts, i \in Offered : Begin(h, i)

\* When hosts stop beginning sessions, the last one ends, whatever else they send.
SessionEnds == <>[][~BeginStep]_vars => (rx.open ~> ~rx.open)

\* A trial ends, unless the dash stays in workshop mode or the mark of this boot has
\* failed: the soak, the first frame after it and the reset are enough.
TrialSettles == OnTrial ~> ~OnTrial \/ mode = "active" \/ marked

\* The image a reset falls back on, and the one on trial from its commit on.
Trying == img[boot] \in {"new", "pending"}
Confirmed == ImageOf(IF Trying THEN Other(boot) ELSE boot)
Candidate == IF Trying THEN ImageOf(boot) ELSE NoImage

\* An update is a trial: one image runs, a signed one may replace it, and is undone
\* unless it is confirmed.
Trial == INSTANCE TrialBoot WITH confirmed <- Confirmed, trial <- Candidate

ImplementsTrialBoot == Trial!Spec
=============================================================================
