----------------------------- MODULE OtaProofs ------------------------------
(* Proofs about OtaUpdate, for every set of images and every image size. *)
EXTENDS OtaUpdate, TLAPS

\* Which slot runs while which is the boot slot, and when a session can be open.
Boots ==
  /\ img[boot] \in {"valid", "new", "pending"}
  /\ img[boot] # "new" => running = boot
  /\ img[boot] = "new" => running = Other(boot) /\ usb.at # "idle"
  /\ img[boot] \in {"new", "pending"} => ~rx.open /\ img[Other(boot)] = "valid"

\* What the slots hold: signed images, the confirmed one proven.
Sound ==
  /\ ImageOf(boot) \in Signed
  /\ img[boot] \in {"new", "pending"} => ImageOf(Other(boot)) \in Signed \intersect proven
  /\ img[boot] = "valid" => ImageOf(boot) \in proven
  /\ soaked => ImageOf(running) \in proven

IInv == TypeOK /\ Boots /\ Sound
-----------------------------------------------------------------------------
\* A slot written full with one image holds that image.
LEMMA WholeImage ==
  ASSUME NEW i \in Images
  PROVE  ImageIn([k \in Parts |-> i]) = i
<1>1. 1 \in Parts
  BY SizeAssumption DEF Parts
<1>q. QED
  BY <1>1 DEF ImageIn

\* What a slot holds is an image or none.
LEMMA ImageInType ==
  ASSUME NEW c \in [Parts -> Images \union {Blank}]
  PROVE  ImageIn(c) \in Images \union {NoImage}
<1>1. 1 \in Parts
  BY SizeAssumption DEF Parts
<1>q. QED
  BY <1>1 DEF ImageIn

\* The invariant holds of a dash fresh from the factory.
LEMMA InitInv == Init => IInv
<1> SUFFICES ASSUME Init PROVE IInv
  OBVIOUS
<1>1. slots[0] = [k \in Parts |-> Factory] /\ Factory \in Images
  BY SignedImages DEF Init, Slots
<1>2. ImageOf(0) = Factory
  BY <1>1, WholeImage DEF ImageOf
<1>3. slots \in [Slots -> [Parts -> Images \union {Blank}]]
  <2>1. \A t \in Slots : [k \in Parts |-> IF t = 0 THEN Factory ELSE Blank]
                           \in [Parts -> Images \union {Blank}]
    BY <1>1
  <2>q. QED
    BY <2>1 DEF Init
<1>4. TypeOK
  <2>1. rx \in [open : BOOLEAN, image : Images \union {NoImage}, written : 0..Size,
                host : Hosts, stale : BOOLEAN]
    BY SizeAssumption DEF Init, NoSession, Hosts
  <2>q. QED
    BY <1>1, <1>3, <2>1 DEF Init, TypeOK, Slots, Idle, Hosts, Reasons, ImgStates
<1>q. QED
  BY <1>2, <1>4, SignedImages DEF Init, IInv, Boots, Sound, Slots, NoSession

\* A reset keeps the types of what survives it, and starts the rest over.
LEMMA ResetType ==
  ASSUME TypeOK, Reset
  PROVE  /\ slots' = slots /\ img' \in [Slots -> ImgStates]
         /\ boot' \in Slots /\ running' \in Slots
         /\ rx' = NoSession /\ usb' = Idle /\ ui' = "run" /\ mode' = "booting"
         /\ soaked' = FALSE /\ marked' = FALSE /\ closed' = FALSE /\ why' = "none"
BY DEF TypeOK, Reset, Slots, Other, ImgStates

\* A session and the USB task, as they are when nothing is going on, have their types.
LEMMA RestTypes ==
  /\ NoSession \in [open : BOOLEAN, image : Images \union {NoImage}, written : 0..Size,
                    host : Hosts, stale : BOOLEAN]
  /\ Idle \in [at : {"idle", "arm", "hold"}, host : Hosts, why : Reasons]
BY SizeAssumption DEF NoSession, Idle, Hosts, Reasons

\* Types are kept by every step.
LEMMA TypeStep == TypeOK /\ [Next]_vars => TypeOK'
<1> SUFFICES ASSUME TypeOK, [Next]_vars PROVE TypeOK'
  OBVIOUS
<1> USE DEF flash, ram
<1>1. ASSUME NEW h \in Hosts, NEW i \in Offered, Begin(h, i)
      PROVE  TypeOK'
  <2>1. i \in Images \union {NoImage} /\ 0 \in 0..Size
    BY OfferedImages, SizeAssumption
  <2>2. rx' \in [open : BOOLEAN, image : Images \union {NoImage}, written : 0..Size,
                 host : Hosts, stale : BOOLEAN]
    <3>1. CASE rx' = NoSession
      BY <3>1, RestTypes
    <3>2. CASE rx' = [open |-> TRUE, image |-> i, written |-> 0, host |-> h, stale |-> FALSE]
      BY <3>2, <2>1
    <3>q. QED
      BY <1>1, <3>1, <3>2 DEF Begin
  <2>q. QED
    BY <1>1, <2>2 DEF Begin, OnlyRx, TypeOK
<1>2. ASSUME NEW h \in Hosts, NEW k \in 1..Size + 1, RefuseChunk(h, k)
      PROVE  TypeOK'
  BY <1>2 DEF RefuseChunk, vars, TypeOK
<1>3. ASSUME NEW h \in Hosts, NEW k \in 1..Size + 1, NEW i \in Offered, WriteChunk(h, i, k)
      PROVE  TypeOK'
  <2>1. k \in Parts /\ k \in 0..Size /\ i \in Images \union {Blank}
    BY <1>3, SizeAssumption, OfferedImages DEF WriteChunk, InSequence, Parts
  <2>2. slots' \in [Slots -> [Parts -> Images \union {Blank}]]
    BY <1>3, <2>1 DEF WriteChunk, TypeOK
  <2>3. rx' \in [open : BOOLEAN, image : Images \union {NoImage}, written : 0..Size,
                 host : Hosts, stale : BOOLEAN]
    BY <1>3, <2>1 DEF WriteChunk, TypeOK
  <2>q. QED
    BY <1>3, <2>2, <2>3 DEF WriteChunk, TypeOK
<1>4. ASSUME NEW h \in Hosts, AbortSession(h)
      PROVE  TypeOK'
  BY <1>4, RestTypes DEF AbortSession, OnlyRx, TypeOK
<1>5. ASSUME NEW h \in Hosts, Commit(h)
      PROVE  TypeOK'
  <2>1. boot' \in Slots /\ img' \in [Slots -> ImgStates]
    BY <1>5 DEF Commit, TypeOK, Slots, Other, ImgStates
  <2>2. usb' \in [at : {"idle", "arm", "hold"}, host : Hosts, why : Reasons]
    BY <1>5 DEF Commit, Reasons
  <2>q. QED
    BY <1>5, <2>1, <2>2, RestTypes DEF Commit, TypeOK
<1>6. ASSUME NEW h \in Hosts, SaveConfig(h)
      PROVE  TypeOK'
  <2>1. usb' \in [at : {"idle", "arm", "hold"}, host : Hosts, why : Reasons]
    BY <1>6 DEF SaveConfig, Reasons
  <2>q. QED
    BY <1>6, <2>1 DEF SaveConfig, TypeOK
<1>7. CASE Arm
  <2>1. usb' \in [at : {"idle", "arm", "hold"}, host : Hosts, why : Reasons]
    BY <1>7, RestTypes DEF Arm
  <2>2. resume' \in Reasons /\ asked' \in Reasons \union {"unknown"}
    BY <1>7 DEF Arm, TypeOK, Reasons
  <2>q. QED
    BY <1>7, <2>1, <2>2 DEF Arm, TypeOK
<1>8. CASE UsbRestart \/ UiRestart \/ Crash
  <2>1. Reset /\ UNCHANGED <<resume, proven, asked>>
    BY <1>8 DEF UsbRestart, UiRestart, Crash
  <2>q. QED
    BY <2>1, ResetType, RestTypes DEF TypeOK, Reasons
<1>9. CASE Age
  BY <1>9 DEF Age, OnlyRx, TypeOK
<1>10. CASE IdleTimeout
  BY <1>10, RestTypes DEF IdleTimeout, OnlyRx, TypeOK
<1>11. CASE TakeSocketClose
  BY <1>11, RestTypes DEF TakeSocketClose, TypeOK
<1>12. CASE SocketClose
  BY <1>12 DEF SocketClose, TypeOK
<1>13. CASE Soak
  <2>1. proven' \subseteq Images \union {NoImage}
    BY <1>13, ImageInType DEF Soak, ImageOf, TypeOK
  <2>q. QED
    BY <1>13, <2>1 DEF Soak, TypeOK
<1>14. CASE DashFrame
  <2>1. img' \in [Slots -> ImgStates]
    BY <1>14 DEF DashFrame, Mark, TypeOK, ImgStates
  <2>q. QED
    BY <1>14, <2>1 DEF DashFrame, OnlyMark, TypeOK
<1>15. CASE SettleEntry
  BY <1>15 DEF SettleEntry, TypeOK
<1>16. CASE MarkLeaving
  <2>1. img' \in [Slots -> ImgStates]
    BY <1>16 DEF MarkLeaving, Mark, TypeOK, ImgStates
  <2>q. QED
    BY <1>16, <2>1 DEF MarkLeaving, OnlyMark, TypeOK
<1>17. CASE RequestWorkshop
  BY <1>17 DEF RequestWorkshop, TypeOK
<1>18. CASE Leave
  BY <1>18 DEF Leave, TypeOK, Reasons
<1>19. CASE TakeResume
  BY <1>19 DEF TakeResume, TypeOK, Reasons
<1>20. CASE ResumeAfterReboot
  <2>1. mode' \in {"entering", "driving"}
    BY <1>20 DEF ResumeAfterReboot
  <2>q. QED
    BY <1>20, <2>1 DEF ResumeAfterReboot, TypeOK, Reasons
<1>21. CASE UNCHANGED vars
  BY <1>21 DEF vars, TypeOK
<1>q. QED
  BY <1>1, <1>2, <1>3, <1>4, <1>5, <1>6, <1>7, <1>8, <1>9, <1>10, <1>11, <1>12, <1>13, <1>14,
     <1>15, <1>16, <1>17, <1>18, <1>19, <1>20, <1>21
     DEF Next, Host, Watch, UiStep, BootStep

-----------------------------------------------------------------------------
\* A step that the boot slots, the proof of the running image and an idle receiver do
\* not notice.
Quiet ==
  /\ UNCHANGED <<slots, img, boot, running, soaked, proven>>
  /\ rx'.open => rx.open
  /\ usb.at # "idle" => usb'.at # "idle"

\* It keeps the invariant, and the trial is where it was.
LEMMA QuietStep ==
  ASSUME Boots, Sound, Quiet
  PROVE  Boots' /\ Sound' /\ UNCHANGED <<Confirmed, Candidate>>
<1>1. Boots'
  BY DEF Boots, Quiet, Other
<1>2. Sound'
  BY DEF Sound, Quiet, Other, ImageOf
<1>q. QED
  BY <1>1, <1>2 DEF Quiet, Confirmed, Candidate, Trying, Other, ImageOf

\* Every step but these few is quiet.
LEMMA LoudSteps ==
  ASSUME TypeOK, [Next]_vars
  PROVE  \/ Quiet
         \/ \E h \in Hosts, i \in Offered : Begin(h, i)
         \/ \E h \in Hosts, k \in 1..Size + 1, i \in Offered : WriteChunk(h, i, k)
         \/ \E h \in Hosts : Commit(h)
         \/ Reset /\ UNCHANGED proven
         \/ Soak
         \/ soaked /\ Mark /\ OnlyMark
<1> USE DEF flash, ram
<1>1. ASSUME NEW h \in Hosts, NEW k \in 1..Size + 1, RefuseChunk(h, k)
      PROVE  Quiet
  BY <1>1 DEF RefuseChunk, vars, Quiet
<1>2. ASSUME NEW h \in Hosts, AbortSession(h)
      PROVE  Quiet
  BY <1>2 DEF AbortSession, OnlyRx, NoSession, Quiet
<1>3. ASSUME NEW h \in Hosts, SaveConfig(h)
      PROVE  Quiet
  BY <1>3 DEF SaveConfig, Quiet
<1>4. CASE Arm
  BY <1>4 DEF Arm, Idle, Quiet
<1>5. CASE UsbRestart \/ UiRestart \/ Crash
  BY <1>5 DEF UsbRestart, UiRestart, Crash
<1>6. CASE Age \/ IdleTimeout
  BY <1>6 DEF Age, IdleTimeout, OnlyRx, Quiet
<1>7. CASE TakeSocketClose
  BY <1>7 DEF TakeSocketClose, NoSession, Quiet
<1>8. CASE SocketClose \/ SettleEntry \/ RequestWorkshop \/ Leave
  BY <1>8 DEF SocketClose, SettleEntry, RequestWorkshop, Leave, Quiet
<1>9. CASE TakeResume \/ ResumeAfterReboot
  BY <1>9 DEF TakeResume, ResumeAfterReboot, Quiet
<1>10. CASE DashFrame
  BY <1>10 DEF DashFrame
<1>11. CASE MarkLeaving
  <2>1. CASE soaked
    BY <1>11, <2>1 DEF MarkLeaving
  <2>2. CASE ~soaked
    BY <1>11, <2>2 DEF MarkLeaving, OnlyMark, Quiet
  <2>q. QED
    BY <2>1, <2>2
<1>12. CASE UNCHANGED vars
  BY <1>12 DEF vars, Quiet
<1>q. QED
  BY <1>1, <1>2, <1>3, <1>4, <1>5, <1>6, <1>7, <1>8, <1>9, <1>10, <1>11, <1>12
     DEF Next, Host, Watch, UiStep, BootStep

\* What a step may do to the trial.
TrialStep ==
  \/ \E i \in Signed : Trial!Commit(i)
  \/ Trial!Confirm
  \/ Trial!Undo
  \/ UNCHANGED <<Confirmed, Candidate>>

\* A candidate is an image.
LEMMA CandidateIsImage == Sound /\ Trying => Candidate # NoImage /\ Candidate \in Signed
BY SignedImages, MarkersApart DEF Sound, Candidate, Trying

\* A session opens only where nothing is on trial.
LEMMA BeginKeeps ==
  ASSUME TypeOK, Boots, Sound, NEW h \in Hosts, NEW i \in Offered, Begin(h, i)
  PROVE  Boots' /\ Sound' /\ TrialStep
<1> USE DEF flash, ram
<1>1. UNCHANGED <<slots, img, boot, running, soaked, proven, usb>> /\ usb = Idle
  BY DEF Begin, OnlyRx, Serves
<1>2. CASE rx' = NoSession
  BY <1>1, <1>2, QuietStep DEF Quiet, NoSession, TrialStep
<1>3. CASE rx'.open
  <2>1. BeginAllowed
    BY <1>3 DEF Begin, NoSession
  <2>2. img[boot] = "valid"
    BY <1>1, <2>1 DEF BeginAllowed, OnTrial, Boots, Idle
  <2>3. Boots'
    BY <1>1, <2>2 DEF Boots
  <2>4. Sound' /\ UNCHANGED <<Confirmed, Candidate>>
    BY <1>1 DEF Sound, Confirmed, Candidate, Trying, ImageOf, Other
  <2>q. QED
    BY <2>3, <2>4 DEF TrialStep
<1>q. QED
  BY <1>2, <1>3 DEF Begin

\* A chunk goes to the slot that is neither running nor the boot slot.
LEMMA WriteKeeps ==
  ASSUME TypeOK, Boots, Sound,
         NEW h \in Hosts, NEW i \in Offered, NEW k \in 1..Size + 1, WriteChunk(h, i, k)
  PROVE  Boots' /\ Sound' /\ TrialStep
<1> USE DEF flash, ram
<1>1. img[boot] = "valid" /\ running = boot /\ rx.open
  BY DEF WriteChunk, Boots
<1>2. UNCHANGED <<img, boot, running, soaked, proven, usb>>
  BY DEF WriteChunk
<1>3. slots'[boot] = slots[boot]
  BY <1>1 DEF WriteChunk, TypeOK, Slots, Other
<1>4. Boots'
  BY <1>1, <1>2 DEF Boots
<1>5. Sound'
  BY <1>1, <1>2, <1>3 DEF Sound, ImageOf
<1>6. UNCHANGED <<Confirmed, Candidate>>
  BY <1>1, <1>2, <1>3 DEF Confirmed, Candidate, Trying, ImageOf
<1>q. QED
  BY <1>4, <1>5, <1>6 DEF TrialStep

\* A commit puts a signed image on trial, next to the one that is running.
LEMMA CommitKeeps ==
  ASSUME TypeOK, Boots, Sound, NEW h \in Hosts, Commit(h)
  PROVE  Boots' /\ Sound' /\ TrialStep
<1> USE DEF flash, ram
<1>1. img[boot] = "valid" /\ running = boot /\ boot \in Slots
  BY DEF Commit, Boots, TypeOK
<1>2. /\ boot' = Other(boot) /\ Other(boot') = boot /\ boot # Other(boot)
      /\ img'[boot'] = "new" /\ img'[boot] = "valid"
      /\ UNCHANGED <<slots, running, soaked, proven>>
      /\ ~rx'.open /\ usb'.at = "arm"
  BY <1>1 DEF Commit, TypeOK, Slots, Other, NoSession
<1>3. ImageOf(Other(boot)) \in Signed
  <2>1. rx.image \in Signed /\ Holds(Other(boot), rx.image)
    BY <1>1 DEF Commit, ImageAccepted
  <2>2. ImageIn([j \in Parts |-> rx.image]) = rx.image
    BY <2>1, WholeImage, SignedImages
  <2>q. QED
    BY <2>1, <2>2 DEF Holds, ImageOf
<1>4. Boots'
  BY <1>1, <1>2 DEF Boots
<1>5. Sound'
  <2>1. ImageOf(boot)' = ImageIn(slots[Other(boot)]) /\ ImageOf(Other(boot))' = ImageIn(slots[boot])
    BY <1>2 DEF ImageOf
  <2>2. ImageOf(running)' = ImageOf(running)
    BY <1>2 DEF ImageOf
  <2>q. QED
    BY <1>1, <1>2, <1>3, <2>1, <2>2 DEF Sound, ImageOf
<1>6. Trial!Commit(Candidate')
  <2>1. Candidate = NoImage /\ Confirmed = ImageIn(slots[boot])
    BY <1>1 DEF Candidate, Confirmed, Trying, ImageOf
  <2>2. Confirmed' = ImageIn(slots[boot])
    BY <1>2 DEF Confirmed, Trying, ImageOf
  <2>q. QED
    BY <2>1, <2>2 DEF Trial!Commit
<1>7. Candidate' \in Signed
  BY <1>2, <1>3 DEF Candidate, Trying, ImageOf
<1>q. QED
  BY <1>4, <1>5, <1>6, <1>7 DEF TrialStep

\* A reset starts the trial that a commit has set up, or undoes the one that is on.
LEMMA ResetKeeps ==
  ASSUME TypeOK, Boots, Sound, Reset, UNCHANGED proven
  PROVE  Boots' /\ Sound' /\ TrialStep
<1>1. /\ slots' = slots /\ running' = boot' /\ soaked' = FALSE /\ ~rx'.open
      /\ Other(Other(boot)) = boot /\ Other(boot) # boot /\ Other(boot) \in Slots
  BY DEF Reset, NoSession, TypeOK, Slots, Other
<1>2. CASE img[boot] = "pending"
  <2>1. /\ boot' = Other(boot) /\ img'[boot'] = "valid"
    BY <1>1, <1>2 DEF Reset, Boots, TypeOK
  <2>2. Boots'
    BY <1>1, <2>1 DEF Boots
  <2>3. ImageOf(boot)' = ImageOf(Other(boot))
    BY <1>1, <2>1 DEF ImageOf
  <2>4. Sound'
    BY <1>1, <1>2, <2>1, <2>3 DEF Sound
  <2>5. Confirmed' = Confirmed /\ Candidate' = NoImage
    BY <1>1, <1>2, <2>1 DEF Confirmed, Candidate, Trying, ImageOf
  <2>6. Trial!Undo
    BY <1>2, <2>5, CandidateIsImage DEF Trial!Undo, Trying
  <2>q. QED
    BY <2>2, <2>4, <2>6 DEF TrialStep
<1>3. CASE img[boot] = "new"
  <2>1. /\ boot' = boot /\ img'[boot] = "pending" /\ img'[Other(boot)] = "valid"
    BY <1>1, <1>3 DEF Reset, Boots, TypeOK
  <2>2. Boots'
    BY <1>1, <2>1 DEF Boots, Other
  <2>3. Sound'
    BY <1>1, <1>3, <2>1 DEF Sound, ImageOf, Other
  <2>4. UNCHANGED <<Confirmed, Candidate>>
    BY <1>1, <1>3, <2>1 DEF Confirmed, Candidate, Trying, ImageOf, Other
  <2>q. QED
    BY <2>2, <2>3, <2>4 DEF TrialStep
<1>4. CASE img[boot] = "valid"
  <2>1. boot' = boot /\ img' = img
    BY <1>4 DEF Reset
  <2>2. Boots'
    BY <1>1, <1>4, <2>1 DEF Boots
  <2>3. Sound'
    BY <1>1, <1>4, <2>1 DEF Sound, ImageOf
  <2>4. UNCHANGED <<Confirmed, Candidate>>
    BY <1>1, <1>4, <2>1 DEF Confirmed, Candidate, Trying, ImageOf
  <2>q. QED
    BY <2>2, <2>3, <2>4 DEF TrialStep
<1>q. QED
  BY <1>2, <1>3, <1>4 DEF Boots

\* Time proves the running image.
LEMMA SoakKeeps ==
  ASSUME TypeOK, Boots, Sound, Soak
  PROVE  Boots' /\ Sound' /\ TrialStep
<1>1. /\ UNCHANGED <<slots, img, boot, running, rx, usb>>
      /\ proven' = proven \union {ImageOf(running)}
  BY DEF Soak, flash
<1>2. Boots'
  BY <1>1 DEF Boots
<1>3. Sound'
  BY <1>1 DEF Sound, ImageOf, Other
<1>4. UNCHANGED <<Confirmed, Candidate>>
  BY <1>1 DEF Confirmed, Candidate, Trying, ImageOf, Other
<1>q. QED
  BY <1>2, <1>3, <1>4 DEF TrialStep

\* The mark confirms the image that runs, or fails.
LEMMA MarkKeeps ==
  ASSUME TypeOK, Boots, Sound, soaked, Mark, OnlyMark
  PROVE  Boots' /\ Sound' /\ TrialStep
<1>1. UNCHANGED <<slots, boot, running, rx, usb, soaked, proven>>
  BY DEF OnlyMark
<1>2. CASE OnTrial /\ img' = [img EXCEPT ![boot] = "valid"]
  <2>1. img[boot] = "pending" /\ running = boot
    BY <1>2 DEF OnTrial, Boots
  <2>2. img'[boot] = "valid"
    BY <1>2 DEF TypeOK
  <2>3. Boots'
    BY <1>1, <2>1, <2>2 DEF Boots
  <2>4. Sound'
    BY <1>1, <2>1, <2>2 DEF Sound, ImageOf
  <2>5. Confirmed' = Candidate /\ Candidate' = NoImage
    BY <1>1, <2>1, <2>2 DEF Confirmed, Candidate, Trying, ImageOf
  <2>6. Trial!Confirm
    BY <2>1, <2>5, CandidateIsImage DEF Trial!Confirm, Trying
  <2>q. QED
    BY <2>3, <2>4, <2>6 DEF TrialStep
<1>3. CASE UNCHANGED img
  <2>1. Quiet
    BY <1>1, <1>3 DEF Quiet
  <2>q. QED
    BY <2>1, QuietStep DEF TrialStep
<1>q. QED
  BY <1>2, <1>3 DEF Mark

\* Every step keeps the invariant and is a step of a trial.
LEMMA Step == IInv /\ [Next]_vars => IInv' /\ TrialStep
<1> SUFFICES ASSUME TypeOK, Boots, Sound, [Next]_vars PROVE IInv' /\ TrialStep
  BY DEF IInv
<1>1. TypeOK'
  BY TypeStep
<1>2. Quiet => Boots' /\ Sound' /\ TrialStep
  BY QuietStep DEF TrialStep
<1>3. Boots' /\ Sound' /\ TrialStep
  BY <1>2, LoudSteps, BeginKeeps, WriteKeeps, CommitKeeps, ResetKeeps, SoakKeeps, MarkKeeps
<1>q. QED
  BY <1>1, <1>3 DEF IInv

-----------------------------------------------------------------------------
\* The invariant holds throughout.
LEMMA Invariance == Spec => []IInv
<1>1. Init => IInv
  BY InitInv
<1>2. IInv /\ [Next]_vars => IInv'
  BY Step
<1>q. QED
  BY <1>1, <1>2, PTL DEF Spec

\* Type correctness: a session never writes past the image (writeChunk).
THEOREM Typed == Spec => []TypeOK
<1>1. IInv => TypeOK
  BY DEF IInv
<1>q. QED
  BY <1>1, Invariance, PTL

\* Whatever hosts send and wherever a reset strikes, the next boot is of a whole signed
\* image, and so is the one a trial falls back on (commit, writeChunk, the bootloader).
THEOREM Bootable == Spec => []AlwaysBootable
<1>1. IInv => AlwaysBootable
  BY DEF IInv, Boots, Sound, AlwaysBootable
<1>q. QED
  BY <1>1, Invariance, PTL

\* No image is marked valid that has not itself been up for kSoakMs (uiHandleOtaMark,
\* restartIntoDash).
THEOREM Tried == Spec => []TrialIsTried
<1>1. IInv => TrialIsTried
  BY DEF IInv, Sound, TrialIsTried
<1>q. QED
  BY <1>1, Invariance, PTL

\* An update is a trial: commit starts it, the mark confirms it, a reset undoes it.
THEOREM Implements == Spec => ImplementsTrialBoot
<1>1. Init => Trial!Init
  <2> SUFFICES ASSUME Init PROVE Trial!Init
    OBVIOUS
  <2>1. slots[0] = [k \in Parts |-> Factory] /\ Factory \in Images
    BY SignedImages DEF Init, Slots
  <2>2. ImageIn(slots[0]) = Factory
    BY <2>1, WholeImage
  <2>3. boot = 0 /\ img[0] = "valid"
    BY DEF Init, Slots
  <2>q. QED
    BY <2>2, <2>3 DEF Trial!Init, Confirmed, Candidate, Trying, ImageOf
<1>2. TrialStep => [Trial!Next]_<<Confirmed, Candidate>>
  BY DEF TrialStep, Trial!Next
<1>3. IInv /\ [Next]_vars => [Trial!Next]_<<Confirmed, Candidate>>
  BY <1>2, Step
<1>q. QED
  BY <1>1, <1>3, Invariance, PTL DEF Spec, ImplementsTrialBoot, Trial!Spec, Trial!vars

-----------------------------------------------------------------------------
\* Where the resume reason is: in NVS from the arming to the next boot, then with that
\* boot until it comes up.
Owed ==
  /\ mode \in {"booting", "setup"} => usb = Idle
  /\ \/ asked = "unknown"
     \/ /\ resume \in {"none", asked}
        /\ mode # "booting" /\ usb.at # "hold" => resume = "none"
        /\ mode = "setup" => why \in {"none", asked}

\* Every step keeps it there.
LEMMA OwedStep == Owed /\ [Next]_vars => Owed'
<1> SUFFICES ASSUME Owed, [Next]_vars PROVE Owed'
  OBVIOUS
<1> USE DEF flash, ram
<1>1. ASSUME UNCHANGED <<mode, usb, resume, asked, why>>
      PROVE  Owed'
  BY <1>1 DEF Owed
<1>2. ASSUME NEW h \in Hosts, NEW i \in Offered, Begin(h, i)
      PROVE  Owed'
  BY <1>1, <1>2 DEF Begin, OnlyRx
<1>3. ASSUME NEW h \in Hosts, NEW k \in 1..Size + 1, RefuseChunk(h, k)
      PROVE  Owed'
  BY <1>1, <1>3 DEF RefuseChunk, vars
<1>4. ASSUME NEW h \in Hosts, NEW k \in 1..Size + 1, NEW i \in Offered, WriteChunk(h, i, k)
      PROVE  Owed'
  BY <1>1, <1>4 DEF WriteChunk
<1>5. ASSUME NEW h \in Hosts, AbortSession(h)
      PROVE  Owed'
  BY <1>1, <1>5 DEF AbortSession, OnlyRx
<1>6. ASSUME NEW h \in Hosts, Commit(h) \/ SaveConfig(h)
      PROVE  Owed'
  BY <1>6 DEF Commit, SaveConfig, Serves, Up, Idle, Owed
<1>7. CASE Arm
  <2>1. mode \notin {"booting", "setup"} /\ usb'.at = "hold" /\ mode' = mode
    BY <1>7 DEF Arm, Owed, Idle
  <2>2. asked # "unknown" => resume = "none" /\ resume' \in {"none", asked'}
    BY <1>7, <2>1 DEF Arm, Owed
  <2>3. asked = "unknown" => asked' = "unknown"
    BY <1>7 DEF Arm
  <2>q. QED
    BY <2>1, <2>2, <2>3 DEF Owed
<1>8. CASE UsbRestart \/ UiRestart \/ Crash
  <2>1. mode' = "booting" /\ usb' = Idle /\ UNCHANGED <<resume, asked>>
    BY <1>8 DEF UsbRestart, UiRestart, Crash, Reset
  <2>q. QED
    BY <2>1 DEF Owed
<1>9. CASE Age \/ Watch \/ SocketClose
  BY <1>1, <1>9 DEF Age, Watch, IdleTimeout, TakeSocketClose, SocketClose, OnlyRx
<1>10. CASE Soak \/ DashFrame \/ MarkLeaving
  BY <1>1, <1>10 DEF Soak, DashFrame, MarkLeaving, OnlyMark
<1>11. CASE RequestWorkshop \/ SettleEntry
  BY <1>11 DEF RequestWorkshop, SettleEntry, Owed
<1>12. CASE Leave
  BY <1>12 DEF Leave, Owed
<1>13. CASE TakeResume
  BY <1>13 DEF TakeResume, Owed, Idle
<1>14. CASE ResumeAfterReboot
  <2>1. mode = "setup" /\ mode' \in {"entering", "driving"} /\ UNCHANGED <<usb, resume>>
        /\ asked' = IF asked = "unknown" THEN asked ELSE "none"
    BY <1>14 DEF ResumeAfterReboot
  <2>q. QED
    BY <2>1 DEF Owed, Idle
<1>15. CASE UNCHANGED vars
  BY <1>1, <1>15 DEF vars
<1>q. QED
  BY <1>2, <1>3, <1>4, <1>5, <1>6, <1>7, <1>8, <1>9, <1>10, <1>11, <1>12, <1>13, <1>14, <1>15
     DEF Next, Host, UiStep, BootStep

\* A boot enters workshop mode by itself only for a restart that a command over the
\* socket asked for, and once (armResume, takeResumeRequest, resumeAfterReboot).
THEOREM ResumeOwed == Spec => ResumeIsOwed
<1>1. Init => Owed
  BY DEF Init, Owed
<1>2. Owed /\ [Next]_vars =>
        [mode = "setup" /\ mode' = "entering" => asked \in {why, "unknown"}]_vars
  <2> SUFFICES ASSUME Owed, [Next]_vars, mode = "setup", mode' = "entering"
               PROVE  asked \in {why, "unknown"}
    OBVIOUS
  <2>1. why \in {"config", "update"}
    BY DEF Next, Host, Watch, UiStep, BootStep, Begin, RefuseChunk, WriteChunk, AbortSession,
           Commit, SaveConfig, Arm, UsbRestart, UiRestart, Crash, Reset, Age, IdleTimeout,
           TakeSocketClose, SocketClose, Soak, DashFrame, MarkLeaving, RequestWorkshop,
           SettleEntry, Leave, TakeResume, ResumeAfterReboot, OnlyRx, OnlyMark, vars, flash, ram
  <2>q. QED
    BY <2>1 DEF Owed
<1>q. QED
  BY <1>1, <1>2, OwedStep, PTL DEF Spec, ResumeIsOwed
=============================================================================
