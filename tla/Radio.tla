-------------------------------- MODULE Radio -------------------------------
(***************************************************************************)
(* The one radio: Bluetooth while the dash drives, an access point with    *)
(* the tuner's socket in workshop mode.  The UI task enters the mode and   *)
(* asks for the radio, taskBLE gives up its stack and starts the server.   *)
(* There is no way back but a restart, with which a new behaviour begins.  *)
(***************************************************************************)
EXTENDS BleLink, WorkshopSocket

VARIABLES
  mode,     (* s_state of WorkshopMode                                     *)
  release,  (* s_releaseRequested                                          *)
  wifi      (* the access point and the server                             *)

modeVars == <<mode, release, wifi>>
vars == <<bleVars, socketVars, modeVars>>

\* A dash that was restarted for the tuner enters workshop mode at once.
Init ==
  /\ BleInit /\ SocketInit
  /\ mode \in {"driving", "entering"} /\ release = FALSE /\ wifi = "off"

-----------------------------------------------------------------------------
\* WorkshopMode::request, from the settings page.
RequestWorkshop ==
  /\ mode = "driving" /\ ui = "frame" /\ mode' = "entering"
  /\ UNCHANGED <<bleVars, socketVars, release, wifi>>

\* uiDrainWorkshopEntry: the overlays are hidden, the passkey flags are taken no more.
EnterWorkshop ==
  /\ mode = "entering" /\ ui = "frame"
  /\ mode' = "active" /\ ui' = "off" /\ card' = FALSE /\ release' = TRUE
  /\ UNCHANGED <<server, air, peer, prompts, mailbox, held, stale, takeover, faults, socketVars, wifi>>

EntryFails ==
  /\ mode = "entering" /\ ui = "frame" /\ mode' = "driving"
  /\ UNCHANGED <<bleVars, socketVars, release, wifi>>

\* BleServer::release, then WorkshopServer::requestStart.  What the torn down stack and
\* the hidden overlay were doing is forgotten: nothing reads it before the restart.
ReleaseRadio ==
  /\ release /\ started /\ ~stopping
  /\ release' = FALSE /\ wifi' = "starting"
  /\ stack' = "released" /\ enabled' = FALSE /\ connected' = FALSE
  /\ adv' = "off" /\ backedOff' = FALSE /\ link' = "none" /\ noted' = TRUE /\ overdue' = FALSE
  /\ prompts' = 0 /\ show' = "none" /\ hide' = FALSE /\ held' = FALSE /\ stale' = FALSE
  /\ takeover' = FALSE /\ faults' = 0
  /\ UNCHANGED <<started, stopping, card, ui, socketVars, mode>>

\* WorkshopServer::start
StartServer ==
  /\ wifi = "starting" /\ wifi' \in {"up", "failed"}
  /\ UNCHANGED <<bleVars, socketVars, mode, release>>

-----------------------------------------------------------------------------
Next ==
  \/ stack = "up" /\ BleNext /\ UNCHANGED <<socketVars, modeVars>>
  \/ wifi = "up" /\ SocketNext /\ UNCHANGED <<bleVars, modeVars>>
  \/ RequestWorkshop \/ EnterWorkshop \/ EntryFails \/ ReleaseRadio \/ StartServer

Spec == Init /\ [][Next]_vars

\* A step of the tasks that are there, while their side has the radio.
BleStep(A) == stack = "up" /\ A /\ UNCHANGED <<socketVars, modeVars>>
SocketStep(A) == wifi = "up" /\ A /\ UNCHANGED <<bleVars, modeVars>>

\* Bluetooth: the tasks of the driving dash run and deadlines pass; the disconnect of a
\* terminated link arrives.
BleFairness ==
  /\ WF_vars(BleStep(BleTask)) /\ WF_vars(BleStep(NoteConnected))
  /\ WF_vars(BleStep(PairingDeadline)) /\ WF_vars(BleStep(link = "closing" /\ OnDisconnect))
  /\ WF_vars(ReleaseRadio)

\* Workshop mode: the tasks run, the busy window passes, and a phone that wants the dash knocks
\* again and again.  No phone is faster than the USB task for ever.  A transfer that nobody goes
\* on with has its clock run out, even if other writes keep its staged file closed in some ticks.
SocketFairness ==
  /\ WF_vars(SocketStep(Arrival)) /\ WF_vars(SocketStep(Server)) /\ WF_vars(SocketStep(BusyWindow))
  /\ WF_vars(SocketStep(Usb)) /\ SF_vars(SocketStep(EndDrain))
  /\ \A t \in Transfers : SF_vars(SocketStep(ClockRunsOut(t)))

FairSpec == Spec /\ BleFairness /\ SocketFairness
=============================================================================
