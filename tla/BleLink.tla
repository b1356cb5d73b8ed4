------------------------------- MODULE BleLink ------------------------------
(***************************************************************************)
(* The Bluetooth link of a driving dash: one connection slot, a pairing    *)
(* guard that takes it back from a central without the passkey, and the    *)
(* passkey card, which the host stack asks for through two flags of        *)
(* PendingActions and the UI task draws.                                   *)
(*                                                                         *)
(* Three tasks: the callbacks of the host stack, taskBLE, and the UI task, *)
(* which takes the flag that hides the card before the one that shows it.  *)
(***************************************************************************)
EXTENDS Integers

CONSTANTS
  MaxPrompts,  (* PASSKEY_PROMPTS_PER_WINDOW                               *)
  MaxFaults    (* bound: calls into the host stack that fail               *)

ASSUME PromptsAssumption == MaxPrompts \in Nat \ {0}
ASSUME FaultsAssumption == MaxFaults \in Nat

VARIABLES
  stack,      (* s_stackInited                                             *)
  enabled,    (* s_enabled                                                 *)
  started,    (* taskBLE has run init                                      *)
  stopping,   (* s_stopRequested                                           *)
  adv,        (* the dash advertises: "off", "fast" or "slow"              *)
  backedOff,  (* s_backedOff                                               *)
  link,       (* the connection slot, as the host stack has it             *)
  connected,  (* s_connected                                               *)
  noted,      (* onConnect has reached noteConnected                       *)
  overdue,    (* PAIRING_DEADLINE_MS have passed since s_connectedAtMs     *)
  prompts,    (* s_passkeyBudget.prompts                                   *)
  show,       (* blePasskeyShow, and what became of its hide               *)
  hide,       (* blePasskeyHide                                            *)
  held,       (* s_pendingPasskey                                          *)
  card,       (* s_overlay                                                 *)
  stale,      (* history: that request's hide was taken before it          *)
  takeover,   (* a critical alert owns the screen                          *)
  ui,         (* where the UI task is in uiDrainPasskeyActions             *)
  faults

server == <<stack, enabled, started, stopping>>
air == <<adv, backedOff>>
peer == <<link, connected, noted, overdue>>
mailbox == <<show, hide>>
overlay == <<held, card, stale>>
bleVars == <<server, air, peer, prompts, mailbox, overlay, takeover, ui, faults>>

\* After earlyInit: the stack advertises before its task runs.
BleInit ==
  /\ stack = "up" /\ enabled = TRUE /\ started = FALSE /\ stopping = FALSE
  /\ adv = "fast" /\ backedOff = FALSE
  /\ link = "none" /\ connected = FALSE /\ noted = TRUE /\ overdue = FALSE
  /\ prompts = 0 /\ show = "none" /\ hide = FALSE
  /\ held = FALSE /\ card = FALSE /\ stale = FALSE /\ takeover = FALSE
  /\ ui = "frame" /\ faults = 0

-----------------------------------------------------------------------------
\* A call into the stack fails.
Fault == faults < MaxFaults /\ faults' = faults + 1

\* An encrypted link is enough.
MutAdmitted(l) == l \in {"weak", "secure"}

\* LinkSecurity::admitted: "weak" is encrypted without the passkey.
Admitted(l) == l = "secure"

Unadmitted == {"plain", "pairing", "weak"}

\* terminate: the disconnect comes later, or the call failed and the link is l.
Terminate(l) ==
  \/ link' = "closing" /\ UNCHANGED faults
  \/ link' = l /\ Fault

\* blePasskeyHide is stored.
StoreHide ==
  /\ hide' = TRUE
  /\ show' = IF show = "fresh" THEN "ended" ELSE show

\* startAdvertisingFast: with the slot taken the stack refuses.
AdvertiseFast(l) ==
  /\ backedOff' = FALSE
  /\ \/ l = "none" /\ adv' = "fast" /\ UNCHANGED faults
     \/ l = "none" /\ adv' = "off" /\ Fault
     \/ l # "none" /\ UNCHANGED <<adv, faults>>

-----------------------------------------------------------------------------
(* The callbacks of the host stack. *)

\* onConnect, up to s_connected ...
OnConnect ==
  /\ stack = "up" /\ link = "none" /\ adv # "off"
  /\ link' = "plain" /\ adv' = "off"
  /\ connected' = TRUE /\ noted' = FALSE
  /\ UNCHANGED <<server, backedOff, overdue, prompts, mailbox, overlay, takeover, ui, faults>>

\* ... and noteConnected, which starts the peer's twenty seconds.
NoteConnected ==
  /\ ~noted /\ noted' = TRUE /\ overdue' = FALSE
  /\ UNCHANGED <<server, air, link, connected, prompts, mailbox, overlay, takeover, ui, faults>>

\* onPassKeyRequest: a prompt the budget has, or one too many.
OnPassKeyRequest ==
  /\ noted /\ link = "plain"
  /\ \/ /\ prompts < MaxPrompts /\ prompts' = prompts + 1
        /\ link' = "pairing" /\ show' = "fresh"
        /\ UNCHANGED faults
     \/ /\ prompts = MaxPrompts
        /\ Terminate("pairing")
        /\ UNCHANGED <<prompts, show>>
  /\ UNCHANGED <<server, air, connected, noted, overdue, hide, overlay, takeover, ui>>

\* onAuthenticationComplete with the passkey entered, or by a phone that paired before and
\* needs no prompt.
PairingSucceeds ==
  /\ noted /\ link \in {"plain", "pairing"} /\ link' = "secure"
  /\ StoreHide
  /\ UNCHANGED <<server, air, connected, noted, overdue, prompts, overlay, takeover, ui, faults>>

\* onAuthenticationComplete after a pairing that failed, or without a passkey.
PairingFails ==
  /\ noted
  /\ \/ link = "pairing" /\ Terminate("plain")
     \/ link \in {"plain", "weak"} /\ Terminate("weak")
  /\ StoreHide
  /\ UNCHANGED <<server, air, connected, noted, overdue, prompts, overlay, takeover, ui>>

\* onSubscribe on a link encrypted without the passkey.
OnSubscribe ==
  /\ noted /\ link = "weak" /\ Terminate("weak")
  /\ UNCHANGED <<server, air, connected, noted, overdue, prompts, mailbox, overlay, takeover, ui>>

\* onDisconnect: the dash dropped the link, or the central left.
OnDisconnect ==
  /\ noted /\ link # "none"
  /\ link' = "none" /\ connected' = FALSE
  /\ StoreHide
  /\ AdvertiseFast("none")
  /\ UNCHANGED <<server, noted, overdue, prompts, overlay, takeover, ui>>

-----------------------------------------------------------------------------
(* taskBLE. *)

\* init: a restart of the advertising that is refused asks for a stop.
Start ==
  /\ ~started /\ started' = TRUE
  /\ AdvertiseFast(link)
  /\ stopping' = (link # "none" \/ adv' = "off")
  /\ UNCHANGED <<stack, enabled, peer, prompts, mailbox, overlay, takeover, ui>>

\* BleServer::stop: the peer, if there is one, stays on the link.
Stop ==
  /\ started /\ stopping /\ stopping' = FALSE
  /\ enabled' = FALSE /\ connected' = FALSE /\ adv' = "off"
  /\ UNCHANGED <<stack, started, backedOff, link, noted, overdue, prompts, mailbox, overlay, takeover, ui,
                 faults>>

\* paceAdvertising, after half a minute.
PaceAdvertising ==
  /\ started /\ ~stopping /\ ~connected /\ enabled /\ ~backedOff
  /\ backedOff' = TRUE
  /\ \/ adv' = (IF adv = "fast" THEN "slow" ELSE adv) /\ UNCHANGED faults
     \/ adv = "fast" /\ adv' = "off" /\ Fault
  /\ UNCHANGED <<server, peer, prompts, mailbox, overlay, takeover, ui>>

\* dropOverduePeer
DropOverduePeer ==
  /\ started /\ ~stopping /\ connected /\ overdue
  /\ link \notin {"none", "closing"} /\ ~Admitted(link)
  /\ Terminate(link)
  /\ UNCHANGED <<server, air, connected, noted, overdue, prompts, mailbox, overlay, takeover, ui>>

-----------------------------------------------------------------------------
(* The UI task: uiDrainPasskeyActions. *)

\* A request that waits for the takeover to end is kept.
MutTakeHide ==
  /\ ui = "frame" /\ ui' = "show"
  /\ hide' = FALSE
  /\ IF hide
       THEN /\ card' = FALSE /\ stale' = FALSE
            /\ show' = IF show = "ended" THEN "orphan" ELSE show
       ELSE UNCHANGED <<card, stale, show>>
  /\ UNCHANGED <<server, air, peer, prompts, held, takeover, faults>>

\* PasskeyOverlay::hide, when it was asked for.
TakeHide ==
  /\ ui = "frame" /\ ui' = "show"
  /\ hide' = FALSE
  /\ IF hide
       THEN /\ held' = FALSE /\ card' = FALSE /\ stale' = FALSE
            /\ show' = IF show = "ended" THEN "orphan" ELSE show
       ELSE UNCHANGED <<held, card, stale, show>>
  /\ UNCHANGED <<server, air, peer, prompts, takeover, faults>>

\* PasskeyOverlay::request and update: the card waits while a takeover has the screen.
TakeShow ==
  /\ ui = "show" /\ ui' = "frame"
  /\ show' = "none"
  /\ stale' = IF show = "none" THEN stale ELSE show = "orphan"
  /\ LET pending == held \/ show # "none" IN
       /\ held' = (pending /\ takeover)
       /\ card' = (card \/ (pending /\ ~takeover))
  /\ UNCHANGED <<server, air, peer, prompts, hide, takeover, faults>>

-----------------------------------------------------------------------------
(* Time, and the alerts. *)

PairingDeadline ==
  /\ stack = "up" /\ ~overdue /\ overdue' = TRUE
  /\ UNCHANGED <<server, air, link, connected, noted, prompts, mailbox, overlay, takeover, ui, faults>>

\* PASSKEY_PROMPT_WINDOW_MS have passed.
PromptWindow ==
  /\ prompts > 0 /\ prompts' = 0
  /\ UNCHANGED <<server, air, peer, mailbox, overlay, takeover, ui, faults>>

TakeoverChanges ==
  /\ ui = "frame" /\ takeover' = ~takeover
  /\ UNCHANGED <<server, air, peer, prompts, mailbox, overlay, ui, faults>>

-----------------------------------------------------------------------------
Host == OnConnect \/ OnPassKeyRequest \/ PairingSucceeds \/ PairingFails \/ OnSubscribe
BleTask == Start \/ Stop \/ DropOverduePeer
Passkey == TakeHide \/ TakeShow

BleNext ==
  \/ Host \/ NoteConnected \/ OnDisconnect
  \/ BleTask \/ PaceAdvertising
  \/ Passkey
  \/ PairingDeadline \/ PromptWindow \/ TakeoverChanges

-----------------------------------------------------------------------------
(* Properties. *)

\* ble-transport.md, "Pairing and the security model": the card is that of the pairing
\* under way or just dropped, or it is about to go.  The exception is a request and its hide stored
\* within one frame: the UI task takes the hide first, and the card stays.
CardIsOwed == ui # "off" /\ (card \/ held) => link \in {"pairing", "closing"} \/ hide \/ stale

\* "A rogue or idle central cannot hold the single connection slot": a central that
\* does not pair loses it.  Not so when taskBLE was stopped after a refused restart of the
\* advertising: it forgets the central that is there, and drops none that comes later, though
\* onDisconnect advertises again.
CentralLeaves ==
  connected /\ link \in Unadmitted ~> link \in {"none", "secure"} \/ ~enabled
=============================================================================
