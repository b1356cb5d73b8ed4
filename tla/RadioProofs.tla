----------------------------- MODULE RadioProofs ----------------------------
(***************************************************************************)
(* The passkey card is owed to the pairing under way, for any number of    *)
(* prompts, failing calls and phones.  A card comes from a request in the  *)
(* mailbox, so the invariant also says what a request there stands for:    *)
(* a fresh one for a pairing that has not ended, one that ended for a hide *)
(* the UI task has still to take.                                          *)
(*                                                                         *)
(* A tuner is not replaced unsaid, for any number of phones.               *)
(***************************************************************************)
EXTENDS Radio, TLAPS

Asked ==
  /\ show = "fresh" => link \in {"pairing", "closing"}
  /\ show = "ended" => hide
  /\ show \in {"none", "fresh", "ended", "orphan"}

RadioIsAsked == release => ui = "off"

IInv == CardIsOwed /\ Asked /\ RadioIsAsked

LEMMA InitHolds == Init => IInv
  BY DEF Init, BleInit, SocketInit, IInv, CardIsOwed, Asked, RadioIsAsked

\* A call that ends a link leaves the request and the card with a pairing, a link that
\* closes, or a hide.
LEMMA HostKeeps == IInv /\ Host => CardIsOwed' /\ Asked'
<1> SUFFICES ASSUME IInv, Host PROVE CardIsOwed' /\ Asked'
  OBVIOUS
<1> USE DEF IInv, CardIsOwed, Asked, mailbox, overlay, server, air
<1>1. CASE OnConnect
  BY <1>1 DEF OnConnect
<1>2. CASE OnPassKeyRequest
  BY <1>2 DEF OnPassKeyRequest, Terminate
<1>3. CASE PairingSucceeds
  BY <1>3 DEF PairingSucceeds, StoreHide
<1>4. CASE PairingFails
  BY <1>4 DEF PairingFails, StoreHide, Terminate
<1>5. CASE OnSubscribe
  BY <1>5 DEF OnSubscribe, Terminate
<1> QED
  BY <1>1, <1>2, <1>3, <1>4, <1>5 DEF Host

\* The tasks of the link: the disconnect stores a hide, taskBLE touches neither.
LEMMA LinkKeeps ==
  IInv /\ (NoteConnected \/ OnDisconnect \/ BleTask \/ PaceAdvertising \/ PairingDeadline
           \/ PromptWindow \/ TakeoverChanges)
  => CardIsOwed' /\ Asked'
<1> SUFFICES ASSUME IInv,
                    NoteConnected \/ OnDisconnect \/ BleTask \/ PaceAdvertising \/ PairingDeadline
                    \/ PromptWindow \/ TakeoverChanges
             PROVE CardIsOwed' /\ Asked'
  OBVIOUS
<1> USE DEF IInv, CardIsOwed, Asked, mailbox, overlay, server, air, peer
<1>1. CASE NoteConnected
  BY <1>1 DEF NoteConnected
<1>2. CASE OnDisconnect
  BY <1>2 DEF OnDisconnect, StoreHide
<1>3. CASE Start
  BY <1>3 DEF Start
<1>4. CASE Stop
  BY <1>4 DEF Stop
<1>5. CASE DropOverduePeer
  BY <1>5 DEF DropOverduePeer, Terminate
<1>6. CASE PaceAdvertising
  BY <1>6 DEF PaceAdvertising
<1>7. CASE PairingDeadline
  BY <1>7 DEF PairingDeadline
<1>8. CASE PromptWindow
  BY <1>8 DEF PromptWindow
<1>9. CASE TakeoverChanges
  BY <1>9 DEF TakeoverChanges
<1> QED
  BY <1>1, <1>2, <1>3, <1>4, <1>5, <1>6, <1>7, <1>8, <1>9 DEF BleTask

\* Taking the hide clears the card; taking the request puts up one that is fresh, has a
\* hide to come, or is the stale one.
LEMMA PasskeyKeeps == IInv /\ Passkey => CardIsOwed' /\ Asked'
<1> SUFFICES ASSUME IInv, Passkey PROVE CardIsOwed' /\ Asked'
  OBVIOUS
<1> USE DEF IInv, CardIsOwed, Asked, server, air, peer
<1>1. CASE TakeHide /\ hide
  BY <1>1 DEF TakeHide
<1>2. CASE TakeHide /\ ~hide
  BY <1>2 DEF TakeHide
<1>3. CASE TakeShow /\ show = "none"
  BY <1>3 DEF TakeShow
<1>4. CASE TakeShow /\ show # "none"
  BY <1>4 DEF TakeShow
<1> QED
  BY <1>1, <1>2, <1>3, <1>4 DEF Passkey

\* The hand-over takes the screen before it asks for the radio.
LEMMA StepKeeps == IInv /\ [Next]_vars => IInv'
<1> SUFFICES ASSUME IInv, [Next]_vars PROVE IInv'
  OBVIOUS
<1>1. CASE stack = "up" /\ BleNext /\ UNCHANGED <<socketVars, modeVars>>
  <2>1. CardIsOwed' /\ Asked'
    BY <1>1, HostKeeps, LinkKeeps, PasskeyKeeps DEF BleNext
  <2>2. ui = "off" => ui' = "off"
    BY <1>1 DEF BleNext, Host, OnConnect, OnPassKeyRequest, PairingSucceeds, PairingFails, OnSubscribe,
         NoteConnected, OnDisconnect, BleTask, Start, Stop, DropOverduePeer, PaceAdvertising, Passkey,
         TakeHide, TakeShow, PairingDeadline, PromptWindow, TakeoverChanges
  <2>3. release' = release
    BY <1>1 DEF modeVars
  <2> QED
    BY <2>1, <2>2, <2>3 DEF IInv, RadioIsAsked
<1>2. CASE UNCHANGED bleVars /\ UNCHANGED release
  BY <1>2 DEF IInv, CardIsOwed, Asked, RadioIsAsked, bleVars, peer, mailbox, overlay
<1>3. CASE EnterWorkshop
  BY <1>3 DEF EnterWorkshop, IInv, CardIsOwed, Asked, RadioIsAsked, peer, mailbox
<1>4. CASE ReleaseRadio
  BY <1>4 DEF ReleaseRadio, IInv, CardIsOwed, Asked, RadioIsAsked
<1>5. CASE UNCHANGED vars
  BY <1>2, <1>5 DEF vars, modeVars
<1> QED
  BY <1>1, <1>2, <1>3, <1>4, <1>5 DEF Next, RequestWorkshop, EntryFails, StartServer, modeVars

\* The passkey card is that of the pairing under way or just dropped, or a hide is on
\* its way, or its hide was taken before it (ui_task.cpp, uiDrainPasskeyActions).
THEOREM CardOwed == Spec => []CardIsOwed
<1>1. IInv => CardIsOwed
  BY DEF IInv
<1> QED
  BY InitHolds, StepKeeps, <1>1, PTL DEF Spec
-----------------------------------------------------------------------------
(* The tuner's socket.  adoptClient decides on what it read of the client and acts on it later; *)
(* only the USB task can come between, and all it does to the client is to drop it.             *)

Hosts == Clients \union {NoClient}

\* The tuner and the one a decision is about are phones; the decision is not to adopt while there
\* is a tuner.
SocketSound ==
  /\ client \in Clients \union {NoClient}
  /\ look # NoLook => look.fd \in Clients /\ (look.admission = "adopt" => client = NoClient)
  /\ upload \in [file : Hosts, config : Hosts, ota : Hosts, slot : BOOLEAN]
  /\ lines \in Seq(Clients)

NothingOfThePhones(u) == \A t \in Transfers : u[t] \notin Clients

Heard ==
  /\ \A c \in Clients : client = c /\ client' \notin {c, NoClient} => note'
  /\ note /\ ~note' => NothingOfThePhones(upload')

\* A tuner does not give way to another unsaid (adopt, replaceStale), and what is said is not
\* lost: the tick that takes the note ends every file, config and OTA transfer that a phone has
\* begun, so that what the old tuner left half done does not go on under the next one
\* (takeSocketClosed, abortSocketTransfers, tickOtaSessionWatch).
ReplacedIsHeard == [][Heard]_vars

\* What a tick or a command does to the transfers leaves them well formed.
LEMMA TransfersTyped ==
  ASSUME SocketSound
  PROVE  /\ \A v \in TimedOut(upload) : \A w \in {v, EndOta(v)} :
              /\ w \in [file : Hosts, config : Hosts, ota : Hosts, slot : BOOLEAN]
              /\ SocketTransfersAborted(w)
                   \in [file : Hosts, config : Hosts, ota : Hosts, slot : BOOLEAN]
              /\ NothingOfThePhones(SocketTransfersAborted(w))
         /\ \A h \in Hosts : Command(h) =>
              upload' \in [file : Hosts, config : Hosts, ota : Hosts, slot : BOOLEAN]
<1> DEFINE Type == [file : Hosts, config : Hosts, ota : Hosts, slot : BOOLEAN]
<1>1. /\ upload \in Type
      /\ \A u \in Type : EndFile(u) \in Type /\ EndConfig(u) \in Type /\ EndOta(u) \in Type
  BY DEF SocketSound, EndFile, EndConfig, EndOta, Hosts
<1>2. ASSUME NEW w \in Type
      PROVE  SocketTransfersAborted(w) \in Type /\ NothingOfThePhones(SocketTransfersAborted(w))
  <2> DEFINE files == IF w.file \in Clients THEN EndFile(w) ELSE w
             configs == IF files.config \in Clients THEN EndConfig(files) ELSE files
             otas == IF configs.ota \in Clients THEN EndOta(configs) ELSE configs
  <2>1. files \in Type /\ files.file \notin Clients
    BY ClientsAssumption DEF EndFile, Hosts
  <2>2. configs \in Type /\ configs.file \notin Clients /\ configs.config \notin Clients
    BY <2>1, ClientsAssumption DEF EndConfig, Hosts
  <2>3. otas \in Type /\ otas.file \notin Clients /\ otas.config \notin Clients
                      /\ otas.ota \notin Clients
    BY <2>2, ClientsAssumption DEF EndOta, Hosts
  <2>q. QED
    BY <2>3 DEF SocketTransfersAborted, NothingOfThePhones, Transfers
<1>3. ASSUME NEW v \in TimedOut(upload), NEW w \in {v, EndOta(v)} PROVE w \in Type
  <2>1. v \in Type
    BY <1>1 DEF TimedOut
  <2>q. QED
    BY <1>1, <2>1
<1>4. ASSUME NEW h \in Hosts, Command(h) PROVE upload' \in Type
  BY <1>1, <1>4 DEF Command, PutFile, PutConfigChunk, PutTyped, Ota
<1>q. QED
  BY <1>2, <1>3, <1>4

\* What a step does to the socket when it is one of the socket.
LEMMA SocketKeeps ==
  ASSUME SocketSound, SocketNext
  PROVE  SocketSound' /\ Heard
<1> USE ClientsAssumption DEF SocketSound, Heard, sessions
<1>1. CASE Arrival
  <2>1. PICK c \in Clients : Arrive(c)
    BY <1>1 DEF Arrival
  <2>q. QED
    BY <2>1 DEF Arrive, Admission, NoLook
<1>2. CASE Adopt
  <2>1. look # NoLook
    BY <1>2 DEF Adopt, NoLook
  <2>2. SocketSound'
    BY <1>2, <2>1 DEF Adopt
  <2>3. client # NoClient => note'
    BY <1>2, <2>1 DEF Adopt
  <2>q. QED
    BY <1>2, <2>2, <2>3 DEF Adopt
<1>3. CASE RefuseBusy
  BY <1>3 DEF RefuseBusy, NoLook
<1>4. CASE Receive
  <2>1. client \in Clients /\ lines' \in Seq(Clients)
    BY <1>4 DEF Receive
  <2>q. QED
    BY <1>4, <2>1 DEF Receive
<1>5. CASE OnSessionClosed
  BY <1>5 DEF OnSessionClosed
<1>6. CASE Tick
  <2>0. PICK v \in TimedOut(upload) :
          \E w \in {v, EndOta(v)} : upload' = IF note THEN SocketTransfersAborted(w) ELSE w
    BY <1>6 DEF Tick
  <2>1. PICK w \in {v, EndOta(v)} : upload' = IF note THEN SocketTransfersAborted(w) ELSE w
    BY <2>0
  <2>2. /\ upload' \in [file : Hosts, config : Hosts, ota : Hosts, slot : BOOLEAN]
        /\ note => NothingOfThePhones(upload')
    BY <2>1, TransfersTyped
  <2>q. QED
    BY <1>6, <2>2 DEF Tick
<1>7. CASE SerialLine
  <2>1. upload' \in [file : Hosts, config : Hosts, ota : Hosts, slot : BOOLEAN]
    BY <1>7, TransfersTyped DEF SerialLine, Hosts
  <2>q. QED
    BY <1>7, <2>1 DEF SerialLine
<1>8. CASE Dispatch
  <2>1. Head(lines) \in Clients /\ lines' \in Seq(Clients)
    BY <1>8 DEF Dispatch
  <2>2. upload' \in [file : Hosts, config : Hosts, ota : Hosts, slot : BOOLEAN]
    BY <1>8, <2>1, TransfersTyped DEF Dispatch, Hosts
  <2>q. QED
    BY <1>8, <2>1, <2>2 DEF Dispatch
<1>9. CASE DropClient
  BY <1>9 DEF DropClient
<1>10. CASE EndDrain \/ FallSilent \/ BusyWindow
  BY <1>10 DEF EndDrain, FallSilent, BusyWindow
<1>q. QED
  BY <1>1, <1>2, <1>3, <1>4, <1>5, <1>6, <1>7, <1>8, <1>9, <1>10 DEF SocketNext, Server, Usb

\* No tuner is replaced unsaid, whatever the USB task does between a decision and its effect.
THEOREM ReplacedHeard == Spec => ReplacedIsHeard
<1>1. Init => SocketSound
  BY DEF Init, SocketInit, SocketSound, Hosts
<1>2. SocketSound /\ [Next]_vars => SocketSound' /\ Heard
  <2> SUFFICES ASSUME SocketSound, [Next]_vars PROVE SocketSound' /\ Heard
    OBVIOUS
  <2>1. CASE SocketNext
    BY <2>1, SocketKeeps
  <2>2. CASE UNCHANGED socketVars
    BY <2>2 DEF SocketSound, Heard, socketVars, sessions
  <2>q. QED
    BY <2>1, <2>2 DEF Next, RequestWorkshop, EnterWorkshop, EntryFails, ReleaseRadio, StartServer, vars
<1>q. QED
  BY <1>1, <1>2, PTL DEF Spec, ReplacedIsHeard
=============================================================================
