--------------------------- MODULE WorkshopSocket ---------------------------
(***************************************************************************)
(* The tuner's web socket: one client at a time, admitted and replaced on  *)
(* the HTTP server's task, whose lines the USB task takes from a queue and *)
(* dispatches.  The USB task learns of a closed socket from a flag, and    *)
(* the server of a transfer under way from another.                        *)
(*                                                                         *)
(* What the lines of a transfer carry is in Uploads and OtaUpdate.  Here a *)
(* transfer is who began it: of its chunks only the first and the last     *)
(* count, since those between only put its clock back, and are few.        *)
(***************************************************************************)
EXTENDS Naturals, Sequences

CONSTANTS
  Clients,    (* the socket descriptors                                    *)
  NoClient,   (* kNoClient                                                 *)
  QueueDepth  (* kLineQueueDepth                                           *)

ASSUME ClientsAssumption == NoClient \notin Clients
ASSUME DepthAssumption == QueueDepth \in Nat \ {0}

VARIABLES
  client,    (* s_clientFd                                                 *)
  silent,    (* the tuner's phone sends nothing any more                   *)
  recent,    (* WORKSHOP_SOCKET_BUSY_WINDOW_MS since s_lastActivityMs have
                not passed                                                 *)
  look,      (* adoptClient: what it decided, before it acts               *)
  lines,     (* s_lines, each line by who sent it                          *)
  note,      (* s_socketClosed                                             *)
  upload,    (* file, config, ota: the phone that began the transfer of
                s_chunk, s_configChunk and OtaReceiver, NoClient for one of
                the serial host; slot: a staged file is open               *)
  inFlight,  (* s_socketTransfer                                           *)
  usb        (* where the USB task is                                      *)

sessions == <<client, silent, recent, look>>
socketVars == <<sessions, lines, note, upload, inFlight, usb>>

Transfers == {"file", "config", "ota"}

NoLook == [fd |-> NoClient, admission |-> "none"]

SocketInit ==
  /\ client = NoClient /\ silent = FALSE /\ recent = FALSE
  /\ look = NoLook /\ lines = <<>> /\ note = FALSE
  /\ upload = [file |-> NoClient, config |-> NoClient, ota |-> NoClient, slot |-> FALSE]
  /\ inFlight = FALSE /\ usb = "tick"

-----------------------------------------------------------------------------
(* The server's task: one handler at a time.  A session it refuses or replaces it asks to close *)
(* (httpd_sess_trigger_close), which may fail and comes later if not.  Nothing here reads       *)
(* whether a session that is not the tuner's is still open, so none is kept of it: its frames   *)
(* are refused, its end is nobody's loss, and its phone may knock again.                        *)

\* socket_admission
Admission(current) ==
  IF current = NoClient THEN "adopt"
  ELSE IF inFlight \/ recent THEN "busy" ELSE "replace"

\* adoptClient, up to the decision.
Arrive(c) ==
  /\ look = NoLook /\ c # client
  /\ look' = [fd |-> c, admission |-> Admission(client)]
  /\ UNCHANGED <<client, silent, recent, lines, note, upload, inFlight, usb>>

\* adopt, replaceStale
Adopt ==
  /\ look.admission \in {"adopt", "replace"}
  /\ note' = (note \/ look.admission = "replace")
  /\ recent' = TRUE /\ client' = look.fd /\ silent' = FALSE /\ look' = NoLook
  /\ UNCHANGED <<lines, upload, inFlight, usb>>

\* refuseBusy
RefuseBusy ==
  /\ look.admission = "busy" /\ look' = NoLook
  /\ UNCHANGED <<client, silent, recent, lines, note, upload, inFlight, usb>>

\* receiveLine, a frame of the tuner: it is queued, or it is empty and only keeps the tuner
\* alive.  One that is not acceptable, or finds the queue full for kLineQueueWaitMs, or is not
\* the tuner's, costs its sender the session: OnSessionClosed.
Receive ==
  /\ look = NoLook /\ client # NoClient /\ ~silent
  /\ recent' = TRUE
  /\ \/ Len(lines) < QueueDepth /\ lines' = Append(lines, client)
     \/ UNCHANGED lines
  /\ UNCHANGED <<client, silent, look, note, upload, inFlight, usb>>

\* onSessionClosed, of the tuner's session: a frame was refused, the phone closed the session or
\* broke off, or the server needed the socket for another (lru_purge_enable).
OnSessionClosed ==
  /\ look = NoLook /\ client # NoClient
  /\ client' = NoClient /\ silent' = FALSE /\ note' = TRUE
  /\ UNCHANGED <<recent, look, lines, upload, inFlight, usb>>

-----------------------------------------------------------------------------
(* The USB task: UsbComm::tick, then WorkshopServer::tick. *)

\* abortChunkTransfer, abortConfigChunk and OtaReceiver::abort.  The first two drop the
\* staged file without asking whose it is.
EndFile(u) == [u EXCEPT !.file = NoClient, !.slot = FALSE]
EndConfig(u) == [u EXCEPT !.config = NoClient, !.slot = FALSE]
EndOta(u) == [u EXCEPT !.ota = NoClient]

\* tickChunkTransferTimeout: the clock of s_chunk counts only while a staged file is open,
\* whoever's it is.  That of s_configChunk may also run out for the serial host.
MutTimedOut(u) ==
  {u, EndConfig(u)}

TimedOut(u) ==
  {u, EndConfig(u)} \union {v \in {EndFile(u)} : u.file # NoClient /\ u.slot}

\* abortSocketTransfers, and the verdict LinkClosed of tickOtaSessionWatch.
SocketTransfersAborted(u) ==
  LET files == IF u.file \in Clients THEN EndFile(u) ELSE u
      configs == IF files.config \in Clients THEN EndConfig(files) ELSE files
  IN IF configs.ota \in Clients THEN EndOta(configs) ELSE configs

\* What of the transfers is published: socketFileTransferOpen or socketOtaSessionOpen, without
\* a word of the staged file.
SocketTransferOpen(u) == \E t \in Transfers : u[t] \in Clients

\* The flag is only ever raised.
MutTick ==
  /\ usb = "tick" /\ usb' = "serial"
  /\ note' = FALSE
  /\ \E v \in TimedOut(upload) : \E w \in {v, EndOta(v)} :
       upload' = IF note THEN SocketTransfersAborted(w) ELSE w
  /\ inFlight' = (inFlight \/ SocketTransferOpen(upload'))
  /\ UNCHANGED <<sessions, lines>>

\* UsbComm::tick up to the serial line: clocks, takeSocketClosed, publishSocketTransfer.
Tick ==
  /\ usb = "tick" /\ usb' = "serial"
  /\ note' = FALSE
  /\ \E v \in TimedOut(upload) : \E w \in {v, EndOta(v)} :
       upload' = IF note THEN SocketTransfersAborted(w) ELSE w
  /\ inFlight' = SocketTransferOpen(upload')
  /\ UNCHANGED <<sessions, lines>>

\* handlePutFile: a transfer begins, or the one there is ends.  A line of the serial host is
\* from NoClient.
PutFile(from) ==
  \/ upload' = [upload EXCEPT !.file = from, !.slot = TRUE]
  \/ upload' = EndFile(upload)

\* handlePutConfigChunk takes the staged file over and leaves s_chunk as it is.
PutConfigChunk(from) ==
  \/ upload' = [upload EXCEPT !.config = from, !.slot = TRUE]
  \/ upload' = EndConfig(upload)

\* persistTypedConfigAndReboot, when it does not come to the restart: so does this.
PutTyped == upload' = [upload EXCEPT !.slot = FALSE]

\* handleOtaBegin, handleOtaWriteRaw, handleOtaEnd
Ota(from) ==
  \/ from \in Clients /\ upload' = [upload EXCEPT !.ota = from]
  \/ upload' = EndOta(upload)

\* handleCommand, of any line; most of them leave the transfers alone.
Command(from) == PutFile(from) \/ PutConfigChunk(from) \/ PutTyped \/ Ota(from) \/ UNCHANGED upload

\* dispatchFromSerial
SerialLine ==
  /\ usb = "serial" /\ Command(NoClient)
  /\ UNCHANGED <<sessions, lines, note, inFlight, usb>>

\* drainSocket: dispatchFromSocket, whoever the line is from.
Dispatch ==
  /\ usb \in {"serial", "drain"} /\ usb' = "drain"
  /\ lines # <<>> /\ lines' = Tail(lines) /\ Command(Head(lines))
  /\ UNCHANGED <<sessions, note, inFlight>>

EndDrain ==
  /\ usb \in {"serial", "drain"} /\ usb' = "tick"
  /\ lines = <<>>
  /\ UNCHANGED <<sessions, lines, note, upload, inFlight>>

\* dropClient: a reply, a log line or telemetry did not get through.  Nobody is told.
DropClient ==
  /\ client # NoClient /\ client' = NoClient /\ silent' = FALSE
  /\ UNCHANGED <<recent, look, lines, note, upload, inFlight, usb>>

-----------------------------------------------------------------------------
(* Phones and time. *)

\* The tuner's phone sends nothing any more, and does not say so: it is out of reach, or asleep.
FallSilent ==
  /\ client # NoClient /\ ~silent /\ silent' = TRUE
  /\ UNCHANGED <<client, recent, look, lines, note, upload, inFlight, usb>>

BusyWindow ==
  /\ recent /\ recent' = FALSE
  /\ UNCHANGED <<client, silent, look, lines, note, upload, inFlight, usb>>

-----------------------------------------------------------------------------
Arrival == \E c \in Clients : Arrive(c)
Server == Adopt \/ RefuseBusy
Usb == Tick \/ Dispatch \/ EndDrain

SocketNext ==
  \/ Arrival \/ Server \/ Receive \/ OnSessionClosed
  \/ Usb \/ SerialLine \/ DropClient
  \/ FallSilent \/ BusyWindow

\* Nobody puts the clock of transfer t back: its phone is not the tuner, or silent.
Abandoned(t) == upload[t] \in Clients /\ (upload[t] # client \/ silent)

ClockRunsOut(t) == Abandoned(t) /\ Tick /\ upload'[t] = NoClient

-----------------------------------------------------------------------------
(* Properties. *)

Keeps(c) == client = c /\ silent

\* Another write has closed the staged file of the transfer that s_chunk still holds.
Stranded == upload.file \in Clients /\ ~upload.slot

\* A tuner that fell silent does not keep the dash, whatever it left half done, unless that is
\* a file whose staging another write has closed: its five seconds pass, its transfer times
\* out, and the next one to knock replaces it (socket_admission, tickChunkTransferTimeout).
SilentTunerYields == \A c \in Clients : Keeps(c) ~> ~Keeps(c) \/ Stranded

Orphan(t) == upload[t] \in Clients /\ upload[t] # client

\* A transfer whose phone is no longer the tuner comes to an end, noted or not, unless it is
\* a file whose staging another write has closed.
OrphanEnds ==
  \A t \in Transfers : Orphan(t) ~> ~Orphan(t) \/ (t = "file" /\ Stranded)
=============================================================================
