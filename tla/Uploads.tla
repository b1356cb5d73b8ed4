------------------------------ MODULE Uploads -------------------------------
(***************************************************************************)
(* File uploads as the USB task sees them: PUT_FILE, PUT_CONFIG_CHUNK,     *)
(* PUT_CONFIG and the typed PUTs, from a host on the serial line and a     *)
(* tuner on the workshop socket.                                           *)
(*                                                                         *)
(* The handlers run one at a time on the USB task, but a chunked upload    *)
(* spans many of them, and three pieces of state have to agree: the        *)
(* transfer of PUT_FILE (s_chunk), the transfer of PUT_CONFIG_CHUNK        *)
(* (s_configChunk) and the one staged file that StorageDriver keeps open   *)
(* for whoever writes (s_chunkFile and its paths).  Hosts retry, give up   *)
(* and start over at any moment; the socket drops; the dash restarts.      *)
(*                                                                         *)
(* A chunk is known by its upload and its place in it.  Every chunk counts *)
(* one byte.  The swap that ends an upload is atomic here: ConfigStore     *)
(* takes it apart.                                                         *)
(***************************************************************************)
EXTENDS Naturals, Sequences

CONSTANTS
  Totals,        (* numbers of chunks an upload is cut into                *)
  MaxUploads     (* bound: uploads in a behaviour                          *)

ASSUME TotalsAssumption == Totals \subseteq Nat \ {0}
ASSUME MaxUploadsAssumption == MaxUploads \in Nat

VARIABLES
  ram,      (* slot, stage, gone; file; conf: see Boot                     *)
  disk,     (* what is committed under each path                           *)
  client,   (* the upload each host is busy with, or NoUpload              *)
  started,  (* number of uploads so far                                    *)
  dropped,  (* s_socketClosed: a socket close the USB task has not taken   *)
  reply,    (* the upload that the last reply called done, or NoUpload     *)
  mixed     (* history: two hosts have been uploading at the same time     *)

vars == <<ram, disk, client, started, dropped, reply, mixed>>

Hosts == {"serial", "socket"}
Asset == "/assets/icon"
Signals == "/config/signals.json"
Dashboard == "/config/dashboard.json"
Device == "/config/device.json"
Paths == {Asset, Signals, Dashboard, Device}
NoPath == ""

\* The commands, and where each of them may write.
Targets ==
  [file |-> {Asset, Signals}, chunk |-> {Dashboard}, line |-> {Dashboard}, typed |-> {Device}]

\* PUT_CONFIG and the typed PUTs carry the whole document.
Single == {"line", "typed"}

Upload == [id : 1..MaxUploads, host : Hosts, cmd : DOMAIN Targets, path : Paths,
           total : Totals \union {1}, next : Nat]
NoUpload == [id |-> 0]

\* The i-th chunk of upload u, and a file that holds all of them.
Piece(u, i) == [id |-> u.id, path |-> u.path, of |-> u.total, idx |-> i]
Whole(u) == [k \in 1..u.total |-> Piece(u, k - 1)]

NoFile == [path |-> NoPath, total |-> 0, next |-> 0, fromSocket |-> FALSE]
NoConf == [open |-> FALSE, total |-> 0, next |-> 0, declared |-> 0, written |-> 0,
           fromSocket |-> FALSE]

\* After a boot: no staged file open, no transfer.
Boot == [slot |-> NoPath, stage |-> <<>>, gone |-> FALSE, file |-> NoFile, conf |-> NoConf]

Init ==
  /\ ram = Boot
  /\ disk = [p \in Paths |-> <<>>]
  /\ client = [h \in Hosts |-> NoUpload]
  /\ started = 0 /\ dropped = FALSE /\ reply = NoUpload /\ mixed = FALSE

-----------------------------------------------------------------------------
(* StorageDriver's one staged file. *)

\* abortChunkedWrite.
AbortSlot(r) == [r EXCEPT !.slot = NoPath, !.stage = <<>>, !.gone = FALSE]

\* Opened for append, the staged file would keep what an earlier upload left.
MutOpenSlot(r, path) == [r EXCEPT !.slot = path, !.gone = FALSE]

\* beginChunkedWriteAtomic: an open staged file is dropped, whoever's it is.
OpenSlot(r, path) == [AbortSlot(r) EXCEPT !.slot = path]

\* appendChunk, with the slot open.
Store(r, u, i) == [r EXCEPT !.stage = Append(@, Piece(u, i))]

\* endChunkedWrite, with the slot open: the staged file is committed under the
\* path the slot was opened for.  A staged file that is gone cannot be promoted.
Commits(r) ==
  /\ ~r.gone
  /\ disk' = [disk EXCEPT ![r.slot] = r.stage]

-----------------------------------------------------------------------------
(* The two transfers. *)

\* The transfer forgotten, and the staged file left open.
MutAbortChunkTransfer(r) == [r EXCEPT !.file = NoFile]

\* abortChunkTransfer drops the staged file without asking whose it is.
AbortChunkTransfer(r) == [AbortSlot(r) EXCEPT !.file = NoFile]

\* abortConfigChunk does so only when a config transfer is open.
AbortConfigChunk(r) == IF r.conf.open THEN [AbortSlot(r) EXCEPT !.conf = NoConf] ELSE r

BeginPutFile(r, u) ==
  [OpenSlot(AbortChunkTransfer(r), u.path) EXCEPT
     !.file = [path |-> u.path, total |-> u.total, next |-> 0, fromSocket |-> u.host = "socket"]]

BeginConfigChunk(r, u, bytes) ==
  [OpenSlot(AbortConfigChunk(r), Dashboard) EXCEPT
     !.conf = [open |-> TRUE, total |-> u.total, next |-> 0, declared |-> bytes, written |-> 0,
               fromSocket |-> u.host = "socket"]]

\* Without the index a chunk sent twice would be stored twice.
MutContinuesPutFile(r, u, i) == r.slot # NoPath /\ r.file.path = u.path

ContinuesPutFile(r, u, i) == r.slot # NoPath /\ r.file.next = i /\ r.file.path = u.path

\* One byte too many.
MutFits(r) == r.conf.written <= r.conf.declared

\* appendConfigChunk: not more than was announced.
Fits(r) == r.conf.written + 1 <= r.conf.declared

ContinuesConfigChunk(r, u, i) == r.conf.open /\ r.conf.next = i /\ r.conf.total = u.total

-----------------------------------------------------------------------------
(* Replies, and the host that gets them. *)

\* Anything but the last chunk: go on.
Accepted(u, i) ==
  /\ client' = [client EXCEPT ![u.host].next = IF i = u.next THEN i + 1 ELSE u.next]
  /\ reply' = NoUpload

\* The whole upload is answered ok.
Done(u) ==
  /\ client' = [client EXCEPT ![u.host] = NoUpload]
  /\ reply' = u

\* An error ends the upload for the host.
Refused(u) ==
  /\ client' = [client EXCEPT ![u.host] = NoUpload]
  /\ reply' = NoUpload
  /\ UNCHANGED disk

-----------------------------------------------------------------------------
(* The handlers. *)

\* handlePutFile, chunk i of u.
PutFile(u, i) ==
  LET begun == IF i = 0 THEN BeginPutFile(ram, u) ELSE ram
      stored == [Store(begun, u, i) EXCEPT !.file.next = i + 1]
      closed == [AbortSlot(stored) EXCEPT !.file = NoFile]
      continues == i = 0 \/ ContinuesPutFile(ram, u, i)
  IN
  \/ \* the open fails, the chunk is out of sequence, or it cannot be stored
     /\ ram' = AbortChunkTransfer(ram)
     /\ Refused(u) /\ UNCHANGED dropped
  \/ /\ continues /\ i # u.total - 1
     /\ ram' = stored
     /\ Accepted(u, i) /\ UNCHANGED <<disk, dropped>>
  \/ \* finishPlainFile, or commitSignalsUpload of a file that is turned down
     /\ continues /\ i = u.total - 1
     /\ ram' = closed
     /\ Refused(u) /\ UNCHANGED dropped
  \/ /\ continues /\ i = u.total - 1
     /\ Commits(stored) /\ Done(u)
     /\ IF u.path = Signals
          THEN ram' = Boot /\ dropped' = FALSE        \* rebootIntoSavedConfig
          ELSE ram' = closed /\ UNCHANGED dropped

\* Chunk 0 announces a number of bytes: the right one, too few or too many.
Announced(u, i) == IF i = 0 THEN {1, u.total, u.total + 1} ELSE {u.total}

\* handlePutConfigChunk, chunk i of u.
PutConfigChunk(u, i, bytes) ==
  LET begun == IF i = 0 THEN BeginConfigChunk(ram, u, bytes) ELSE ram
      stored == [Store(begun, u, i) EXCEPT !.conf.next = i + 1, !.conf.written = @ + 1]
      closed == [AbortSlot(stored) EXCEPT !.conf = NoConf]
      taken == /\ i = 0 \/ ContinuesConfigChunk(ram, u, i)
               /\ Fits(begun) /\ begun.slot # NoPath
  IN
  /\ UNCHANGED dropped
  /\ \/ \* bad_args or open_failed on chunk 0; the staged file of another may be gone
        /\ i = 0
        /\ ram' \in {AbortConfigChunk(ram), AbortSlot(AbortConfigChunk(ram))}
        /\ Refused(u)
     \/ \* out of sequence, too large, or no staged file to append to
        /\ ram' = AbortConfigChunk(begun)
        /\ Refused(u)
     \/ /\ taken /\ i # u.total - 1
        /\ ram' = stored
        /\ Accepted(u, i) /\ UNCHANGED disk
     \/ \* commitConfigChunk: incomplete, or the swap fails
        /\ taken /\ i = u.total - 1
        /\ ram' = closed
        /\ Refused(u)
     \/ /\ taken /\ i = u.total - 1
        /\ stored.conf.written = stored.conf.declared
        /\ ram' = closed
        /\ Commits(stored) /\ Done(u)

\* handlePutConfig: writeFileAtomic has a file of its own, but stages it under the
\* name a config transfer may have open.
PutConfig(u) ==
  LET clobbered == [ram EXCEPT !.gone = @ \/ ram.slot = Dashboard]
  IN
  /\ UNCHANGED dropped
  /\ \/ ram' \in {ram, clobbered} /\ Refused(u)
     \/ /\ ram' = clobbered
        /\ disk' = [disk EXCEPT ![Dashboard] = Whole(u)]
        /\ Done(u)

\* persistTypedConfigAndReboot: it takes the slot, and restarts when it is done.
PutTyped(u) ==
  \/ /\ ram' \in {ram, AbortSlot(ram)}
     /\ Refused(u) /\ UNCHANGED dropped
  \/ /\ ram' = Boot /\ dropped' = FALSE
     /\ disk' = [disk EXCEPT ![u.path] = Whole(u)]
     /\ Done(u)

\* A host sends the next chunk of its upload, or one it has sent before.
Send(h) ==
  LET u == client[h]
  IN
  /\ u # NoUpload
  /\ \E i \in 0..u.next :
       \/ u.cmd = "file" /\ i < u.total /\ PutFile(u, i)
       \/ u.cmd = "chunk" /\ i < u.total /\ \E bytes \in Announced(u, i) : PutConfigChunk(u, i, bytes)
       \/ u.cmd = "line" /\ PutConfig(u)
       \/ u.cmd = "typed" /\ PutTyped(u)
  /\ mixed' = (mixed \/ \E g \in Hosts \ {h} : client[g] # NoUpload)
  /\ UNCHANGED started

\* A command that does not parse, or with bad arguments, from anyone.
Garbled ==
  /\ ram' \in {AbortChunkTransfer(ram), AbortConfigChunk(ram)}
  /\ reply' = NoUpload
  /\ UNCHANGED <<disk, client, started, dropped, mixed>>

-----------------------------------------------------------------------------
(* What the hosts do, and the clock. *)

\* A host starts an upload, forgetting the one it was busy with.
Start(h) ==
  /\ started < MaxUploads
  /\ \E cmd \in DOMAIN Targets, total \in Totals \union {1} :
       \E path \in Targets[cmd] :
         /\ cmd \in Single => total = 1
         /\ client' = [client EXCEPT ![h] = [id |-> started + 1, host |-> h, cmd |-> cmd,
                                             path |-> path, total |-> total, next |-> 0]]
  /\ started' = started + 1 /\ reply' = NoUpload
  /\ UNCHANGED <<ram, disk, dropped, mixed>>

\* A host gives up without telling the dash.
GiveUp(h) ==
  /\ client[h] # NoUpload
  /\ client' = [client EXCEPT ![h] = NoUpload] /\ reply' = NoUpload
  /\ UNCHANGED <<ram, disk, started, dropped, mixed>>

\* The tuner's socket closes; the USB task learns of it on a later tick, when
\* another socket may be there already.
SocketDrop ==
  /\ dropped' = TRUE
  /\ client' = [client EXCEPT !["socket"] = NoUpload] /\ reply' = NoUpload
  /\ UNCHANGED <<ram, disk, started, mixed>>

\* abortSocketTransfers.
TakeSocketDrop ==
  LET kept == IF ram.file.total > 0 /\ ram.file.fromSocket THEN AbortChunkTransfer(ram) ELSE ram
  IN
  /\ dropped /\ dropped' = FALSE
  /\ ram' = IF kept.conf.fromSocket THEN AbortConfigChunk(kept) ELSE kept
  /\ reply' = NoUpload
  /\ UNCHANGED <<disk, client, started, mixed>>

\* Only the clock of the config transfer.
MutIdleTimeout ==
  /\ ram.conf.open /\ ram' = AbortConfigChunk(ram)
  /\ reply' = NoUpload
  /\ UNCHANGED <<disk, client, started, dropped, mixed>>

\* Each transfer's own clock has run for kUsbChunkIdleTimeoutMs.
IdleTimeout ==
  /\ \/ ram.file.total > 0 /\ ram.slot # NoPath /\ ram' = AbortChunkTransfer(ram)
     \/ ram.conf.open /\ ram' = AbortConfigChunk(ram)
  /\ reply' = NoUpload
  /\ UNCHANGED <<disk, client, started, dropped, mixed>>

Restart ==
  /\ ram' = Boot /\ dropped' = FALSE /\ reply' = NoUpload
  /\ UNCHANGED <<disk, client, started, mixed>>

Next ==
  \/ \E h \in Hosts : Start(h) \/ Send(h) \/ GiveUp(h)
  \/ Garbled \/ SocketDrop \/ TakeSocketDrop \/ IdleTimeout \/ Restart

Spec == Init /\ [][Next]_vars

NobodyUploads == \A h \in Hosts : client[h] = NoUpload

\* While nobody sends, every clock reaches its limit; the tick runs for ever.
FairSpec == Spec /\ WF_vars(NobodyUploads /\ IdleTimeout) /\ WF_vars(TakeSocketDrop)

-----------------------------------------------------------------------------
(* Properties. *)

\* Types; a config transfer never takes more than was announced.
TypeOK ==
  /\ ram.slot \in Paths \union {NoPath}
  /\ ram.stage \in Seq([id : 1..MaxUploads, path : Paths, of : Nat, idx : Nat])
  /\ ram.gone \in BOOLEAN
  /\ client \in [Hosts -> Upload \union {NoUpload}]
  /\ ram.conf.written <= ram.conf.declared
  /\ started \in 0..MaxUploads
  /\ dropped \in BOOLEAN /\ mixed \in BOOLEAN

\* An open staged file always has a transfer behind it whose clock will close it:
\* no sequence of failures, retries and commands of other kinds leaks the slot.
SlotIsOwned == ram.slot # NoPath => ram.file.total > 0 \/ ram.conf.open

\* One host at a time: what is committed under a path is all of one upload to that
\* path, in order, whatever was repeated, given up or left half done before.
DiskIsWhole ==
  ~mixed => \A p \in Paths : disk[p] # <<>> =>
    /\ Len(disk[p]) = disk[p][1].of
    /\ \A k \in DOMAIN disk[p] : disk[p][k] = [disk[p][1] EXCEPT !.path = p, !.idx = k - 1]

\* One host at a time: an upload answered ok is the one on flash.
OkMeansCommitted == ~mixed /\ reply # NoUpload => disk[reply.path] = Whole(reply)

\* usb-transport.md, dispatch notes: the integrity of a chunked config is checked
\* from what passed through.  The code does not keep it when another upload takes
\* the slot over in between: the count is of what was sent, not of what was staged.
ConfigIntegrity ==
  reply # NoUpload /\ reply.cmd = "chunk" => disk[Dashboard] = Whole(reply)

\* An upload nobody goes on with does not keep the staged file open.
SlotIsReleased == NobodyUploads /\ ram.slot # NoPath ~> ram.slot = NoPath \/ ~NobodyUploads
=============================================================================
