---------------------------- MODULE UploadsProofs ---------------------------
(***************************************************************************)
(* Proofs about Uploads, for every number of uploads and of chunks.        *)
(*                                                                         *)
(* The handlers are built from operators on the USB task's memory, so each *)
(* of these has a lemma first.  Whoever holds the staged file, Accounted   *)
(* says what the two transfers know of it.  What a committed file is made  *)
(* of depends on who goes on with it: Carried says that the one upload     *)
(* which is past its first chunk finds its own chunks in the staged file,  *)
(* or none.                                                                *)
(***************************************************************************)
EXTENDS Uploads, SequenceTheorems, TLAPS

Chunks == [id : 1..MaxUploads, path : Paths, of : Nat, idx : Nat]
Files == [path : Paths \union {NoPath}, total : Nat, next : Nat, fromSocket : BOOLEAN]
Confs == [open : BOOLEAN, total : Nat, next : Nat, declared : Nat, written : Nat,
          fromSocket : BOOLEAN]
Rams ==
  [slot : Paths \union {NoPath}, stage : Seq(Chunks), gone : BOOLEAN, file : Files, conf : Confs]

\* The memory of the USB task adds up: an open staged file has a transfer, and a config
\* transfer took no more than was announced.
Accounted(r) ==
  /\ r \in Rams
  /\ r.slot # NoPath => r.file.total > 0 \/ r.conf.open
  /\ r.conf.written <= r.conf.declared

\* The first n chunks of u.
Prefix(u, n) == [k \in 1..n |-> Piece(u, k - 1)]

\* If a staged file is open, u may go on with it: it holds what its transfer counted.
Carries(r, u) ==
  r.slot # NoPath =>
    /\ u.cmd = "file" => r.slot = u.path /\ r.stage = Prefix(u, r.file.next)
    /\ u.cmd = "chunk" => r.slot = Dashboard /\ (r.conf.open => r.stage = Prefix(u, r.conf.next))

Busy(h) == client[h] # NoUpload

\* Each host's upload writes where its command may write.
Aimed ==
  /\ \A h \in Hosts : Busy(h) => client[h].host = h /\ client[h].path \in Targets[client[h].cmd]
  /\ \A h \in Hosts : Busy(h) /\ client[h].cmd \in Single => client[h].total = 1

Carried ==
  ~mixed => \A h \in Hosts : Busy(h) /\ client[h].next > 0 => Carries(ram, client[h])

\* What is under path p is nothing, or all of one upload to it.
Kept(p) == disk[p] = <<>> \/ \E u \in Upload : u.path = p /\ disk[p] = Whole(u)

Typed ==
  /\ client \in [Hosts -> Upload \union {NoUpload}]
  /\ disk \in [Paths -> Seq(Chunks)]
  /\ started \in 0..MaxUploads
  /\ dropped \in BOOLEAN /\ mixed \in BOOLEAN
  /\ reply \in Upload \union {NoUpload}

Committed ==
  ~mixed =>
    /\ \A p \in Paths : Kept(p)
    /\ reply # NoUpload => disk[reply.path] = Whole(reply)

IInv == Accounted(ram) /\ Typed /\ Aimed /\ Carried /\ Committed
-----------------------------------------------------------------------------
LEMMA CommandPaths ==
  /\ DOMAIN Targets = {"file", "chunk", "line", "typed"}
  /\ \A c \in DOMAIN Targets : Targets[c] \subseteq Paths
  /\ Targets["chunk"] = {Dashboard} /\ Targets["line"] = {Dashboard}
  /\ NoPath \notin Paths
BY DEF Targets, Paths, NoPath, Asset, Signals, Dashboard, Device

LEMMA UploadFacts ==
  ASSUME NEW u \in Upload
  PROVE  /\ u # NoUpload /\ u.id \in 1..MaxUploads /\ u.host \in Hosts
         /\ u.cmd \in DOMAIN Targets /\ u.path \in Paths
         /\ u.total \in Nat /\ u.total > 0 /\ u.next \in Nat
<1>1. /\ u.id \in 1..MaxUploads /\ u.host \in Hosts /\ u.cmd \in DOMAIN Targets
      /\ u.path \in Paths /\ u.total \in Totals \union {1} /\ u.next \in Nat
  BY DEF Upload
<1>2. u.id # 0
  BY <1>1, MaxUploadsAssumption
<1>3. u # NoUpload
  <2>1. NoUpload.id = 0
    BY DEF NoUpload
  <2>q. QED
    BY <1>2, <2>1
<1>4. u.total \in Nat /\ u.total > 0
  <2>1. u.total \in Nat \ {0}
    <3>1. CASE u.total \in Totals
      BY <3>1, TotalsAssumption
    <3>2. CASE u.total = 1
      BY <3>2
    <3>q. QED
      BY <1>1, <3>1, <3>2
  <2>q. QED
    BY <2>1
<1>q. QED
  BY <1>1, <1>3, <1>4

LEMMA PieceIsChunk ==
  ASSUME NEW u \in Upload, NEW i \in Nat
  PROVE  Piece(u, i) \in Chunks
BY UploadFacts DEF Piece, Chunks

\* Storing the next chunk makes the prefix one longer.
LEMMA PrefixGrows ==
  ASSUME NEW u \in Upload, NEW n \in Nat
  PROVE  /\ Prefix(u, n) \in Seq(Chunks)
         /\ Append(Prefix(u, n), Piece(u, n)) = Prefix(u, n + 1)
<1>1. Prefix(u, n) \in Seq(Chunks) /\ Len(Prefix(u, n)) = n
  <2>1. \A k \in 1..n : Piece(u, k - 1) \in Chunks
    BY PieceIsChunk
  <2>q. QED
    BY <2>1 DEF Prefix
<1>2. Append(Prefix(u, n), Piece(u, n)) \in Seq(Chunks) /\ Prefix(u, n + 1) \in Seq(Chunks)
  <2>1. \A k \in 1..n + 1 : Piece(u, k - 1) \in Chunks
    BY PieceIsChunk
  <2>q. QED
    BY <1>1, <2>1, PieceIsChunk DEF Prefix
<1>3. Len(Append(Prefix(u, n), Piece(u, n))) = n + 1 /\ Len(Prefix(u, n + 1)) = n + 1
  BY <1>1 DEF Prefix
<1>4. \A k \in 1..n + 1 : Append(Prefix(u, n), Piece(u, n))[k] = Prefix(u, n + 1)[k]
  <2> TAKE k \in 1..n + 1
  <2>1. Prefix(u, n + 1)[k] = Piece(u, k - 1)
    BY DEF Prefix
  <2>2. CASE k = n + 1
    <3>1. Append(Prefix(u, n), Piece(u, n))[n + 1] = Piece(u, n)
      BY <1>1, PieceIsChunk
    <3>q. QED
      BY <2>1, <2>2, <3>1
  <2>3. CASE k \in 1..n
    <3>1. Prefix(u, n)[k] = Piece(u, k - 1)
      BY <2>3 DEF Prefix
    <3>q. QED
      BY <1>1, <2>1, <2>3, <3>1
  <2>q. QED
    BY <2>2, <2>3 DEF Prefix
<1>q. QED
  BY <1>1, <1>2, <1>3, <1>4, SeqEqual

LEMMA WholeIsPrefix == \A u : Whole(u) = Prefix(u, u.total)
BY DEF Whole, Prefix
-----------------------------------------------------------------------------
(* What the operators on the memory do. *)

LEMMA SlotAborted ==
  ASSUME NEW r, Accounted(r)
  PROVE  /\ Accounted(AbortSlot(r)) /\ AbortSlot(r).slot = NoPath
         /\ AbortSlot(r).file = r.file /\ AbortSlot(r).conf = r.conf
         /\ AbortSlot(r).stage = <<>>
<1>1. <<>> \in Seq(Chunks)
  OBVIOUS
<1>2. AbortSlot(r) \in Rams
  BY <1>1 DEF Accounted, Rams, AbortSlot
<1>3. AbortSlot(r).slot = NoPath /\ AbortSlot(r).file = r.file /\ AbortSlot(r).conf = r.conf
      /\ AbortSlot(r).stage = <<>>
  BY DEF Accounted, Rams, AbortSlot
<1>q. QED
  BY <1>2, <1>3 DEF Accounted

LEMMA TransferAborted ==
  ASSUME NEW r, Accounted(r)
  PROVE  /\ Accounted(AbortChunkTransfer(r)) /\ AbortChunkTransfer(r).slot = NoPath
         /\ AbortChunkTransfer(r).conf = r.conf
<1> DEFINE s == AbortSlot(r)
<1>1. Accounted(s) /\ s.slot = NoPath /\ s.conf = r.conf
  BY SlotAborted
<1> HIDE DEF s
<1>2. [s EXCEPT !.file = NoFile] \in Rams
  BY <1>1 DEF Accounted, Rams, Files, NoFile
<1>3. [s EXCEPT !.file = NoFile].slot = NoPath /\ [s EXCEPT !.file = NoFile].conf = r.conf
  BY <1>1 DEF Accounted, Rams
<1>q. QED
  BY <1>1, <1>2, <1>3 DEF AbortChunkTransfer, Accounted, s

LEMMA ConfigAborted ==
  ASSUME NEW r, Accounted(r)
  PROVE  /\ Accounted(AbortConfigChunk(r))
         /\ AbortConfigChunk(r) = r \/ AbortConfigChunk(r).slot = NoPath
<1> DEFINE s == AbortSlot(r)
<1>1. Accounted(s) /\ s.slot = NoPath
  BY SlotAborted
<1> HIDE DEF s
<1>2. [s EXCEPT !.conf = NoConf] \in Rams
  BY <1>1 DEF Accounted, Rams, Confs, NoConf
<1>3. [s EXCEPT !.conf = NoConf].slot = NoPath /\ [s EXCEPT !.conf = NoConf].conf = NoConf
  BY <1>1 DEF Accounted, Rams
<1>4. NoConf.written <= NoConf.declared
  BY DEF NoConf
<1>q. QED
  BY <1>2, <1>3, <1>4 DEF AbortConfigChunk, Accounted, s

LEMMA SlotOpened ==
  ASSUME NEW r, Accounted(r), NEW path \in Paths
  PROVE  /\ OpenSlot(r, path) \in Rams
         /\ OpenSlot(r, path).slot = path /\ OpenSlot(r, path).stage = <<>>
         /\ OpenSlot(r, path).conf = r.conf
<1> DEFINE s == AbortSlot(r)
<1>1. Accounted(s) /\ s.stage = <<>> /\ s.conf = r.conf
  BY SlotAborted
<1> HIDE DEF s
<1>2. /\ [s EXCEPT !.slot = path] \in Rams
      /\ [s EXCEPT !.slot = path].slot = path /\ [s EXCEPT !.slot = path].stage = <<>>
      /\ [s EXCEPT !.slot = path].conf = r.conf
  BY <1>1 DEF Accounted, Rams
<1>q. QED
  BY <1>2 DEF OpenSlot, s

LEMMA FileBegun ==
  ASSUME NEW r, Accounted(r), NEW u \in Upload
  PROVE  /\ Accounted(BeginPutFile(r, u))
         /\ BeginPutFile(r, u).slot = u.path /\ BeginPutFile(r, u).stage = <<>>
         /\ BeginPutFile(r, u).file.next = 0 /\ BeginPutFile(r, u).file.path = u.path
         /\ BeginPutFile(r, u).file.total = u.total
<1>1. PICK socket \in BOOLEAN : socket = (u.host = "socket")
  OBVIOUS
<1> DEFINE s == OpenSlot(AbortChunkTransfer(r), u.path)
           file == [path |-> u.path, total |-> u.total, next |-> 0, fromSocket |-> socket]
<1>2. /\ s \in Rams /\ s.slot = u.path /\ s.stage = <<>> /\ s.conf = r.conf
      /\ u.path \in Paths /\ u.total \in Nat /\ u.total > 0
  BY TransferAborted, SlotOpened, UploadFacts
<1>f. file \in Files
  BY <1>2 DEF Files
<1>3. BeginPutFile(r, u) = [s EXCEPT !.file = file]
  BY <1>1, Zenon DEF BeginPutFile
<1>5. file.next = 0 /\ file.path = u.path /\ file.total = u.total
  OBVIOUS
<1> HIDE DEF s, file
<1>4. /\ [s EXCEPT !.file = file] \in Rams
      /\ [s EXCEPT !.file = file].slot = u.path /\ [s EXCEPT !.file = file].stage = <<>>
      /\ [s EXCEPT !.file = file].conf = r.conf /\ [s EXCEPT !.file = file].file = file
  BY <1>2, <1>f DEF Rams
<1>q. QED
  BY <1>2, <1>3, <1>4, <1>5 DEF Accounted

LEMMA ConfigBegun ==
  ASSUME NEW r, Accounted(r), NEW u \in Upload, NEW bytes \in Nat
  PROVE  /\ Accounted(BeginConfigChunk(r, u, bytes))
         /\ BeginConfigChunk(r, u, bytes).slot = Dashboard
         /\ BeginConfigChunk(r, u, bytes).stage = <<>>
         /\ BeginConfigChunk(r, u, bytes).conf.next = 0
         /\ BeginConfigChunk(r, u, bytes).conf.open
<1>1. PICK socket \in BOOLEAN : socket = (u.host = "socket")
  OBVIOUS
<1> DEFINE s == OpenSlot(AbortConfigChunk(r), Dashboard)
           conf == [open |-> TRUE, total |-> u.total, next |-> 0, declared |-> bytes,
                    written |-> 0, fromSocket |-> socket]
<1>2. /\ s \in Rams /\ s.slot = Dashboard /\ s.stage = <<>> /\ u.total \in Nat
  BY ConfigAborted, SlotOpened, UploadFacts DEF Paths
<1>f. conf \in Confs
  BY <1>2 DEF Confs
<1>3. BeginConfigChunk(r, u, bytes) = [s EXCEPT !.conf = conf]
  BY <1>1, Zenon DEF BeginConfigChunk
<1>5. conf.next = 0 /\ conf.open /\ conf.written <= conf.declared
  OBVIOUS
<1> HIDE DEF s, conf
<1>4. /\ [s EXCEPT !.conf = conf] \in Rams
      /\ [s EXCEPT !.conf = conf].slot = Dashboard /\ [s EXCEPT !.conf = conf].stage = <<>>
      /\ [s EXCEPT !.conf = conf].conf = conf
  BY <1>2, <1>f DEF Rams
<1>q. QED
  BY <1>4, <1>3, <1>5 DEF Accounted

\* A chunk is stored behind those that are there.
LEMMA Stored ==
  ASSUME NEW r \in Rams, NEW u \in Upload, NEW i \in Nat
  PROVE  /\ Store(r, u, i) \in Rams
         /\ Store(r, u, i) = [r EXCEPT !.stage = Append(r.stage, Piece(u, i))]
<1>1. Append(r.stage, Piece(u, i)) \in Seq(Chunks)
  BY PieceIsChunk DEF Rams
<1>q. QED
  BY <1>1 DEF Store, Rams

\* The memory after the next chunk of each kind.
FileAfter(r, u, i) == [Store(r, u, i) EXCEPT !.file.next = i + 1]
ConfigAfter(r, u, i) == [Store(r, u, i) EXCEPT !.conf.next = i + 1, !.conf.written = @ + 1]

LEMMA FileCounted ==
  ASSUME NEW f \in Files, NEW n \in Nat
  PROVE  /\ [f EXCEPT !.next = n] \in Files
         /\ [f EXCEPT !.next = n].next = n /\ [f EXCEPT !.next = n].total = f.total
BY DEF Files

LEMMA FileStored ==
  ASSUME NEW r, Accounted(r), NEW u \in Upload, NEW i \in Nat
  PROVE  /\ Accounted(FileAfter(r, u, i)) /\ FileAfter(r, u, i).slot = r.slot
         /\ FileAfter(r, u, i).stage = Append(r.stage, Piece(u, i))
         /\ FileAfter(r, u, i).file.next = i + 1
         /\ Accounted([AbortSlot(FileAfter(r, u, i)) EXCEPT !.file = NoFile])
         /\ [AbortSlot(FileAfter(r, u, i)) EXCEPT !.file = NoFile].slot = NoPath
<1> DEFINE s == FileAfter(r, u, i)
           q == Store(r, u, i)
           file == [q.file EXCEPT !.next = i + 1]
<1>1. /\ q \in Rams /\ q.slot = r.slot /\ q.stage = Append(r.stage, Piece(u, i))
      /\ q.file = r.file /\ q.conf = r.conf
  BY Stored DEF Accounted, Rams
<1>2. s = [q EXCEPT !.file = file]
  BY DEF FileAfter
<1> HIDE DEF q, s
<1>3. /\ file \in Files
      /\ file.next = i + 1 /\ file.total = r.file.total
  <2>1. q.file \in Files /\ q.file.total = r.file.total
    BY <1>1 DEF Rams
  <2>2. i + 1 \in Nat
    OBVIOUS
  <2>q. QED
    BY <2>1, <2>2, FileCounted, Zenon
<1> HIDE DEF file
<1>4. /\ s \in Rams /\ s.slot = r.slot /\ s.stage = Append(r.stage, Piece(u, i))
      /\ s.file = file /\ s.conf = r.conf
  BY <1>1, <1>2, <1>3 DEF Rams
<1>5. Accounted(s)
  BY <1>3, <1>4 DEF Accounted
<1>q. QED
  BY <1>3, <1>4, <1>5, TransferAborted DEF AbortChunkTransfer, s

LEMMA ConfigCounted ==
  ASSUME NEW c \in Confs, NEW n \in Nat
  PROVE  /\ [c EXCEPT !.next = n] \in Confs /\ [c EXCEPT !.written = n] \in Confs
         /\ [c EXCEPT !.next = n].next = n /\ [c EXCEPT !.written = n].written = n
         /\ [c EXCEPT !.next = n].declared = c.declared
         /\ [c EXCEPT !.written = n].declared = c.declared
         /\ [c EXCEPT !.written = n].next = c.next
         /\ c.open => [c EXCEPT !.next = n].open /\ [c EXCEPT !.written = n].open
BY DEF Confs

LEMMA ConfigStored ==
  ASSUME NEW r, Accounted(r), r.conf.open, Fits(r), NEW u \in Upload, NEW i \in Nat
  PROVE  /\ Accounted(ConfigAfter(r, u, i)) /\ ConfigAfter(r, u, i).slot = r.slot
         /\ ConfigAfter(r, u, i).stage = Append(r.stage, Piece(u, i))
         /\ ConfigAfter(r, u, i).conf.next = i + 1 /\ ConfigAfter(r, u, i).conf.open
         /\ Accounted([AbortSlot(ConfigAfter(r, u, i)) EXCEPT !.conf = NoConf])
         /\ [AbortSlot(ConfigAfter(r, u, i)) EXCEPT !.conf = NoConf].slot = NoPath
<1> DEFINE s == ConfigAfter(r, u, i)
           q == Store(r, u, i)
           next == [q.conf EXCEPT !.next = i + 1]
           p == [q EXCEPT !.conf = next]
           conf == [p.conf EXCEPT !.written = q.conf.written + 1]
<1>1. /\ q \in Rams /\ q.slot = r.slot /\ q.stage = Append(r.stage, Piece(u, i))
      /\ q.conf = r.conf
  BY Stored DEF Accounted, Rams
<1>2. s = [p EXCEPT !.conf = conf]
  BY DEF ConfigAfter
<1> HIDE DEF q, s
<1>3. /\ next \in Confs /\ next.next = i + 1
      /\ next.declared = r.conf.declared /\ next.open
  <2>1. q.conf \in Confs /\ q.conf.open /\ q.conf.declared = r.conf.declared
    BY <1>1 DEF Rams
  <2>2. i + 1 \in Nat
    OBVIOUS
  <2>q. QED
    BY <2>1, <2>2, ConfigCounted, Zenon
<1> HIDE DEF next
<1>4. /\ p \in Rams /\ p.slot = r.slot /\ p.stage = Append(r.stage, Piece(u, i))
      /\ p.conf = next
  BY <1>1, <1>3 DEF Rams
<1> HIDE DEF p
<1>5. /\ conf \in Confs /\ conf.next = i + 1
      /\ conf.declared = r.conf.declared /\ conf.open
      /\ conf.written = r.conf.written + 1
  <2>1. q.conf.written + 1 \in Nat /\ q.conf.written + 1 = r.conf.written + 1
    BY <1>1 DEF Accounted, Rams, Confs
  <2>2. p.conf \in Confs /\ p.conf.open /\ p.conf.next = i + 1 /\ p.conf.declared = r.conf.declared
    BY <1>3, <1>4, Zenon
  <2>q. QED
    BY <2>1, <2>2, ConfigCounted, Zenon
<1> HIDE DEF conf
<1>6. /\ s \in Rams /\ s.slot = r.slot /\ s.stage = Append(r.stage, Piece(u, i))
      /\ s.conf = conf
  BY <1>2, <1>4, <1>5 DEF Rams
<1>7. r.conf.written \in Nat /\ r.conf.declared \in Nat
  BY DEF Accounted, Rams, Confs
<1>8. Accounted(s)
  BY <1>5, <1>6, <1>7 DEF Accounted, Fits
<1>9. AbortConfigChunk(s) = [AbortSlot(s) EXCEPT !.conf = NoConf]
  BY <1>5, <1>6 DEF AbortConfigChunk
<1>10. [AbortSlot(s) EXCEPT !.conf = NoConf].slot = NoPath
  BY <1>8, SlotAborted DEF Accounted, Rams
<1>q. QED
  BY <1>5, <1>6, <1>8, <1>9, <1>10, ConfigAborted DEF s
-----------------------------------------------------------------------------
(* What a step leaves of the hosts' uploads and of the files. *)

LEMMA BootAccounted == Accounted(Boot) /\ Boot.slot = NoPath
<1>1. NoFile \in Files /\ NoConf \in Confs /\ NoConf.written <= NoConf.declared
  BY DEF NoFile, NoConf, Files, Confs
<1>2. Boot \in Rams /\ Boot.slot = NoPath /\ Boot.conf = NoConf
  BY <1>1 DEF Boot, Rams
<1>q. QED
  BY <1>1, <1>2 DEF Accounted

LEMMA CarriesOn ==
  ASSUME NEW r, NEW u \in Upload, NEW n \in Nat, Carries(r, u)
  PROVE  Carries(r, [u EXCEPT !.next = n])
<1> DEFINE v == [u EXCEPT !.next = n]
<1>1. v.id = u.id /\ v.path = u.path /\ v.total = u.total /\ v.cmd = u.cmd
  BY DEF Upload
<1> HIDE DEF v
<1>2. \A k : Prefix(v, k) = Prefix(u, k)
  BY <1>1 DEF Prefix, Piece
<1>q. QED
  BY <1>1, <1>2 DEF Carries, v

\* A command of host h, and what mixed says after it.
Speaks(h) ==
  /\ Busy(h) /\ UNCHANGED started
  /\ mixed' = (mixed \/ \E g \in Hosts \ {h} : client[g] # NoUpload)

LEMMA Alone ==
  ASSUME NEW h \in Hosts, Speaks(h), ~mixed'
  PROVE  ~mixed /\ \A g \in Hosts \ {h} : ~Busy(g)
BY DEF Speaks, Busy

LEMMA UploadEnds ==
  ASSUME IInv, NEW h \in Hosts, Speaks(h), client' = [client EXCEPT ![h] = NoUpload]
  PROVE  /\ client' \in [Hosts -> Upload \union {NoUpload}] /\ Aimed' /\ Carried'
         /\ mixed' \in BOOLEAN /\ started' \in 0..MaxUploads
<1>1. client' \in [Hosts -> Upload \union {NoUpload}]
  BY DEF IInv, Typed
<1>2. \A g \in Hosts : client'[g] = client[g] \/ client'[g] = NoUpload
  BY DEF IInv, Typed
<1>3. Aimed'
  BY <1>2 DEF IInv, Aimed, Busy
<1>4. ~mixed' => \A g \in Hosts : ~Busy(g)'
  BY Alone DEF IInv, Typed, Busy
<1>5. mixed' \in BOOLEAN /\ started' \in 0..MaxUploads
  <2>1. started' \in 0..MaxUploads
    BY DEF Speaks, IInv, Typed
  <2>2. mixed' \in BOOLEAN
    BY Zenon DEF Speaks, IInv, Typed
  <2>q. QED
    BY <2>1, <2>2
<1>q. QED
  BY <1>1, <1>3, <1>4, <1>5 DEF Carried

LEMMA RefusedKeeps ==
  ASSUME IInv, NEW h \in Hosts, Speaks(h), Refused(client[h]), Accounted(ram'),
         dropped' \in BOOLEAN
  PROVE  IInv'
<1>1. client' = [client EXCEPT ![h] = NoUpload] /\ reply' = NoUpload /\ disk' = disk
  BY DEF Refused, IInv, Aimed, Speaks
<1>2. Typed' /\ Aimed' /\ Carried'
  BY <1>1, UploadEnds DEF IInv, Typed
<1>3. Committed'
  BY <1>1, Alone DEF IInv, Committed, Kept
<1>q. QED
  BY <1>2, <1>3 DEF IInv

LEMMA DoneKeeps ==
  ASSUME IInv, NEW h \in Hosts, Speaks(h), Done(client[h]), Accounted(ram'),
         dropped' \in BOOLEAN, NEW p \in Paths, NEW d \in Seq(Chunks),
         disk' = [disk EXCEPT ![p] = d],
         ~mixed' => p = client[h].path /\ d = Whole(client[h])
  PROVE  IInv'
<1> DEFINE u == client[h]
<1>1. u \in Upload
  BY DEF IInv, Typed, Speaks, Busy
<1>2. client' = [client EXCEPT ![h] = NoUpload] /\ reply' = u
  BY DEF Done, IInv, Aimed, Speaks
<1>3. disk' \in [Paths -> Seq(Chunks)]
  BY DEF IInv, Typed
<1>4. Typed' /\ Aimed' /\ Carried'
  BY <1>1, <1>2, <1>3, UploadEnds DEF Typed
<1>5. ASSUME ~mixed' PROVE disk'[u.path] = Whole(u) /\ \A q \in Paths : Kept(q)'
  <2>1. p = u.path /\ d = Whole(u) /\ ~mixed
    BY <1>5, Alone
  <2>2. disk'[u.path] = Whole(u) /\ \A q \in Paths \ {p} : disk'[q] = disk[q]
    BY <2>1 DEF IInv, Typed
  <2>q. QED
    BY <1>1, <2>1, <2>2 DEF IInv, Committed, Kept
<1>6. Committed'
  BY <1>2, <1>5 DEF Committed
<1>q. QED
  BY <1>4, <1>6 DEF IInv

LEMMA AcceptedKeeps ==
  ASSUME IInv, NEW h \in Hosts, Speaks(h), NEW i \in 0..client[h].next, Accepted(client[h], i),
         Accounted(ram'), dropped' = dropped, disk' = disk,
         ~mixed' => Carries(ram', client[h])
  PROVE  IInv'
<1> DEFINE u == client[h]
           n == IF i = u.next THEN i + 1 ELSE u.next
           v == [u EXCEPT !.next = n]
<1>1. u \in Upload /\ u.host = h /\ u.next \in Nat /\ n \in Nat
  BY UploadFacts DEF IInv, Typed, Speaks, Busy, Aimed
<1>2. client' = [client EXCEPT ![h] = v] /\ reply' = NoUpload
  BY <1>1 DEF Accepted
<1> HIDE DEF n
<1>3. v \in Upload /\ v.host = u.host /\ v.path = u.path /\ v.cmd = u.cmd /\ v.total = u.total
  BY <1>1 DEF Upload
<1>4. ~mixed' => Carries(ram', v)
  BY <1>1, CarriesOn
<1> HIDE DEF v, u
<1>5. client'[h] = v /\ \A g \in Hosts \ {h} : client'[g] = client[g]
  BY <1>2 DEF IInv, Typed
<1>6. client' \in [Hosts -> Upload \union {NoUpload}]
  BY <1>2, <1>3 DEF IInv, Typed
<1>7. mixed' \in BOOLEAN
  BY Zenon DEF Speaks, IInv, Typed
<1>8. Typed'
  BY <1>2, <1>6, <1>7 DEF IInv, Typed, Speaks
<1>9. Aimed'
  BY <1>3, <1>5 DEF IInv, Aimed, Busy, Speaks, u
<1>10. Carried'
  BY <1>4, <1>5, Alone DEF Carried, Busy
<1>11. Committed'
  BY <1>2, Alone DEF IInv, Committed, Kept
<1>q. QED
  BY <1>8, <1>9, <1>10, <1>11 DEF IInv
-----------------------------------------------------------------------------
(* The handlers. *)

Begun(u, i) == IF i = 0 THEN BeginPutFile(ram, u) ELSE ram

\* The staged file after chunk i of a PUT_FILE that may go on.
LEMMA FileGoesOn ==
  ASSUME IInv, NEW h \in Hosts, Busy(h), client[h].cmd = "file", NEW i \in 0..client[h].next,
         i = 0 \/ ContinuesPutFile(ram, client[h], i)
  PROVE  LET u == client[h] s == FileAfter(Begun(u, i), u, i) IN
         /\ Accounted(s) /\ Accounted([AbortSlot(s) EXCEPT !.file = NoFile])
         /\ s.slot \in Paths /\ s.stage \in Seq(Chunks)
         /\ ~mixed => s.slot = u.path /\ s.stage = Prefix(u, i + 1) /\ Carries(s, u)
<1> DEFINE u == client[h]
           r == Begun(u, i)
           s == FileAfter(r, u, i)
<1>1. u \in Upload /\ u.path \in Paths /\ i \in Nat /\ u.next \in Nat
  BY UploadFacts DEF IInv, Typed, Busy
<1>2. /\ Accounted(r) /\ r.slot # NoPath
      /\ ~mixed => r.slot = u.path /\ r.stage = Prefix(u, i)
  <2>1. CASE i = 0
    <3>1. Accounted(r) /\ r.slot = u.path /\ r.stage = <<>>
      BY <1>1, <2>1, FileBegun DEF Begun, IInv
    <3>2. Prefix(u, 0) = <<>>
      BY DEF Prefix
    <3>q. QED
      BY <1>1, <2>1, <3>1, <3>2, CommandPaths
  <2>2. CASE i # 0
    <3>1. r = ram /\ ContinuesPutFile(ram, u, i)
      BY <2>2 DEF Begun
    <3>2. ~mixed => Carries(ram, u)
      BY <1>1, <2>2 DEF IInv, Carried
    <3>q. QED
      BY <3>1, <3>2 DEF Carries, ContinuesPutFile, IInv
  <2>q. QED
    BY <2>1, <2>2
<1> HIDE DEF r
<1>3. /\ Accounted(s) /\ s.slot = r.slot /\ s.stage = Append(r.stage, Piece(u, i))
      /\ s.file.next = i + 1 /\ Accounted([AbortSlot(s) EXCEPT !.file = NoFile])
  BY <1>1, <1>2, FileStored
<1> HIDE DEF s, u
<1>4. s.slot \in Paths /\ s.stage \in Seq(Chunks)
  BY <1>2, <1>3 DEF Accounted, Rams
<1>5. ASSUME ~mixed PROVE s.slot = u.path /\ s.stage = Prefix(u, i + 1) /\ Carries(s, u)
  <2>1. s.slot = u.path /\ s.stage = Prefix(u, i + 1)
    BY <1>1, <1>2, <1>3, <1>5, PrefixGrows
  <2>2. u.cmd = "file"
    BY DEF u
  <2>q. QED
    BY <1>3, <2>1, <2>2 DEF Carries
<1>q. QED
  BY <1>3, <1>4, <1>5 DEF s, r, u

LEMMA PutFileKeeps ==
  ASSUME IInv, NEW h \in Hosts, Speaks(h), client[h].cmd = "file", NEW i \in 0..client[h].next,
         i < client[h].total, PutFile(client[h], i)
  PROVE  IInv'
<1> DEFINE u == client[h]
           s == FileAfter(Begun(u, i), u, i)
           closed == [AbortSlot(s) EXCEPT !.file = NoFile]
           continues == i = 0 \/ ContinuesPutFile(ram, u, i)
<1>1. \/ ram' = AbortChunkTransfer(ram) /\ Refused(u) /\ UNCHANGED dropped
      \/ continues /\ ram' = s /\ Accepted(u, i) /\ UNCHANGED <<disk, dropped>>
      \/ continues /\ ram' = closed /\ Refused(u) /\ UNCHANGED dropped
      \/ /\ continues /\ i = u.total - 1 /\ Commits(s) /\ Done(u)
         /\ (ram' = Boot /\ dropped' = FALSE) \/ (ram' = closed /\ UNCHANGED dropped)
  BY ZenonT(60) DEF PutFile, FileAfter, Begun
<1>2. Busy(h) /\ dropped \in BOOLEAN /\ Accounted(ram) /\ u \in Upload
  BY DEF Speaks, Busy, IInv, Typed
<1>3. continues => /\ Accounted(s) /\ Accounted(closed) /\ s.slot \in Paths /\ s.stage \in Seq(Chunks)
                   /\ ~mixed => s.slot = u.path /\ s.stage = Prefix(u, i + 1) /\ Carries(s, u)
  BY <1>2, FileGoesOn
<1>4. ~mixed' => ~mixed
  BY Alone
<1> HIDE DEF s, closed, continues
<1>5. CASE ram' = AbortChunkTransfer(ram) /\ Refused(u) /\ UNCHANGED dropped
  BY <1>2, <1>5, TransferAborted, RefusedKeeps
<1>6. CASE continues /\ ram' = s /\ Accepted(u, i) /\ UNCHANGED <<disk, dropped>>
  BY <1>3, <1>4, <1>6, AcceptedKeeps
<1>7. CASE continues /\ ram' = closed /\ Refused(u) /\ UNCHANGED dropped
  BY <1>2, <1>3, <1>7, RefusedKeeps
<1>8. CASE /\ continues /\ i = u.total - 1 /\ Commits(s) /\ Done(u)
           /\ (ram' = Boot /\ dropped' = FALSE) \/ (ram' = closed /\ UNCHANGED dropped)
  <2>1. Accounted(ram') /\ dropped' \in BOOLEAN
    BY <1>2, <1>3, <1>8, BootAccounted
  <2>2. disk' = [disk EXCEPT ![s.slot] = s.stage]
    BY <1>8 DEF Commits
  <2>3. i + 1 = u.total
    BY <1>2, <1>8, UploadFacts
  <2>4. ~mixed' => s.slot = u.path /\ s.stage = Whole(u)
    BY <1>3, <1>4, <1>8, <2>3, WholeIsPrefix
  <2>q. QED
    BY <1>3, <1>8, <2>1, <2>2, <2>4, DoneKeeps
<1>q. QED
  BY <1>1, <1>5, <1>6, <1>7, <1>8

ConfigBegunAt(u, i, bytes) == IF i = 0 THEN BeginConfigChunk(ram, u, bytes) ELSE ram
Taken(u, i, bytes) ==
  /\ i = 0 \/ ContinuesConfigChunk(ram, u, i)
  /\ Fits(ConfigBegunAt(u, i, bytes)) /\ ConfigBegunAt(u, i, bytes).slot # NoPath

\* The same for chunk i of a PUT_CONFIG_CHUNK.
LEMMA ConfigGoesOn ==
  ASSUME IInv, NEW h \in Hosts, Busy(h), client[h].cmd = "chunk", NEW i \in 0..client[h].next,
         NEW bytes \in Nat, Taken(client[h], i, bytes)
  PROVE  LET u == client[h] s == ConfigAfter(ConfigBegunAt(u, i, bytes), u, i) IN
         /\ Accounted(s) /\ Accounted([AbortSlot(s) EXCEPT !.conf = NoConf])
         /\ s.slot \in Paths /\ s.stage \in Seq(Chunks)
         /\ ~mixed => s.slot = Dashboard /\ s.stage = Prefix(u, i + 1) /\ Carries(s, u)
<1> DEFINE u == client[h]
           r == ConfigBegunAt(u, i, bytes)
           s == ConfigAfter(r, u, i)
<1>1. u \in Upload /\ i \in Nat /\ u.next \in Nat
  BY UploadFacts DEF IInv, Typed, Busy
<1>2. /\ Accounted(r) /\ r.slot # NoPath /\ r.conf.open /\ Fits(r)
      /\ ~mixed => r.slot = Dashboard /\ r.stage = Prefix(u, i)
  <2>1. CASE i = 0
    <3>1. Accounted(r) /\ r.slot = Dashboard /\ r.stage = <<>> /\ r.conf.open
      BY <1>1, <2>1, ConfigBegun DEF ConfigBegunAt, IInv
    <3>2. Prefix(u, 0) = <<>>
      BY DEF Prefix
    <3>q. QED
      BY <2>1, <3>1, <3>2 DEF Taken
  <2>2. CASE i # 0
    <3>1. r = ram /\ ContinuesConfigChunk(ram, u, i) /\ Fits(r) /\ r.slot # NoPath
      BY <2>2 DEF ConfigBegunAt, Taken
    <3>2. ~mixed => Carries(ram, u)
      BY <1>1, <2>2 DEF IInv, Carried
    <3>q. QED
      BY <3>1, <3>2 DEF Carries, ContinuesConfigChunk, IInv
  <2>q. QED
    BY <2>1, <2>2
<1> HIDE DEF r
<1>3. /\ Accounted(s) /\ s.slot = r.slot /\ s.stage = Append(r.stage, Piece(u, i))
      /\ s.conf.next = i + 1 /\ Accounted([AbortSlot(s) EXCEPT !.conf = NoConf])
  BY <1>1, <1>2, ConfigStored
<1> HIDE DEF s, u
<1>4. s.slot \in Paths /\ s.stage \in Seq(Chunks)
  BY <1>2, <1>3 DEF Accounted, Rams
<1>5. ASSUME ~mixed PROVE s.slot = Dashboard /\ s.stage = Prefix(u, i + 1) /\ Carries(s, u)
  <2>1. s.slot = Dashboard /\ s.stage = Prefix(u, i + 1)
    BY <1>1, <1>2, <1>3, <1>5, PrefixGrows
  <2>2. u.cmd = "chunk"
    BY DEF u
  <2>q. QED
    BY <1>3, <2>1, <2>2 DEF Carries
<1>q. QED
  BY <1>3, <1>4, <1>5 DEF s, r, u

LEMMA PutConfigChunkKeeps ==
  ASSUME IInv, NEW h \in Hosts, Speaks(h), client[h].cmd = "chunk", NEW i \in 0..client[h].next,
         i < client[h].total, NEW bytes \in Nat, PutConfigChunk(client[h], i, bytes)
  PROVE  IInv'
<1> DEFINE u == client[h]
           begun == ConfigBegunAt(u, i, bytes)
           s == ConfigAfter(begun, u, i)
           closed == [AbortSlot(s) EXCEPT !.conf = NoConf]
           taken == Taken(u, i, bytes)
<1>1. /\ UNCHANGED dropped
      /\ \/ ram' \in {AbortConfigChunk(ram), AbortSlot(AbortConfigChunk(ram))} /\ Refused(u)
         \/ ram' = AbortConfigChunk(begun) /\ Refused(u)
         \/ taken /\ ram' = s /\ Accepted(u, i) /\ UNCHANGED disk
         \/ taken /\ ram' = closed /\ Refused(u)
         \/ taken /\ i = u.total - 1 /\ ram' = closed /\ Commits(s) /\ Done(u)
  BY ZenonT(60) DEF PutConfigChunk, ConfigAfter, ConfigBegunAt, Taken
<1>2. /\ Busy(h) /\ dropped \in BOOLEAN /\ Accounted(ram)
      /\ u \in Upload /\ u.path = Dashboard
  BY CommandPaths DEF Speaks, Busy, IInv, Typed, Aimed
<1>3. taken => /\ Accounted(s) /\ Accounted(closed) /\ s.slot \in Paths /\ s.stage \in Seq(Chunks)
               /\ ~mixed => s.slot = Dashboard /\ s.stage = Prefix(u, i + 1) /\ Carries(s, u)
  BY <1>2, ConfigGoesOn
<1>4. ~mixed' => ~mixed
  BY Alone
<1>5. Accounted(begun)
  BY <1>2, ConfigBegun DEF ConfigBegunAt
<1> HIDE DEF s, closed, taken, begun
<1>6. CASE \/ ram' \in {AbortConfigChunk(ram), AbortSlot(AbortConfigChunk(ram))} /\ Refused(u)
           \/ ram' = AbortConfigChunk(begun) /\ Refused(u)
  <2>1. Accounted(ram')
    BY <1>2, <1>5, <1>6, ConfigAborted, SlotAborted
  <2>q. QED
    BY <1>1, <1>2, <1>6, <2>1, RefusedKeeps
<1>7. CASE taken /\ ram' = s /\ Accepted(u, i) /\ UNCHANGED disk
  BY <1>1, <1>3, <1>4, <1>7, AcceptedKeeps
<1>8. CASE taken /\ ram' = closed /\ Refused(u)
  BY <1>1, <1>2, <1>3, <1>8, RefusedKeeps
<1>9. CASE taken /\ i = u.total - 1 /\ ram' = closed /\ Commits(s) /\ Done(u)
  <2>1. disk' = [disk EXCEPT ![s.slot] = s.stage]
    BY <1>9 DEF Commits
  <2>2. i + 1 = u.total
    BY <1>2, <1>9, UploadFacts
  <2>3. ~mixed' => s.slot = u.path /\ s.stage = Whole(u)
    BY <1>2, <1>3, <1>4, <1>9, <2>2, WholeIsPrefix
  <2>q. QED
    BY <1>1, <1>2, <1>3, <1>9, <2>1, <2>3, DoneKeeps
<1>q. QED
  BY <1>1, <1>6, <1>7, <1>8, <1>9

LEMMA WholeIsChunks ==
  ASSUME NEW u \in Upload
  PROVE  Whole(u) \in Seq(Chunks)
BY UploadFacts, WholeIsPrefix, PrefixGrows

LEMMA PutConfigKeeps ==
  ASSUME IInv, NEW h \in Hosts, Speaks(h), client[h].cmd = "line", PutConfig(client[h])
  PROVE  IInv'
<1> DEFINE u == client[h]
           clobbered == [ram EXCEPT !.gone = @ \/ ram.slot = Dashboard]
<1>1. /\ dropped' \in BOOLEAN /\ Accounted(ram) /\ u \in Upload /\ u.path = Dashboard
      /\ Dashboard \in Paths
  BY CommandPaths DEF PutConfig, Speaks, Busy, IInv, Typed, Aimed, Paths
<1>2. Accounted(clobbered)
  <2>1. PICK gone \in BOOLEAN : gone = (ram.gone \/ ram.slot = Dashboard)
    OBVIOUS
  <2>2. clobbered = [ram EXCEPT !.gone = gone]
    BY <2>1, Zenon
  <2>3. /\ [ram EXCEPT !.gone = gone] \in Rams
        /\ [ram EXCEPT !.gone = gone].slot = ram.slot /\ [ram EXCEPT !.gone = gone].file = ram.file
        /\ [ram EXCEPT !.gone = gone].conf = ram.conf
    BY <1>1 DEF Accounted, Rams
  <2> HIDE DEF clobbered
  <2>q. QED
    BY <1>1, <2>2, <2>3 DEF Accounted
<1>3. \/ ram' \in {ram, clobbered} /\ Refused(u)
      \/ ram' = clobbered /\ disk' = [disk EXCEPT ![Dashboard] = Whole(u)] /\ Done(u)
  BY Zenon DEF PutConfig
<1> HIDE DEF clobbered
<1>4. Accounted(ram')
  BY <1>1, <1>2, <1>3
<1>q. QED
  BY <1>1, <1>3, <1>4, WholeIsChunks, RefusedKeeps, DoneKeeps

LEMMA PutTypedKeeps ==
  ASSUME IInv, NEW h \in Hosts, Speaks(h), PutTyped(client[h])
  PROVE  IInv'
<1> DEFINE u == client[h]
<1>1. dropped' \in BOOLEAN /\ Accounted(ram) /\ u \in Upload /\ u.path \in Paths
  BY UploadFacts DEF PutTyped, Speaks, Busy, IInv, Typed
<1>2. Accounted(ram')
  BY <1>1, SlotAborted, BootAccounted DEF PutTyped
<1>q. QED
  BY <1>1, <1>2, WholeIsChunks, RefusedKeeps, DoneKeeps DEF PutTyped

LEMMA SendKeeps ==
  ASSUME IInv, NEW h \in Hosts, Send(h)
  PROVE  IInv'
<1> DEFINE u == client[h]
<1>1. Speaks(h)
  BY DEF Send, Speaks, Busy
<1>2. u \in Upload /\ u.total \in Nat
  BY <1>1, UploadFacts DEF IInv, Typed, Speaks, Busy
<1>3. PICK i \in 0..u.next :
        \/ u.cmd = "file" /\ i < u.total /\ PutFile(u, i)
        \/ u.cmd = "chunk" /\ i < u.total /\ \E bytes \in Announced(u, i) : PutConfigChunk(u, i, bytes)
        \/ u.cmd = "line" /\ PutConfig(u)
        \/ u.cmd = "typed" /\ PutTyped(u)
  BY DEF Send
<1>4. CASE u.cmd = "file" /\ i < u.total /\ PutFile(u, i)
  BY <1>1, <1>4, PutFileKeeps
<1>5. CASE u.cmd = "chunk" /\ i < u.total /\ \E bytes \in Announced(u, i) : PutConfigChunk(u, i, bytes)
  <2>1. PICK bytes \in Announced(u, i) : PutConfigChunk(u, i, bytes)
    BY <1>5
  <2>2. bytes \in Nat
    BY <1>2 DEF Announced
  <2>q. QED
    BY <1>1, <1>5, <2>1, <2>2, PutConfigChunkKeeps
<1>6. CASE u.cmd = "line" /\ PutConfig(u)
  BY <1>1, <1>6, PutConfigKeeps
<1>7. CASE u.cmd = "typed" /\ PutTyped(u)
  BY <1>1, <1>7, PutTypedKeeps
<1>q. QED
  BY <1>3, <1>4, <1>5, <1>6, <1>7
-----------------------------------------------------------------------------
(* The other steps only begin or end an upload of a host, and close the staged *)
(* file or leave it alone.                                                 *)

LEMMA QuietKeeps ==
  ASSUME IInv, UNCHANGED <<disk, mixed>>, reply' = NoUpload, dropped' \in BOOLEAN,
         started' \in 0..MaxUploads,
         Accounted(ram'), ram' = ram \/ ram'.slot = NoPath,
         client' \in [Hosts -> Upload \union {NoUpload}],
         \A h \in Hosts : \/ client'[h] = client[h] \/ client'[h] = NoUpload
                         \/ /\ client'[h] \in Upload /\ client'[h].next = 0
                            /\ client'[h].host = h
                            /\ client'[h].path \in Targets[client'[h].cmd]
                            /\ client'[h].cmd \in Single => client'[h].total = 1
  PROVE  IInv'
<1>1. Typed'
  BY DEF IInv, Typed
<1>2. Aimed'
  BY DEF IInv, Aimed, Busy
<1>3. Carried'
  <2> SUFFICES ASSUME ~mixed', NEW h \in Hosts, Busy(h)', client'[h].next > 0
               PROVE  Carries(ram', client'[h])
    BY DEF Carried
  <2>1. client'[h] = client[h]
    BY DEF Busy
  <2>2. Carries(ram, client[h])
    BY <2>1 DEF IInv, Carried, Busy
  <2>3. CASE ram' = ram
    BY <2>1, <2>2, <2>3
  <2>4. CASE ram'.slot = NoPath
    BY <2>4 DEF Carries
  <2>q. QED
    BY <2>3, <2>4
<1>4. Committed'
  BY DEF IInv, Committed, Kept
<1>q. QED
  BY <1>1, <1>2, <1>3, <1>4 DEF IInv

LEMMA StartKeeps ==
  ASSUME IInv, NEW h \in Hosts, Start(h)
  PROVE  IInv'
<1>1. PICK cmd \in DOMAIN Targets, total \in Totals \union {1} : \E path \in Targets[cmd] :
        /\ cmd \in Single => total = 1
        /\ client' = [client EXCEPT ![h] = [id |-> started + 1, host |-> h, cmd |-> cmd,
                                            path |-> path, total |-> total, next |-> 0]]
  BY DEF Start
<1>2. PICK path \in Targets[cmd] :
        /\ cmd \in Single => total = 1
        /\ client' = [client EXCEPT ![h] = [id |-> started + 1, host |-> h, cmd |-> cmd,
                                            path |-> path, total |-> total, next |-> 0]]
  BY <1>1
<1> DEFINE u == [id |-> started + 1, host |-> h, cmd |-> cmd, path |-> path, total |-> total,
                 next |-> 0]
<1>3. started + 1 \in 1..MaxUploads /\ started' \in 0..MaxUploads
  BY MaxUploadsAssumption DEF Start, IInv, Typed
<1>4. /\ u \in Upload /\ u.next = 0 /\ u.host = h /\ u.path \in Targets[u.cmd]
      /\ u.cmd \in Single => u.total = 1
  BY <1>2, <1>3, CommandPaths DEF Upload
<1>5. client' = [client EXCEPT ![h] = u]
  BY <1>2
<1> HIDE DEF u
<1>6. /\ client' \in [Hosts -> Upload \union {NoUpload}]
      /\ client'[h] = u /\ \A g \in Hosts \ {h} : client'[g] = client[g]
  BY <1>4, <1>5 DEF IInv, Typed
<1>7. /\ UNCHANGED <<ram, disk, dropped, mixed>> /\ reply' = NoUpload
  BY DEF Start
<1>q. QED
  BY <1>3, <1>4, <1>6, <1>7, QuietKeeps DEF IInv, Typed

LEMMA GiveUpKeeps ==
  ASSUME IInv, NEW h \in Hosts, GiveUp(h) \/ (h = "socket" /\ SocketDrop)
  PROVE  IInv'
<1>1. /\ client' = [client EXCEPT ![h] = NoUpload]
      /\ UNCHANGED <<ram, disk, started, mixed>> /\ reply' = NoUpload
      /\ dropped' = dropped \/ dropped' = TRUE
  BY DEF GiveUp, SocketDrop
<1>2. /\ client' \in [Hosts -> Upload \union {NoUpload}]
      /\ \A g \in Hosts : client'[g] = client[g] \/ client'[g] = NoUpload
  BY <1>1 DEF IInv, Typed
<1>3. dropped' \in BOOLEAN
  BY <1>1, Zenon DEF IInv, Typed
<1>q. QED
  BY <1>1, <1>2, <1>3, QuietKeeps DEF IInv, Typed

LEMMA DashKeeps ==
  ASSUME IInv, Garbled \/ TakeSocketDrop \/ IdleTimeout \/ Restart
  PROVE  IInv'
<1>1. Accounted(ram)
  BY DEF IInv
<1>2. UNCHANGED <<disk, client, started, mixed>> /\ reply' = NoUpload
  BY DEF Garbled, TakeSocketDrop, IdleTimeout, Restart
<1>3. Accounted(ram') /\ (ram' = ram \/ ram'.slot = NoPath)
  <2>1. CASE Garbled
    BY <1>1, <2>1, TransferAborted, ConfigAborted DEF Garbled
  <2>2. CASE TakeSocketDrop
    <3>1. PICK kept \in {ram, AbortChunkTransfer(ram)} : ram' \in {kept, AbortConfigChunk(kept)}
      BY <2>2, Zenon DEF TakeSocketDrop
    <3>2. Accounted(kept) /\ (kept = ram \/ kept.slot = NoPath)
      BY <1>1, <3>1, TransferAborted
    <3>q. QED
      BY <3>1, <3>2, ConfigAborted
  <2>3. CASE IdleTimeout
    BY <1>1, <2>3, TransferAborted, ConfigAborted DEF IdleTimeout
  <2>4. CASE Restart
    BY <2>4, BootAccounted DEF Restart
  <2>q. QED
    BY <2>1, <2>2, <2>3, <2>4
<1>4. dropped' \in BOOLEAN
  BY DEF Garbled, TakeSocketDrop, IdleTimeout, Restart, IInv, Typed
<1>q. QED
  BY <1>2, <1>3, <1>4, QuietKeeps DEF IInv, Typed
-----------------------------------------------------------------------------
LEMMA InitInv == Init => IInv
<1> SUFFICES ASSUME Init PROVE IInv
  OBVIOUS
<1>1. Accounted(ram)
  BY BootAccounted DEF Init
<1>2. Typed
  <2>1. <<>> \in Seq(Chunks) /\ 0 \in 0..MaxUploads
    BY MaxUploadsAssumption
  <2>q. QED
    BY <2>1 DEF Init, Typed
<1>3. Aimed /\ Carried
  BY DEF Init, Aimed, Carried, Busy
<1>4. Committed
  BY DEF Init, Committed, Kept
<1>q. QED
  BY <1>1, <1>2, <1>3, <1>4 DEF IInv

LEMMA Step == IInv /\ [Next]_vars => IInv'
<1> SUFFICES ASSUME IInv, [Next]_vars PROVE IInv'
  OBVIOUS
<1>1. ASSUME NEW h \in Hosts, Start(h) \/ Send(h) \/ GiveUp(h) PROVE IInv'
  BY <1>1, StartKeeps, SendKeeps, GiveUpKeeps
<1>2. CASE SocketDrop
  BY <1>2, GiveUpKeeps DEF Hosts
<1>3. CASE Garbled \/ TakeSocketDrop \/ IdleTimeout \/ Restart
  BY <1>3, DashKeeps
<1>4. CASE UNCHANGED vars
  BY <1>4 DEF vars, IInv, Accounted, Typed, Aimed, Carried, Committed, Kept, Busy
<1>q. QED
  BY <1>1, <1>2, <1>3, <1>4 DEF Next

LEMMA Invariance == Spec => []IInv
BY InitInv, Step, PTL DEF Spec

LEMMA InvImplies == IInv => TypeOK /\ SlotIsOwned /\ DiskIsWhole /\ OkMeansCommitted
<1> SUFFICES ASSUME IInv PROVE TypeOK /\ SlotIsOwned /\ DiskIsWhole /\ OkMeansCommitted
  OBVIOUS
<1>1. TypeOK
  BY DEF IInv, Typed, Accounted, Rams, Chunks, TypeOK
<1>2. SlotIsOwned
  BY DEF IInv, Accounted, SlotIsOwned
<1>3. DiskIsWhole
  <2> SUFFICES ASSUME ~mixed, NEW p \in Paths, disk[p] # <<>>
               PROVE  /\ Len(disk[p]) = disk[p][1].of
                      /\ \A k \in DOMAIN disk[p] :
                           disk[p][k] = [disk[p][1] EXCEPT !.path = p, !.idx = k - 1]
    BY DEF DiskIsWhole
  <2>1. PICK u \in Upload : u.path = p /\ disk[p] = Whole(u)
    BY DEF IInv, Committed, Kept
  <2>2. u.total \in Nat /\ u.total > 0
    BY UploadFacts
  <2>3. /\ Len(Whole(u)) = u.total /\ DOMAIN Whole(u) = 1..u.total
        /\ \A k \in 1..u.total : Whole(u)[k] = Piece(u, k - 1)
    BY <2>2 DEF Whole
  <2>4. ASSUME NEW k \in Nat PROVE Piece(u, k) = [Piece(u, 0) EXCEPT !.path = p, !.idx = k]
    <3> DEFINE q == Piece(u, 0)
    <3>1. q = [id |-> u.id, path |-> u.path, of |-> u.total, idx |-> 0]
      BY DEF Piece
    <3>2. [q EXCEPT !.path = p] = q
      BY <2>1, <3>1
    <3>3. [q EXCEPT !.idx = k] = Piece(u, k)
      BY <3>1 DEF Piece
    <3> HIDE DEF q
    <3>4. [q EXCEPT !.path = p, !.idx = k] = Piece(u, k)
      BY <3>2, <3>3
    <3>q. QED
      BY <3>4 DEF q
  <2>5. Piece(u, 0).of = u.total /\ disk[p][1] = Piece(u, 0)
    BY <2>1, <2>2, <2>3 DEF Piece
  <2>6. ASSUME NEW k \in DOMAIN disk[p]
        PROVE  disk[p][k] = [disk[p][1] EXCEPT !.path = p, !.idx = k - 1]
    <3>1. k - 1 \in Nat /\ disk[p][k] = Piece(u, k - 1)
      BY <2>1, <2>2, <2>3
    <3>q. QED
      BY <2>4, <2>5, <3>1, Zenon
  <2>q. QED
    BY <2>1, <2>3, <2>5, <2>6
<1>4. OkMeansCommitted
  BY DEF IInv, Committed, OkMeansCommitted
<1>q. QED
  BY <1>1, <1>2, <1>3, <1>4

\* Types, for every number of uploads and chunks, and the bound a config announced.
THEOREM TypeCorrect == Spec => []TypeOK
BY Invariance, InvImplies, PTL

\* An open staged file has a transfer whose clock will close it, whatever two hosts send.
THEOREM SlotOwned == Spec => []SlotIsOwned
BY Invariance, InvImplies, PTL

\* One host at a time, a committed file is all of one upload, in order, however long it is.
THEOREM DiskWhole == Spec => []DiskIsWhole
BY Invariance, InvImplies, PTL

\* One host at a time, what was answered ok is on flash.
THEOREM OkCommitted == Spec => []OkMeansCommitted
BY Invariance, InvImplies, PTL
=============================================================================
