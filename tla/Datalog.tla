------------------------------ MODULE Datalog -------------------------------
(***************************************************************************)
(* The data logger: a sampler that pushes records into a ring without ever *)
(* waiting, and a writer that opens and closes session files on the card   *)
(* and empties the ring into them.                                         *)
(*                                                                         *)
(* The two tasks share the ring, whose counters wrap, and the recording    *)
(* flag; nothing else orders them, so a sampling pass may outlive the      *)
(* session it began in.  A push and a take are two steps each: the bytes   *)
(* are copied, then the counter is published.                              *)
(***************************************************************************)
EXTENDS Integers, Sequences, FiniteSets

CONSTANTS
  Cap,         (* kDatalogRingBytes                                        *)
  Wrap,        (* 2^32, the width of the ring's counters                   *)
  Staging,     (* kDatalogStagingBytes                                     *)
  MaxLen,      (* longest record                                           *)
  MaxRecords,  (* bound: records in a behaviour                            *)
  MaxSessions  (* bound: sessions in a behaviour                           *)

ASSUME RingAssumption ==
  /\ Cap \in Nat \ {0} /\ Wrap \in Nat /\ Wrap % Cap = 0 /\ Wrap > Cap
  /\ Staging \in Nat \ {0} /\ MaxLen \in 1..Cap

ASSUME BoundsAssumption == MaxRecords \in Nat /\ MaxSessions \in Nat

VARIABLES
  cells,     (* Ring.storage                                               *)
  head,      (* Ring.head                                                  *)
  tail,      (* Ring.tail                                                  *)
  dropped,   (* Ring.dropped                                               *)
  recording, (* s_recording                                                *)
  era,       (* s_startMs: the session the clock started with              *)
  spc,       (* where the sampler is                                       *)
  rec,       (* the record it is pushing                                   *)
  count,     (* records so far                                             *)
  session,   (* Session.state                                              *)
  wpc,       (* where the writer is                                        *)
  job,       (* what it takes bytes for                                    *)
  staging,   (* s_staging: the bytes it took last                          *)
  atOpen,    (* s_droppedAtOpen                                            *)
  fd,        (* the session file is open                                   *)
  file,      (* what the session has written to it                         *)
  ended,     (* the count in its END record, or NotEnded                   *)
  card,      (* the card is mounted                                        *)
  bus,       (* what the bus is heard doing                                *)
  workshop,  (* workshop mode is being entered or active                   *)
  sampled,   (* history: records of this session, pushed or dropped        *)
  late       (* history: a pass outlived its session, or a record came
                after recording was over                                   *)

ring == <<cells, head, tail, dropped>>
sampler == <<spc, rec, count>>
writer == <<session, wpc, job, staging, atOpen>>
files == <<fd, file, ended>>
inputs == <<card, bus, workshop>>
history == <<sampled, late>>
vars == <<ring, recording, era, sampler, writer, files, inputs, history>>

NotEnded == -1
NoRecord == [id |-> 0, era |-> 0, len |-> 0, lap |-> FALSE]

Init ==
  /\ cells = [i \in 0..Cap - 1 |-> <<NoRecord, 0>>] /\ head = 0 /\ tail = 0 /\ dropped = 0
  /\ recording = FALSE /\ era = 0
  /\ spc = "idle" /\ rec = NoRecord /\ count = 0
  /\ session = "idle" /\ wpc = "tick" /\ job = "flush" /\ staging = <<>> /\ atOpen = 0
  /\ fd = FALSE /\ file = <<>> /\ ended = NotEnded
  /\ card = FALSE /\ bus = "silent" /\ workshop = FALSE
  /\ sampled = 0 /\ late = FALSE

-----------------------------------------------------------------------------
(* The ring. *)

Used == (head - tail) % Wrap

\* The bytes of record r, and the n bytes of the ring from position p on.
Bytes(r) == [k \in 1..r.len |-> <<r, k>>]
Stored(p, n) == [k \in 1..n |-> cells[(p + k - 1) % Cap]]

\* One byte more than there is room for.
MutFits(len) == len <= Cap - Used + 1

Fits(len) == len <= Cap - Used

\* copy_in: from the head on, around the end of the storage.
CopyIn(r) ==
  [i \in DOMAIN cells |-> LET k == ((i - head) % Cap) + 1 IN IF k <= r.len THEN <<r, k>> ELSE cells[i]]

Least(a, b) == IF a < b THEN a ELSE b

-----------------------------------------------------------------------------
(* The sampler. *)

NewRecord(e, lap) == \E len \in 1..MaxLen :
  /\ count < MaxRecords /\ count' = count + 1
  /\ rec' = [id |-> count + 1, era |-> e, len |-> len, lap |-> lap]

\* sampleOnce: the flag is looked at once for a pass.
BeginPass ==
  /\ spc = "idle" /\ recording /\ spc' = "push"
  /\ NewRecord(era, FALSE)
  /\ UNCHANGED <<ring, recording, era, writer, files, inputs, history>>

\* The record is pushed or dropped.
Sampled ==
  /\ spc' = IF rec.lap THEN "idle" ELSE "lap"
  /\ sampled' = IF rec.era = era THEN sampled + 1 ELSE sampled
  /\ late' = (late \/ rec.era # era \/ ~recording)
  /\ rec' = IF rec.lap THEN NoRecord ELSE rec
  /\ UNCHANGED <<recording, era, count, writer, files, inputs>>

\* Ring::push, when the record fits: the bytes ...
PushBytes ==
  /\ spc = "push" /\ Fits(rec.len)
  /\ cells' = CopyIn(rec) /\ spc' = "publish"
  /\ UNCHANGED <<head, tail, dropped, recording, era, rec, count, writer, files, inputs, history>>

\* ... and the head.
PublishHead ==
  /\ spc = "publish"
  /\ head' = (head + rec.len) % Wrap
  /\ Sampled
  /\ UNCHANGED <<cells, tail, dropped>>

\* Ring::push, when it does not.
DropRecord ==
  /\ spc = "push" /\ ~Fits(rec.len)
  /\ dropped' = dropped + 1
  /\ Sampled
  /\ UNCHANGED <<cells, head, tail>>

\* pushLap, when the timer has a new lap.
PushLap ==
  /\ spc = "lap" /\ spc' = "push"
  /\ NewRecord(rec.era, TRUE)
  /\ UNCHANGED <<ring, recording, era, writer, files, inputs, history>>

EndPass ==
  /\ spc = "lap" /\ spc' = "idle" /\ rec' = NoRecord
  /\ UNCHANGED <<ring, recording, era, count, writer, files, inputs, history>>

-----------------------------------------------------------------------------
(* The writer takes bytes: discardRing, drain, pop_into. *)

Taking(next) ==
  /\ staging' = Stored(tail, Least(Used, Staging))
  /\ wpc' = next
  /\ UNCHANGED <<ring, recording, era, sampler, session, job, atOpen, files, inputs, history>>

TakeBytes == wpc = "take" /\ Used > 0 /\ Taking("free")

\* Nothing is left.
TakeNothing ==
  /\ wpc = "take" /\ Used = 0
  /\ Taking(CASE job = "discard" -> "create" [] job = "close" -> "finish" [] job = "flush" -> "tick")

PublishTail ==
  /\ wpc = "free"
  /\ tail' = (tail + Len(staging)) % Wrap
  /\ wpc' = IF job = "discard" THEN "take" ELSE "append"
  /\ UNCHANGED <<cells, head, dropped, recording, era, sampler, session, job, staging, atOpen, files,
                 inputs, history>>

AppendBytes ==
  /\ wpc = "append" /\ wpc' = "take"
  /\ file' = file \o staging
  /\ UNCHANGED <<ring, recording, era, sampler, session, job, staging, atOpen, fd, ended, inputs, history>>

-----------------------------------------------------------------------------
(* Sessions: one turn of writerTask. *)

\* Entering workshop mode does not matter.
MutWantsClose == ~card \/ bus = "asleep"

\* wants_close
WantsClose == workshop \/ ~card \/ bus = "asleep"

\* wants_open
WantsOpen == card /\ bus = "live" /\ ~workshop

\* tickMount
Mount ==
  /\ wpc = "tick" /\ ~card /\ card' = TRUE
  /\ UNCHANGED <<ring, recording, era, sampler, writer, files, bus, workshop, history>>

\* What the ring holds is kept.
MutOpenSession ==
  /\ wpc = "tick" /\ session = "idle" /\ WantsOpen /\ era < MaxSessions
  /\ session' = "open" /\ atOpen' = dropped /\ late' = FALSE
  /\ job' = "discard" /\ wpc' = "create" /\ file' = <<>> /\ ended' = NotEnded
  /\ UNCHANGED <<ring, recording, era, sampler, staging, fd, inputs, sampled>>

\* openSession, up to the discarded ring.
OpenSession ==
  /\ wpc = "tick" /\ session = "idle" /\ WantsOpen /\ era < MaxSessions
  /\ session' = "open" /\ atOpen' = dropped /\ late' = FALSE
  /\ job' = "discard" /\ wpc' = "take" /\ file' = <<>> /\ ended' = NotEnded
  /\ UNCHANGED <<ring, recording, era, sampler, staging, fd, inputs, sampled>>

\* DatalogFile::open: a fresh file with its header.
CreateFile ==
  /\ wpc = "create" /\ wpc' = "begin"
  /\ fd' = TRUE
  /\ UNCHANGED <<ring, recording, era, sampler, session, job, staging, atOpen, file, ended, inputs,
                 history>>

\* beginRecording, and on to flushRecording.
BeginRecording ==
  /\ wpc = "begin" /\ era' = era + 1 /\ recording' = TRUE
  /\ job' = "flush" /\ wpc' = "take"
  /\ sampled' = 0
  /\ UNCHANGED <<ring, sampler, session, staging, atOpen, files, inputs, late>>

\* A turn that leaves the session open: flushRecording.
Flush ==
  /\ wpc = "tick" /\ session = "open" /\ ~WantsClose
  /\ job' = "flush" /\ wpc' = "take"
  /\ UNCHANGED <<ring, recording, era, sampler, session, staging, atOpen, files, inputs, history>>

\* closeSession: recording ends, the ring is drained ...
CloseSession ==
  /\ wpc = "tick" /\ session = "open" /\ WantsClose
  /\ session' = "idle" /\ recording' = FALSE
  /\ job' = "close" /\ wpc' = "take"
  /\ UNCHANGED <<ring, era, sampler, staging, atOpen, files, inputs, history>>

\* All the drops since the boot.
MutFinish ==
  /\ wpc = "finish" /\ wpc' = "tick"
  /\ ended' = dropped /\ fd' = FALSE
  /\ UNCHANGED <<ring, recording, era, sampler, session, job, staging, atOpen, file, inputs, history>>

\* ... and the END record is written.
Finish ==
  /\ wpc = "finish" /\ wpc' = "tick"
  /\ ended' = dropped - atOpen /\ fd' = FALSE
  /\ UNCHANGED <<ring, recording, era, sampler, session, job, staging, atOpen, file, inputs, history>>

\* halt: opening, writing or syncing failed, on a full card or for another reason,
\* which unmounts the card.  A write may have got through in part.
Halt ==
  /\ wpc \in {"create", "append", "finish"} \/ (wpc = "take" /\ Used = 0 /\ job = "flush")
  /\ \E n \in 0..(IF wpc = "append" THEN Len(staging) ELSE 0) :
       file' = file \o SubSeq(staging, 1, n)
  /\ recording' = FALSE /\ fd' = FALSE /\ session' = "halted" /\ wpc' = "tick"
  /\ card' \in {card, FALSE}
  /\ UNCHANGED <<ring, era, sampler, job, staging, atOpen, ended, bus, workshop, history>>

\* A halted session waits for the bus to fall silent.
EndHalt ==
  /\ wpc = "tick" /\ session = "halted" /\ bus # "live"
  /\ session' = "idle"
  /\ UNCHANGED <<ring, recording, era, sampler, wpc, job, staging, atOpen, files, inputs, history>>

-----------------------------------------------------------------------------
(* The car. *)

\* The bus falls silent, stays so for the ten seconds, and wakes up.
BusChanges ==
  /\ bus' \in {"live", "silent"} \union IF bus = "silent" THEN {"asleep"} ELSE {}
  /\ UNCHANGED <<ring, recording, era, sampler, writer, files, card, workshop, history>>

EnterWorkshop ==
  /\ workshop' = TRUE
  /\ UNCHANGED <<ring, recording, era, sampler, writer, files, card, bus, history>>

-----------------------------------------------------------------------------
Sampler == BeginPass \/ PushBytes \/ PublishHead \/ DropRecord \/ PushLap \/ EndPass
Writer ==
  \/ TakeBytes \/ TakeNothing \/ PublishTail \/ AppendBytes
  \/ OpenSession \/ CreateFile \/ BeginRecording \/ Flush \/ CloseSession \/ Finish
  \/ Halt \/ EndHalt

Next == Sampler \/ Writer \/ Mount \/ BusChanges \/ EnterWorkshop

Spec == Init /\ [][Next]_vars

\* The writer is a loop that never ends.
FairSpec == Spec /\ WF_vars(Writer)

-----------------------------------------------------------------------------
(* Properties. *)

\* datalog.md, session lifecycle and file format: what is in the file is whole records
\* in the order they were sampled, cut at most at the end, where an interrupted file
\* ends; and only its first pass may be one that began before the session did.
FileIsWhole ==
  /\ \A k \in 1..Len(file) :
       LET r == file[k][1] i == file[k][2] IN
       IF k = 1 THEN i = 1
       ELSE \/ file[k - 1] = <<r, i - 1>>
            \/ i = 1 /\ file[k - 1][2] = file[k - 1][1].len /\ file[k - 1][1].id < r.id
  /\ ended # NotEnded /\ file # <<>> => file[Len(file)][2] = file[Len(file)][1].len
  /\ fd => Cardinality({file[k][1] : k \in {j \in 1..Len(file) : file[j][1].era < era
                                                                 /\ ~file[j][1].lap}}) <= 1

Own == {file[k][1] : k \in {j \in 1..Len(file) : file[j][1].era = era}}

\* Records are never lost unsaid: a session that was closed holds every record
\* sampled in it or has counted it, unless the last pass came after the drain.
LossIsCounted ==
  ended # NotEnded /\ ~late => Cardinality(Own) + ended = sampled

\* Workshop mode closes the file, and none is opened in it: what the tuner downloads
\* is not being written to.  The drain is assumed to come to an end: a card slower
\* than the sampler would keep the writer in it.
WorkshopClosesLog == []<>(wpc = "tick") => [](workshop => <>[]~fd)

\* The bytes that were pushed and not taken: a take counts from its first step.
Unread ==
  LET n == IF wpc = "free" THEN Len(staging) ELSE 0 IN Stored(tail + n, Used - n)

AllRecords == {Bytes(r) : r \in [id : 1..MaxRecords, era : 1..MaxSessions, len : 1..MaxLen, lap : BOOLEAN]}

Queue == INSTANCE RecordQueue WITH queue <- Unread, out <- staging, Records <- AllRecords

ImplementsQueue == Queue!Spec
=============================================================================
