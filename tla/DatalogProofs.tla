--------------------------- MODULE DatalogProofs ----------------------------
(***************************************************************************)
(* Proofs about Datalog, for any ring, any width of its counters that the  *)
(* size of the ring divides, any staging buffer and any records.           *)
(*                                                                         *)
(* A position of the ring is a remainder, so the bytes from a position on  *)
(* are the same wherever its counter has wrapped.  With that, a push adds  *)
(* its bytes behind the unread ones and a take removes the first of them;  *)
(* the ring is a queue.  The log is then the file and what is on the way   *)
(* to it: taking and appending leave it as it is, a published record comes *)
(* behind it, and what it holds is followed from the opening of a session  *)
(* to its END record.                                                      *)
(***************************************************************************)
EXTENDS Datalog, SequenceTheorems, FiniteSetTheorems, TLAPS

\* A record under way has a number, a session and a length; before the first there is none.
Record == [id : 1..MaxRecords, era : 1..MaxSessions, len : 1..MaxLen, lap : BOOLEAN]

\* What a cell, a staged byte or a byte of the file is: the byte of a record at a place.
Piece == (Record \union {NoRecord}) \X Nat

\* The counters and the cells of a ring.
RingTyped ==
  /\ cells \in [0..Cap - 1 -> Piece]
  /\ head \in 0..Wrap - 1 /\ tail \in 0..Wrap - 1

Pushing == spc \in {"push", "publish"}

Typed ==
  /\ RingTyped /\ dropped \in Nat /\ atOpen \in Nat
  /\ recording \in BOOLEAN /\ era \in 0..MaxSessions
  /\ spc \in {"idle", "push", "publish", "lap"} /\ count \in 0..MaxRecords
  /\ spc # "idle" => rec \in Record /\ rec.era <= era
  /\ Pushing => rec.id = count
  /\ session \in {"idle", "open", "halted"}
  /\ wpc \in {"tick", "take", "free", "append", "create", "begin", "finish"}
  /\ job \in {"discard", "flush", "close"}
  /\ staging \in Seq(Piece) /\ file \in Seq(Piece)
  /\ ended \in Int /\ sampled \in Nat /\ late \in BOOLEAN

\* Where the writer is.
Discarding == wpc \in {"take", "free"} /\ job = "discard"
Opening == wpc \in {"create", "begin"}
Active ==
  \/ Opening \/ wpc \in {"append", "finish"}
  \/ wpc \in {"take", "free"} /\ job # "discard"
  \/ wpc = "tick" /\ session = "open"

\* The ring keeps what is in it: a push has room for its bytes, and a take has what is there.
RingKept ==
  /\ Used <= Cap
  /\ spc = "publish" => Fits(rec.len) /\ Stored(head, rec.len) = Bytes(rec)
  /\ wpc = "free" => Len(staging) <= Used /\ staging = Stored(tail, Len(staging))

\* Recording and the file are those of a session under way, and what the last session left
\* is gone before the next one logs.
Sessions ==
  /\ wpc # "tick" => session = IF job = "close" THEN "idle" ELSE "open"
  /\ wpc = "append" => job # "discard"
  /\ wpc = "finish" => job = "close"
  /\ Opening => job = "discard"
  /\ recording => Active /\ ~Opening /\ session = "open" /\ era > 0
  /\ fd => Active /\ wpc # "create"
  /\ Discarding \/ Opening => file = <<>> /\ ended = NotEnded /\ era < MaxSessions
  /\ Active => ended = NotEnded

\* The bytes that were taken and are not in the file yet, and the log as it will be.
Taken == IF wpc \in {"free", "append"} THEN staging ELSE <<>>
Pending == Taken \o Unread
Stream == file \o Pending

\* Byte b may follow byte a: the next one of the record, or the first of a later record.
Follows(a, b) ==
  \/ a = <<b[1], b[2] - 1>>
  \/ b[2] = 1 /\ a[2] = a[1].len /\ a[1].id < b[1].id
Chained(s) == \A k \in 1..Len(s) - 1 : Follows(s[k], s[k + 1])
Starts(s) == s # <<>> => s[1][2] = 1
Ends(s) == s # <<>> => s[Len(s)][2] = s[Len(s)][1].len

\* The records that bytes are of.
RecordsIn(s) == {s[k][1] : k \in 1..Len(s)}

\* The highest number that a record in the log can have.
Last == IF Pushing THEN count - 1 ELSE count

Whole ==
  /\ Chained(file) /\ Starts(file) /\ Chained(Pending) /\ Ends(Pending)
  /\ Active => Chained(Stream) /\ Starts(Stream) /\ Ends(Stream)
  /\ wpc = "finish" \/ ended # NotEnded => Ends(file)
  /\ \A r \in RecordsIn(file) \union RecordsIn(Pending) : r.id <= Last

\* The session the log is of.
Cur == IF Opening THEN era + 1 ELSE era
Old(r) == r.era < Cur /\ ~r.lap

\* At most one pass is of an earlier session: the one that was under way when the ring was
\* emptied.
OneOld == Active =>
  /\ \A q, r \in RecordsIn(Stream) : Old(q) /\ Old(r) => q = r
  /\ Pushing /\ Old(rec) => \A r \in RecordsIn(Stream) : ~Old(r)

\* The records of the session that started last.
OwnIn(s) == {r \in RecordsIn(s) : r.era = era}

Counted == ~late =>
  /\ Discarding \/ Opening => dropped = atOpen
  /\ Opening \/ wpc = "finish" => Unread = <<>>
  /\ Active /\ ~Opening =>
       IsFiniteSet(OwnIn(Stream)) /\ Cardinality(OwnIn(Stream)) + (dropped - atOpen) = sampled
  /\ LossIsCounted

\* What is true in every state.
IInv == Typed /\ Sessions /\ RingKept /\ Whole /\ OneOld /\ Counted
-----------------------------------------------------------------------------
(* Remainders. *)

\* Quotient and remainder.
LEMMA DivMod ==
  ASSUME NEW n \in Nat \ {0}, NEW a \in Int
  PROVE  /\ a \div n \in Int /\ a % n \in 0..n - 1
         /\ a = n * (a \div n) + (a % n)
BY Z3

\* And there is one remainder.
LEMMA Remainder ==
  ASSUME NEW n \in Nat \ {0}, NEW q \in Int, NEW r \in 0..n - 1
  PROVE  (n * q + r) % n = r
BY Z3

\* A multiple of n does not count.
LEMMA AddMultiple ==
  ASSUME NEW n \in Nat \ {0}, NEW a \in Int, NEW k \in Int
  PROVE  (a + n * k) % n = a % n
<1>1. PICK q \in Int, r \in 0..n - 1 : a = n * q + r /\ a % n = r
  BY DivMod
<1>2. q + k \in Int /\ a + n * k = n * (q + k) + r
  BY <1>1, Z3
<1>3. (n * (q + k) + r) % n = r
  BY <1>1, <1>2, Remainder
<1>q. QED
  BY <1>1, <1>2, <1>3

\* Nor does n.
LEMMA AddOnce ==
  ASSUME NEW n \in Nat \ {0}, NEW a \in Int
  PROVE  (a + n) % n = a % n
<1>1. PICK q \in Int, r \in 0..n - 1 : a = n * q + r /\ a % n = r
  BY DivMod
<1>2. q + 1 \in Int /\ a + n = n * (q + 1) + r
  BY <1>1, Z3
<1>3. (n * (q + 1) + r) % n = r
  BY <1>1, <1>2, Remainder
<1>q. QED
  BY <1>1, <1>2, <1>3

\* The ring's sizes, and that its storage fits into the range of its counters a whole number of
\* times.
LEMMA RingFacts ==
  /\ Cap \in Nat \ {0} /\ Wrap \in Nat \ {0} /\ Cap < Wrap
  /\ Staging \in Nat \ {0} /\ MaxLen \in 1..Cap
  /\ \E w \in Int : Wrap = Cap * w
<1>1. Cap \in Nat \ {0} /\ Wrap \in Nat /\ Wrap % Cap = 0 /\ Cap < Wrap
  BY RingAssumption
<1>2. Wrap \div Cap \in Int /\ Wrap = Cap * (Wrap \div Cap) + (Wrap % Cap)
  BY <1>1, DivMod
<1>3. Cap * (Wrap \div Cap) \in Int
  BY <1>1, <1>2
<1>4. Wrap = Cap * (Wrap \div Cap)
  BY <1>1, <1>2, <1>3
<1>q. QED
  BY <1>1, <1>2, <1>4, RingAssumption

\* A counter that wrapped is in the same cell.
LEMMA SameCell ==
  ASSUME NEW a \in Int, NEW q \in Int
  PROVE  (a + Wrap * q) % Cap = a % Cap
<1>1. PICK w \in Int : Wrap = Cap * w
  BY RingFacts
<1>2. w * q \in Int /\ (Cap * w) * q = Cap * (w * q)
  BY RingFacts, Z3
<1>3. (a + Cap * (w * q)) % Cap = a % Cap
  BY <1>2, RingFacts, AddMultiple
<1>q. QED
  BY <1>1, <1>2, <1>3

\* A counter is what was counted, but for a multiple of its range.
LEMMA Unwrapped ==
  ASSUME NEW a \in Int
  PROVE  a % Wrap \in 0..Wrap - 1 /\ \E q \in Int : a % Wrap = a + Wrap * q
<1>1. PICK q \in Int : a = Wrap * q + (a % Wrap) /\ a % Wrap \in 0..Wrap - 1
  BY RingFacts, DivMod
<1>2. -q \in Int /\ a % Wrap = a + Wrap * (-q)
  BY <1>1, RingFacts, Z3
<1>q. QED
  BY <1>1, <1>2
-----------------------------------------------------------------------------
(* The ring. *)

\* What the head is ahead of the tail.
LEMMA UsedIs ==
  ASSUME RingTyped
  PROVE  Used \in 0..Wrap - 1 /\ \E q \in Int : head = tail + Used + Wrap * q
<1>1. head - tail \in Int /\ tail \in Int /\ head \in Int
  BY RingFacts DEF RingTyped
<1>2. PICK q \in Int : Used = head - tail + Wrap * q
  BY <1>1, Unwrapped DEF Used
<1>3. Used \in 0..Wrap - 1
  BY <1>1, Unwrapped DEF Used
<1>4. -q \in Int /\ head = tail + Used + Wrap * (-q)
  BY <1>1, <1>2, <1>3, RingFacts, Z3
<1>q. QED
  BY <1>3, <1>4

\* The bytes from a position on.
LEMMA StoredSeq ==
  ASSUME RingTyped, NEW p \in Int, NEW n \in Nat
  PROVE  /\ Stored(p, n) \in Seq(Piece) /\ Len(Stored(p, n)) = n
         /\ \A k \in 1..n : Stored(p, n)[k] = cells[(p + k - 1) % Cap]
<1>1. \A k \in 1..n : cells[(p + k - 1) % Cap] \in Piece
  <2> TAKE k \in 1..n
  <2>1. (p + k - 1) % Cap \in 0..Cap - 1
    BY RingFacts, DivMod
  <2>q. QED
    BY <2>1 DEF RingTyped
<1>q. QED
  BY <1>1 DEF Stored

\* From a position on, or from where it is when it has wrapped.
LEMMA StoredAnywhere ==
  ASSUME RingTyped, NEW p \in Int, NEW n \in Nat, NEW q \in Int
  PROVE  Stored(p + Wrap * q, n) = Stored(p, n)
<1>1. \A k \in 1..n : ((p + Wrap * q) + k - 1) % Cap = (p + k - 1) % Cap
  <2> TAKE k \in 1..n
  <2>1. p + k - 1 \in Int /\ (p + Wrap * q) + k - 1 = (p + k - 1) + Wrap * q
    BY RingFacts
  <2>q. QED
    BY <2>1, SameCell
<1>q. QED
  BY <1>1 DEF Stored

\* What is stored can be had in two parts.
LEMMA StoredInParts ==
  ASSUME RingTyped, NEW p \in Int, NEW m \in Nat, NEW n \in Nat
  PROVE  /\ Stored(p, m) = SubSeq(Stored(p, m + n), 1, m)
         /\ Stored(p + m, n) = SubSeq(Stored(p, m + n), m + 1, m + n)
         /\ Stored(p, m) \o Stored(p + m, n) = Stored(p, m + n)
<1> DEFINE all == Stored(p, m + n)
<1> DEFINE front == Stored(p, m)
<1> DEFINE back == Stored(p + m, n)
<1>1. /\ all \in Seq(Piece) /\ Len(all) = m + n
      /\ \A k \in 1..m + n : all[k] = cells[(p + k - 1) % Cap]
  BY StoredSeq
<1>2. /\ front \in Seq(Piece) /\ Len(front) = m
      /\ \A k \in 1..m : front[k] = cells[(p + k - 1) % Cap]
  BY StoredSeq
<1>3. /\ back \in Seq(Piece) /\ Len(back) = n
      /\ \A k \in 1..n : back[k] = cells[((p + m) + k - 1) % Cap]
  BY StoredSeq
<1>4. \A k \in 1..n : (p + m) + k - 1 = p + (m + k) - 1
  OBVIOUS
<1> HIDE DEF all, front, back
<1>5. front = SubSeq(all, 1, m)
  <2>1. /\ SubSeq(all, 1, m) \in Seq(Piece) /\ Len(SubSeq(all, 1, m)) = m
        /\ \A k \in 1..m : SubSeq(all, 1, m)[k] = all[k]
    BY <1>1, SubSeqProperties
  <2>q. QED
    BY <1>1, <1>2, <2>1, SeqEqual
<1>6. back = SubSeq(all, m + 1, m + n)
  <2>1. \A k \in m + 1..m + n : all[k] \in Piece
    BY <1>1
  <2>2. /\ SubSeq(all, m + 1, m + n) \in Seq(Piece) /\ Len(SubSeq(all, m + 1, m + n)) = n
        /\ \A k \in 1..n : SubSeq(all, m + 1, m + n)[k] = all[m + k]
    BY <2>1, SubSeqProperties
  <2>3. \A k \in 1..n : back[k] = all[m + k]
    BY <1>1, <1>3, <1>4
  <2>q. QED
    BY <1>3, <2>2, <2>3, SeqEqual
<1>7. front \o back = all
  <2>1. /\ front \o back \in Seq(Piece) /\ Len(front \o back) = m + n
        /\ \A k \in 1..m + n : (front \o back)[k] = IF k <= m THEN front[k] ELSE back[k - m]
    BY <1>2, <1>3, ConcatProperties
  <2>2. \A k \in 1..m + n : (front \o back)[k] = all[k]
    <3> SUFFICES ASSUME NEW k \in 1..m + n PROVE (front \o back)[k] = all[k]
      OBVIOUS
    <3>1. CASE k <= m
      <4>1. k \in 1..m /\ k \in 1..m + n
        BY <3>1
      <4>2. (front \o back)[k] = front[k]
        BY <2>1, <3>1, <4>1
      <4>q. QED
        BY <1>1, <1>2, <4>1, <4>2
    <3>2. CASE ~(k <= m)
      <4>1. k - m \in 1..n /\ m + (k - m) = k
        BY <3>2
      <4>2. back[k - m] = cells[(p + (m + (k - m)) - 1) % Cap]
        BY <1>3, <1>4, <4>1, Zenon
      <4>3. (front \o back)[k] = back[k - m]
        BY <2>1, <3>2
      <4>q. QED
        BY <1>1, <4>1, <4>2, <4>3
    <3>q. QED
      BY <3>1, <3>2
  <2>q. QED
    BY <1>1, <2>1, <2>2, SeqEqual
<1>q. QED
  BY <1>5, <1>6, <1>7 DEF all, front, back

\* copy_in puts the bytes of r from the head on and leaves the other cells alone.
LEMMA CopiedIn ==
  ASSUME RingTyped, NEW r \in Record, NEW k \in 1..Cap, NEW i, i = (head + k - 1) % Cap
  PROVE  /\ i \in 0..Cap - 1
         /\ CopyIn(r)[i] = IF k <= r.len THEN <<r, k>> ELSE cells[i]
<1>1. head \in Int /\ head + k - 1 \in Int
  BY RingFacts DEF RingTyped
<1>2. i \in 0..Cap - 1
  BY <1>1, RingFacts, DivMod
<1>3. PICK q \in Int : head + k - 1 = Cap * q + i
  BY <1>1, RingFacts, DivMod
<1>4. -q \in Int /\ i - head = Cap * (-q) + (k - 1)
  BY <1>1, <1>2, <1>3, RingFacts, Z3
<1>5. k - 1 \in 0..Cap - 1
  BY RingFacts
<1>6. (Cap * (-q) + (k - 1)) % Cap = k - 1
  BY <1>4, <1>5, RingFacts, Remainder
<1>7. ((i - head) % Cap) + 1 = k
  BY <1>4, <1>6, RingFacts
<1>8. DOMAIN cells = 0..Cap - 1
  BY DEF RingTyped
<1>q. QED
  BY <1>2, <1>7, <1>8 DEF CopyIn

\* The counters never leave their range, and the cells hold bytes of records.
LEMMA CopyTyped == ASSUME RingTyped, NEW r \in Record PROVE CopyIn(r) \in [0..Cap - 1 -> Piece]
<1>1. \A k \in Int : 1 <= k => <<r, k>> \in Piece
  BY DEF Piece
<1>2. \A i \in 0..Cap - 1 : (i - head) % Cap \in 0..Cap - 1
  BY RingFacts, DivMod DEF RingTyped
<1>q. QED
  BY <1>1, <1>2, RingFacts DEF CopyIn, RingTyped

\* How much a take is of.
LEMMA LeastUsed ==
  ASSUME RingTyped
  PROVE  /\ Least(Used, Staging) \in 0..Staging /\ Least(Used, Staging) <= Used
         /\ Used > 0 => Least(Used, Staging) > 0
         /\ Used = 0 => Least(Used, Staging) = 0
BY UsedIs, RingFacts DEF Least

\* What a take finds.
LEMMA TakenSeq ==
  ASSUME RingTyped
  PROVE  /\ Stored(tail, Least(Used, Staging)) \in Seq(Piece)
         /\ Len(Stored(tail, Least(Used, Staging))) = Least(Used, Staging)
<1>1. tail \in Int /\ Least(Used, Staging) \in Nat
  BY LeastUsed, RingFacts DEF RingTyped
<1>q. QED
  BY <1>1, StoredSeq
-----------------------------------------------------------------------------
\* Types are kept by every step.
LEMMA TypeStep == Typed /\ Sessions /\ [Next]_vars => Typed'
<1> SUFFICES ASSUME Typed, Sessions, [Next]_vars PROVE Typed'
  OBVIOUS
<1> USE BoundsAssumption DEF Typed, Pushing, ring, sampler, writer, files, inputs, history
<1>r. RingTyped
  OBVIOUS
<1>1. CASE BeginPass
  BY <1>1 DEF BeginPass, NewRecord, Record, RingTyped, Sessions
<1>2. CASE PushLap
  BY <1>2 DEF PushLap, NewRecord, Record, RingTyped, Sessions
<1>3. CASE EndPass
  BY <1>3 DEF EndPass, RingTyped, Sessions
<1>4. CASE PushBytes
  <2>1. CopyIn(rec) \in [0..Cap - 1 -> Piece]
    BY <1>r, <1>4, CopyTyped DEF PushBytes
  <2>q. QED
    BY <1>4, <2>1 DEF PushBytes, RingTyped
<1>5. CASE PublishHead
  <2>1. head + rec.len \in Int
    BY <1>r, <1>5, RingFacts DEF PublishHead, RingTyped, Record
  <2>2. head' \in 0..Wrap - 1
    BY <1>5, <2>1, Unwrapped DEF PublishHead
  <2>q. QED
    BY <1>5, <2>2 DEF PublishHead, Sampled, RingTyped
<1>6. CASE DropRecord
  BY <1>6 DEF DropRecord, Sampled, RingTyped, Sessions
<1>7. CASE TakeBytes
  BY <1>r, <1>7, TakenSeq DEF TakeBytes, Taking, RingTyped
<1>8. CASE TakeNothing
  BY <1>r, <1>8, TakenSeq DEF TakeNothing, Taking, RingTyped
<1>9. CASE PublishTail
  <2>1. tail + Len(staging) \in Int
    BY <1>r, RingFacts DEF RingTyped
  <2>2. tail' \in 0..Wrap - 1
    BY <1>9, <2>1, Unwrapped DEF PublishTail
  <2>q. QED
    BY <1>9, <2>2 DEF PublishTail, RingTyped
<1>10. CASE AppendBytes
  BY <1>10 DEF AppendBytes, RingTyped, Sessions
<1>11. CASE OpenSession
  <2>1. <<>> \in Seq(Piece)
    OBVIOUS
  <2>2. file' \in Seq(Piece) /\ ended' \in Int
    BY <1>11, <2>1 DEF OpenSession, NotEnded
  <2>q. QED
    BY <1>11, <2>2 DEF OpenSession, RingTyped
<1>12. CASE CreateFile
  BY <1>12 DEF CreateFile, RingTyped, Sessions
<1>13. CASE BeginRecording
  <2>1. era' \in 0..MaxSessions /\ era <= era'
    BY <1>13 DEF BeginRecording, Sessions, Opening
  <2>2. spc # "idle" => rec.era <= era'
    BY <2>1 DEF Record
  <2>q. QED
    BY <1>13, <2>1, <2>2 DEF BeginRecording, RingTyped
<1>14. CASE Flush
  BY <1>14 DEF Flush, RingTyped, Sessions
<1>15. CASE CloseSession
  BY <1>15 DEF CloseSession, RingTyped, Sessions
<1>16. CASE Finish
  BY <1>16 DEF Finish, RingTyped, Sessions
<1>17. CASE Halt
  <2>1. PICK n \in 0..(IF wpc = "append" THEN Len(staging) ELSE 0) :
          file' = file \o SubSeq(staging, 1, n)
    BY <1>17 DEF Halt
  <2>2. n \in Nat /\ n <= Len(staging)
    BY <2>1
  <2>3. SubSeq(staging, 1, n) \in Seq(Piece)
    BY <2>2, SubSeqProperties
  <2>4. file' \in Seq(Piece)
    BY <2>1, <2>3
  <2>q. QED
    BY <1>17, <2>4 DEF Halt, RingTyped
<1>18. CASE EndHalt
  BY <1>18 DEF EndHalt, RingTyped, Sessions
<1>19. CASE Mount
  BY <1>19 DEF Mount, RingTyped, Sessions
<1>20. CASE BusChanges
  BY <1>20 DEF BusChanges, RingTyped, Sessions
<1>21. CASE EnterWorkshop
  BY <1>21 DEF EnterWorkshop, RingTyped, Sessions
<1>22. CASE UNCHANGED vars
  BY <1>22 DEF vars, RingTyped
<1>q. QED
  BY <1>1, <1>2, <1>3, <1>4, <1>5, <1>6, <1>7, <1>8, <1>9, <1>10, <1>11, <1>12, <1>13, <1>14,
       <1>15, <1>16, <1>17, <1>18, <1>19, <1>20, <1>21, <1>22 DEF Next, Sampler, Writer

\* And so is what the writer goes by.
LEMMA SessionStep == Typed /\ Sessions /\ [Next]_vars => Sessions'
<1> SUFFICES ASSUME Typed, Sessions, [Next]_vars PROVE Sessions'
  OBVIOUS
<1> USE BoundsAssumption DEF Sessions, Active, Opening, Discarding, ring, sampler, writer, files,
                             inputs, history
<1>1. CASE BeginPass
  BY <1>1 DEF BeginPass, NewRecord, Typed
<1>2. CASE PushLap
  BY <1>2 DEF PushLap, NewRecord, Typed
<1>3. CASE EndPass
  BY <1>3 DEF EndPass, Typed
<1>4. CASE PushBytes
  BY <1>4 DEF PushBytes, Typed
<1>5. CASE PublishHead
  BY <1>5 DEF PublishHead, Sampled, Typed
<1>6. CASE DropRecord
  BY <1>6 DEF DropRecord, Sampled, Typed
<1>7. CASE TakeBytes
  BY <1>7 DEF TakeBytes, Taking, Typed
<1>8. CASE TakeNothing
  BY <1>8 DEF TakeNothing, Taking, Typed
<1>9. CASE PublishTail
  BY <1>9 DEF PublishTail, Typed
<1>10. CASE AppendBytes
  BY <1>10 DEF AppendBytes, Typed
<1>11. CASE OpenSession
  BY <1>11 DEF OpenSession, Typed
<1>12. CASE CreateFile
  BY <1>12 DEF CreateFile, Typed
<1>13. CASE BeginRecording
  BY <1>13 DEF BeginRecording, Typed
<1>14. CASE Flush
  BY <1>14 DEF Flush, Typed
<1>15. CASE CloseSession
  BY <1>15 DEF CloseSession, Typed
<1>16. CASE Finish
  BY <1>16 DEF Finish, Typed
<1>17. CASE Halt
  BY <1>17 DEF Halt, Typed
<1>18. CASE EndHalt
  BY <1>18 DEF EndHalt, Typed
<1>19. CASE Mount
  BY <1>19 DEF Mount, Typed
<1>20. CASE BusChanges
  BY <1>20 DEF BusChanges, Typed
<1>21. CASE EnterWorkshop
  BY <1>21 DEF EnterWorkshop, Typed
<1>22. CASE UNCHANGED vars
  BY <1>22 DEF vars
<1>q. QED
  BY <1>1, <1>2, <1>3, <1>4, <1>5, <1>6, <1>7, <1>8, <1>9, <1>10, <1>11, <1>12, <1>13, <1>14,
       <1>15, <1>16, <1>17, <1>18, <1>19, <1>20, <1>21, <1>22 DEF Next, Sampler, Writer
-----------------------------------------------------------------------------
(* What the steps do to the bytes in the ring. *)

\* How many bytes a take has gone over.
Gone == IF wpc = "free" THEN Len(staging) ELSE 0

\* The unread bytes are stored from behind the bytes a take has gone over.
LEMMA UnreadSeq ==
  ASSUME Typed, RingKept
  PROVE  /\ Gone \in Nat /\ Used - Gone \in Nat /\ tail \in Int /\ head \in Int /\ Used \in Nat
         /\ Unread = Stored(tail + Gone, Used - Gone)
         /\ Unread \in Seq(Piece) /\ Len(Unread) = Used - Gone
<1>1. RingTyped /\ tail \in Int /\ head \in Int /\ Used \in Nat
  BY UsedIs, RingFacts DEF Typed, RingTyped
<1>2. Gone \in Nat /\ Used - Gone \in Nat
  BY <1>1 DEF Gone, RingKept, Typed
<1>3. Unread = Stored(tail + Gone, Used - Gone)
  BY DEF Unread, Gone
<1>q. QED
  BY <1>1, <1>2, <1>3, StoredSeq

\* What comes before the head comes after it, once around the ring.
LEMMA Behind ==
  ASSUME RingTyped, NEW k \in 1..Used
  PROVE  (head + (Cap - Used + k) - 1) % Cap = (tail + k - 1) % Cap
<1>1. PICK q \in Int : head = tail + Used + Wrap * q
  BY UsedIs
<1>2. tail \in Int /\ Used \in Int /\ Cap \in Int /\ Wrap * q \in Int
  BY <1>1, UsedIs, RingFacts DEF RingTyped
<1> DEFINE a == tail + k - 1
<1>3. a \in Int /\ head + (Cap - Used + k) - 1 = (a + Cap) + Wrap * q
  BY <1>1, <1>2
<1>4. (a + Cap) % Cap = a % Cap
  BY <1>3, RingFacts, AddOnce
<1>5. ((a + Cap) + Wrap * q) % Cap = (a + Cap) % Cap
  <2>1. a + Cap \in Int
    BY <1>2, <1>3
  <2>q. QED
    BY <2>1, SameCell
<1>q. QED
  BY <1>3, <1>4, <1>5

\* A push has room, so it leaves alone what has not been taken.
LEMMA PushSpares ==
  ASSUME RingTyped, rec \in Record, Fits(rec.len), Used <= Cap, cells' = CopyIn(rec),
         NEW k \in 1..Used
  PROVE  cells'[(tail + k - 1) % Cap] = cells[(tail + k - 1) % Cap]
<1>1. tail \in Int /\ Used \in Nat /\ rec.len \in Nat /\ rec.len <= Cap - Used
  BY UsedIs, RingFacts DEF RingTyped, Record, Fits
<1>2. (tail + k - 1) % Cap = (head + (Cap - Used + k) - 1) % Cap
  BY Behind
<1>3. Cap - Used + k \in 1..Cap /\ ~(Cap - Used + k <= rec.len)
  BY <1>1, RingFacts
<1>q. QED
  BY <1>2, <1>3, CopiedIn

\* A push that copies its bytes in leaves the unread ones, and is ready to be published.
LEMMA PushBytesKeeps ==
  ASSUME Typed, RingKept, PushBytes
  PROVE  RingKept' /\ Unread' = Unread
<1> USE DEF PushBytes, writer
<1>1. /\ RingTyped /\ rec \in Record /\ Fits(rec.len) /\ Used <= Cap /\ cells' = CopyIn(rec)
      /\ UNCHANGED <<tail, wpc, staging>> /\ Used' = Used
  BY DEF Typed, RingKept, Used
<1>s. \A k \in 1..Used : cells'[(tail + k - 1) % Cap] = cells[(tail + k - 1) % Cap]
  BY <1>1, PushSpares
<1>2. Unread' = Unread
  <2>1. /\ Unread = [k \in 1..Used - Gone |-> cells[(tail + Gone + k - 1) % Cap]]
        /\ Unread' = [k \in 1..Used - Gone |-> cells'[(tail + Gone + k - 1) % Cap]]
    BY <1>1 DEF Unread, Stored, Gone
  <2>2. \A k \in 1..Used - Gone : Gone + k \in 1..Used /\ tail + Gone + k = tail + (Gone + k)
    BY UnreadSeq
  <2>3. \A k \in 1..Used - Gone :
          cells'[(tail + Gone + k - 1) % Cap] = cells[(tail + Gone + k - 1) % Cap]
    <3> TAKE k \in 1..Used - Gone
    <3> DEFINE j == Gone + k
    <3>1. j \in 1..Used /\ tail + Gone + k - 1 = tail + j - 1
      BY <2>2, UnreadSeq
    <3>2. cells'[(tail + j - 1) % Cap] = cells[(tail + j - 1) % Cap]
      BY <1>s, <3>1
    <3>q. QED
      BY <3>1, <3>2
  <2>q. QED
    BY <2>1, <2>3
<1>3. Fits(rec.len)' /\ Stored(head, rec.len)' = Bytes(rec)'
  <2>1. rec.len \in 1..Cap /\ head' = head /\ rec' = rec
    BY <1>1, RingFacts DEF Record
  <2>2. \A k \in 1..rec.len : cells'[(head + k - 1) % Cap] = <<rec, k>>
    <3> TAKE k \in 1..rec.len
    <3>1. k \in 1..Cap /\ k <= rec.len
      BY <2>1, RingFacts
    <3>q. QED
      BY <1>1, <3>1, CopiedIn
  <2>q. QED
    BY <1>1, <2>1, <2>2 DEF Fits, Stored, Bytes
<1>4. wpc' = "free" => (Len(staging) <= Used)' /\ staging' = Stored(tail, Len(staging))'
  <2> SUFFICES ASSUME wpc = "free"
               PROVE  Len(staging) <= Used /\ staging = Stored(tail, Len(staging))'
    BY <1>1
  <2>1. Len(staging) \in Nat /\ Len(staging) <= Used /\ staging = Stored(tail, Len(staging))
    BY DEF RingKept, Typed
  <2>2. \A k \in 1..Len(staging) : k \in 1..Used
    BY <1>1, <2>1, UnreadSeq
  <2>q. QED
    BY <1>1, <1>s, <2>1, <2>2 DEF Stored
<1>q. QED
  BY <1>1, <1>2, <1>3, <1>4 DEF RingKept

\* A record that is published is behind the bytes that were there.
LEMMA PublishHeadAdds ==
  ASSUME Typed, RingKept, PublishHead
  PROVE  /\ RingKept' /\ Unread' = Unread \o Bytes(rec)
         /\ Len(Unread) + Len(Bytes(rec)) <= Cap /\ rec \in Record
<1>1. /\ RingTyped /\ rec \in Record /\ Fits(rec.len) /\ Stored(head, rec.len) = Bytes(rec)
      /\ Used <= Cap /\ UNCHANGED <<cells, tail, wpc, staging>> /\ spc' # "publish"
      /\ head' = (head + rec.len) % Wrap
  BY DEF Typed, RingKept, PublishHead, Sampled, writer
<1>2. /\ tail \in Int /\ head \in Int /\ Used \in Nat /\ Gone \in Nat /\ Used - Gone \in Nat
      /\ Unread \in Seq(Piece) /\ Len(Unread) = Used - Gone
      /\ Unread = Stored(tail + Gone, Used - Gone)
  BY UnreadSeq
<1>3. rec.len \in Nat /\ Used + rec.len <= Cap /\ Used + rec.len \in 0..Wrap - 1
  <2>1. rec.len \in Nat
    BY <1>1, RingFacts DEF Record
  <2>2. rec.len <= Cap - Used
    BY <1>1 DEF Fits
  <2>3. Cap \in Nat /\ Wrap \in Nat /\ Cap < Wrap
    BY RingFacts
  <2> DEFINE n == rec.len
  <2> HIDE DEF n
  <2>4. n \in Nat /\ n <= Cap - Used
    BY <2>1, <2>2 DEF n
  <2>5. Used + n <= Cap /\ Used + n \in 0..Wrap - 1
    BY <1>2, <2>3, <2>4
  <2>q. QED
    BY <2>1, <2>5 DEF n
<1>4. PICK q \in Int : head = tail + Used + Wrap * q
  BY <1>1, UsedIs
<1>5. Used' = Used + rec.len
  <2>1. PICK p \in Int : head' = head + rec.len + Wrap * p
    <3>1. head + rec.len \in Int
      BY <1>2, <1>3
    <3>q. QED
      BY <1>1, <3>1, Unwrapped
  <2>2. q + p \in Int /\ head' - tail = Wrap * (q + p) + (Used + rec.len)
    <3>1. /\ Wrap * (q + p) = Wrap * q + Wrap * p
          /\ Wrap * q \in Int /\ Wrap * p \in Int /\ q + p \in Int
      BY RingFacts, Z3
    <3> DEFINE n == rec.len
    <3> DEFINE a == Wrap * q
    <3> DEFINE b == Wrap * p
    <3>2. n \in Nat /\ a \in Int /\ b \in Int /\ head = tail + Used + a /\ head' = head + n + b
      BY <1>3, <1>4, <2>1, <3>1
    <3> HIDE DEF n, a, b
    <3>3. head' - tail = (a + b) + (Used + n)
      BY <1>2, <3>2
    <3>q. QED
      BY <3>1, <3>3 DEF n, a, b
  <2>3. (Wrap * (q + p) + (Used + rec.len)) % Wrap = Used + rec.len
    BY <1>3, <2>2, RingFacts, Remainder
  <2>q. QED
    BY <1>1, <2>2, <2>3 DEF Used
<1>6. Unread' = Stored(tail + Gone, Used' - Gone)
  BY <1>1 DEF Unread, Stored, Gone
<1>7. Stored(tail + Used, rec.len) = Bytes(rec)
  <2>1. tail + Used \in Int
    BY <1>2
  <2>2. Stored((tail + Used) + Wrap * q, rec.len) = Stored(tail + Used, rec.len)
    BY <1>1, <1>3, <2>1, StoredAnywhere
  <2>q. QED
    BY <1>1, <1>4, <2>2
<1>8. Unread' = Unread \o Bytes(rec)
  <2>1. Stored(tail + Gone, Used - Gone) \o Stored((tail + Gone) + (Used - Gone), rec.len)
          = Stored(tail + Gone, (Used - Gone) + rec.len)
    <3> DEFINE p == tail + Gone
    <3> DEFINE m == Used - Gone
    <3> DEFINE n == rec.len
    <3>1. p \in Int /\ m \in Nat /\ n \in Nat
      BY <1>2, <1>3
    <3> HIDE DEF p, m, n
    <3>2. Stored(p, m) \o Stored(p + m, n) = Stored(p, m + n)
      BY <1>1, <3>1, StoredInParts
    <3>q. QED
      BY <3>2 DEF p, m, n
  <2>2. (tail + Gone) + (Used - Gone) = tail + Used /\ (Used - Gone) + rec.len = Used' - Gone
    BY <1>2, <1>3, <1>5
  <2>q. QED
    BY <1>2, <1>6, <1>7, <2>1, <2>2
<1>9. RingKept'
  <2>1. Used' <= Cap
    BY <1>3, <1>5
  <2>2. wpc = "free" => Len(staging) <= Used' /\ staging = Stored(tail, Len(staging))
    <3>1. Len(staging) \in Nat
      BY DEF Typed
    <3>q. QED
      BY <1>2, <1>3, <1>5, <3>1 DEF RingKept
  <2>3. Stored(tail, Len(staging))' = Stored(tail, Len(staging))
    BY <1>1 DEF Stored
  <2>q. QED
    BY <1>1, <2>1, <2>2, <2>3 DEF RingKept
<1>10. Len(Bytes(rec)) = rec.len
  BY <1>3 DEF Bytes
<1>11. Len(Unread) + Len(Bytes(rec)) <= Cap
  BY <1>2, <1>3, <1>10, RingFacts
<1>q. QED
  BY <1>1, <1>8, <1>9, <1>11

\* A take is of the first bytes, and what remains are the others.
LEMMA TakeBytesParts ==
  ASSUME Typed, RingKept, TakeBytes
  PROVE  /\ RingKept' /\ staging' \in Seq(Piece) /\ Unread' \in Seq(Piece)
         /\ Len(staging') \in 1..Staging /\ Len(staging') <= Len(Unread)
         /\ staging' = SubSeq(Unread, 1, Len(staging'))
         /\ Unread' = SubSeq(Unread, Len(staging') + 1, Len(Unread))
         /\ Unread = staging' \o Unread'
<1> USE DEF TakeBytes, Taking, ring, sampler
<1> DEFINE n == Least(Used, Staging)
<1>1. /\ RingTyped /\ Used <= Cap /\ UNCHANGED <<cells, head, tail, spc, rec>> /\ Used' = Used
      /\ wpc = "take" /\ wpc' = "free" /\ staging' = Stored(tail, n) /\ Used > 0
  BY DEF Typed, RingKept, Used
<1>2. /\ tail \in Int /\ Used \in Nat /\ n \in 1..Staging /\ n <= Used /\ Used - n \in Nat
      /\ n \in Nat
  <2>1. tail \in Int /\ Used \in Nat
    BY UnreadSeq
  <2>q. QED
    BY <1>1, <2>1, LeastUsed, RingFacts
<1>3. Len(staging') = n
  BY <1>1, <1>2, StoredSeq
<1>4. Unread = Stored(tail, Used) /\ Len(Unread) = Used
  <2>1. Gone = 0
    BY <1>1 DEF Gone
  <2>q. QED
    BY <1>2, <2>1, UnreadSeq
<1>5. Unread' = Stored(tail + n, Used - n)
  BY <1>1, <1>3 DEF Unread, Stored
<1> HIDE DEF n
<1>6. n + (Used - n) = Used
  BY <1>2
<1>7. /\ Stored(tail, n) = SubSeq(Stored(tail, Used), 1, n)
      /\ Stored(tail + n, Used - n) = SubSeq(Stored(tail, Used), n + 1, Used)
      /\ Stored(tail, n) \o Stored(tail + n, Used - n) = Stored(tail, Used)
  <2> DEFINE m == Used - n
  <2>1. m \in Nat /\ n + m = Used
    BY <1>2, <1>6
  <2> HIDE DEF m
  <2>2. /\ Stored(tail, n) = SubSeq(Stored(tail, n + m), 1, n)
        /\ Stored(tail + n, m) = SubSeq(Stored(tail, n + m), n + 1, n + m)
        /\ Stored(tail, n) \o Stored(tail + n, m) = Stored(tail, n + m)
    BY <1>1, <1>2, <2>1, StoredInParts
  <2>q. QED
    BY <2>1, <2>2 DEF m
<1>8. Unread' \in Seq(Piece) /\ staging' \in Seq(Piece)
  <2>1. tail + n \in Int
    BY <1>2
  <2>2. Stored(tail + n, Used - n) \in Seq(Piece)
    BY <1>1, <1>2, <2>1, StoredSeq
  <2>3. Stored(tail, n) \in Seq(Piece)
    BY <1>1, <1>2, StoredSeq
  <2>q. QED
    BY <1>1, <1>5, <2>2, <2>3
<1>9. RingKept'
  <2>1. Stored(tail, Len(staging))' = Stored(tail, n)
    BY <1>1, <1>3 DEF Stored
  <2>2. spc = "publish" => Fits(rec.len)' /\ Stored(head, rec.len)' = Bytes(rec)'
    BY <1>1 DEF RingKept, Fits, Stored, Bytes
  <2>q. QED
    BY <1>1, <1>2, <1>3, <2>1, <2>2 DEF RingKept
<1>q. QED
  BY <1>1, <1>2, <1>3, <1>4, <1>5, <1>7, <1>8, <1>9

\* Giving the bytes back leaves the others where they are.
LEMMA PublishTailKeeps ==
  ASSUME Typed, RingKept, PublishTail
  PROVE  RingKept' /\ Unread' = Unread
<1> USE DEF PublishTail, sampler
<1> DEFINE n == Len(staging)
<1>1. /\ RingTyped /\ Used <= Cap /\ UNCHANGED <<cells, head, spc, rec, staging>>
      /\ wpc = "free" /\ wpc' # "free" /\ tail' = (tail + n) % Wrap /\ n <= Used
  BY DEF Typed, RingKept
<1>2. tail \in Int /\ Used \in Nat /\ n \in Nat /\ Used - n \in Nat /\ Used - n \in 0..Wrap - 1
  <2>1. tail \in Int /\ Used \in Nat
    BY UnreadSeq
  <2>2. Used \in 0..Wrap - 1
    BY <1>1, UsedIs
  <2>q. QED
    BY <1>1, <2>1, <2>2, RingFacts DEF Typed
<1>3. Unread = Stored(tail + n, Used - n)
  BY <1>1 DEF Unread
<1> HIDE DEF n
<1>4. PICK q \in Int : head = tail + Used + Wrap * q
  BY <1>1, UsedIs
<1>5. PICK p \in Int : tail' = tail + n + Wrap * p
  BY <1>1, <1>2, Unwrapped
<1>6. Used' = Used - n
  <2>1. q - p \in Int /\ head - tail' = Wrap * (q - p) + (Used - n)
    BY <1>2, <1>4, <1>5, RingFacts, Z3
  <2>2. (Wrap * (q - p) + (Used - n)) % Wrap = Used - n
    BY <1>2, <2>1, RingFacts, Remainder
  <2>q. QED
    BY <1>1, <2>1, <2>2 DEF Used
<1>7. Unread' = Stored(tail + n + Wrap * p, Used - n)
  <2>1. Unread' = Stored(tail' + 0, Used' - 0)
    BY <1>1 DEF Unread, Stored
  <2>2. tail' + 0 = tail + n + Wrap * p /\ Used' - 0 = Used - n
    BY <1>2, <1>5, <1>6, RingFacts
  <2>q. QED
    BY <2>1, <2>2
<1>8. Stored((tail + n) + Wrap * p, Used - n) = Stored(tail + n, Used - n)
  <2>1. tail + n \in Int
    BY <1>2
  <2>q. QED
    BY <1>1, <1>2, <2>1, StoredAnywhere
<1>9. RingKept'
  <2>1. Used' <= Cap
    BY <1>1, <1>2, <1>6, RingFacts
  <2>2. spc = "publish" => Fits(rec.len)' /\ Stored(head, rec.len)' = Bytes(rec)'
    <3> SUFFICES ASSUME spc = "publish"
                 PROVE  Fits(rec.len)' /\ Stored(head, rec.len)' = Bytes(rec)'
      OBVIOUS
    <3>1. rec.len \in Nat
      BY RingFacts DEF Typed, Record
    <3>2. Fits(rec.len)'
      BY <1>1, <1>2, <1>6, <3>1, RingFacts DEF RingKept, Fits
    <3>3. Stored(head, rec.len)' = Bytes(rec)'
      BY <1>1 DEF RingKept, Stored, Bytes
    <3>q. QED
      BY <3>2, <3>3
  <2>q. QED
    BY <1>1, <2>1, <2>2 DEF RingKept
<1>q. QED
  BY <1>3, <1>7, <1>8, <1>9

\* A take that finds nothing.
LEMMA TakeNothingKeeps ==
  ASSUME Typed, RingKept, TakeNothing
  PROVE  RingKept' /\ Unread' = Unread /\ Unread = <<>> /\ staging' = <<>>
<1> USE DEF TakeNothing, Taking, ring, sampler
<1>1. /\ RingTyped /\ UNCHANGED <<cells, head, tail, spc, rec>> /\ Used = 0 /\ Used' = Used
      /\ wpc = "take" /\ wpc' # "free" /\ staging' = Stored(tail, Least(Used, Staging))
  BY DEF Typed, Used
<1>2. Least(Used, Staging) = 0 /\ tail \in Int
  BY <1>1, LeastUsed, UnreadSeq
<1>3. Stored(tail, 0) = <<>>
  BY DEF Stored
<1>4. Unread = <<>> /\ Unread' = <<>>
  BY <1>1, <1>2 DEF Unread, Stored
<1>5. spc = "publish" => Fits(rec.len)' /\ Stored(head, rec.len)' = Bytes(rec)'
  BY <1>1 DEF RingKept, Fits, Stored, Bytes
<1>q. QED
  BY <1>1, <1>2, <1>3, <1>4, <1>5 DEF RingKept

\* A step that leaves the ring alone leaves what is in it alone.
LEMMA RingAlone ==
  ASSUME RingKept, UNCHANGED <<cells, head, tail, staging>>, (wpc' = "free") <=> (wpc = "free"),
         spc' = "publish" => spc = "publish" /\ rec' = rec
  PROVE  RingKept' /\ Unread' = Unread
<1>1. Used' = Used
  BY DEF Used
<1>2. Unread' = Unread
  BY <1>1 DEF Unread, Stored
<1>3. spc' = "publish" => Fits(rec.len)' /\ Stored(head, rec.len)' = Bytes(rec)'
  BY <1>1 DEF RingKept, Fits, Stored, Bytes
<1>4. Stored(tail, Len(staging))' = Stored(tail, Len(staging))
  BY DEF Stored
<1>q. QED
  BY <1>1, <1>2, <1>3, <1>4 DEF RingKept

\* Nothing but a published record and a take changes what the ring has for the writer.
LEMMA RingSame ==
  ASSUME Typed, RingKept, [Next]_vars, ~PublishHead, ~TakeBytes
  PROVE  RingKept' /\ Unread' = Unread
<1> USE RingAlone DEF ring, sampler, writer, files, inputs, history
<1>1. CASE BeginPass
  BY <1>1 DEF BeginPass
<1>2. CASE PushLap
  BY <1>2 DEF PushLap
<1>3. CASE EndPass
  BY <1>3 DEF EndPass
<1>4. CASE PushBytes
  BY <1>4, PushBytesKeeps
<1>5. CASE DropRecord
  BY <1>5 DEF DropRecord, Sampled
<1>6. CASE TakeNothing
  BY <1>6, TakeNothingKeeps
<1>7. CASE PublishTail
  BY <1>7, PublishTailKeeps
<1>8. CASE AppendBytes
  BY <1>8 DEF AppendBytes
<1>9. CASE OpenSession
  BY <1>9 DEF OpenSession
<1>10. CASE CreateFile
  BY <1>10 DEF CreateFile
<1>11. CASE BeginRecording
  BY <1>11 DEF BeginRecording
<1>12. CASE Flush
  BY <1>12 DEF Flush
<1>13. CASE CloseSession
  BY <1>13 DEF CloseSession
<1>14. CASE Finish
  BY <1>14 DEF Finish
<1>15. CASE Halt
  BY <1>15 DEF Halt
<1>16. CASE EndHalt
  BY <1>16 DEF EndHalt
<1>17. CASE Mount
  BY <1>17 DEF Mount
<1>18. CASE BusChanges
  BY <1>18 DEF BusChanges
<1>19. CASE EnterWorkshop
  BY <1>19 DEF EnterWorkshop
<1>20. CASE UNCHANGED vars
  BY <1>20 DEF vars
<1>q. QED
  BY <1>1, <1>2, <1>3, <1>4, <1>5, <1>6, <1>7, <1>8, <1>9, <1>10, <1>11, <1>12, <1>13, <1>14,
     <1>15, <1>16, <1>17, <1>18, <1>19, <1>20 DEF Next, Sampler, Writer

\* The ring keeps what is in it, whatever step is taken.
LEMMA RingStep == Typed /\ RingKept /\ [Next]_vars => RingKept'
BY RingSame, PublishHeadAdds, TakeBytesParts

\* Only a take fills the staging buffer.
LEMMA StagingSame ==
  ASSUME [Next]_vars, ~TakeBytes, ~TakeNothing
  PROVE  staging' = staging
BY DEF Next, Sampler, Writer, BeginPass, PushLap, EndPass, PushBytes, PublishHead, DropRecord,
     Sampled,
       PublishTail, AppendBytes, OpenSession, CreateFile, BeginRecording, Flush, CloseSession,
            Finish,
       Halt, EndHalt, Mount, BusChanges, EnterWorkshop, vars, writer

\* A ring that was never used is empty.
LEMMA Starting == Init => Typed /\ Sessions /\ RingKept /\ Unread = <<>> /\ staging = <<>>
<1> SUFFICES ASSUME Init PROVE Typed /\ Sessions /\ RingKept /\ Unread = <<>> /\ staging = <<>>
  OBVIOUS
<1> USE DEF Init
<1>1. RingTyped
  <2>1. <<NoRecord, 0>> \in Piece
    BY DEF Piece
  <2>q. QED
    BY <2>1, RingFacts DEF RingTyped
<1>2. <<>> \in Seq(Piece) /\ ended \in Int
  BY DEF NotEnded
<1>3. Typed
  <2>1. staging \in Seq(Piece) /\ file \in Seq(Piece)
    BY <1>2
  <2>2. era \in 0..MaxSessions /\ count \in 0..MaxRecords
    BY BoundsAssumption
  <2>q. QED
    BY <1>1, <1>2, <2>1, <2>2 DEF Typed, Pushing
<1>4. Sessions
  BY DEF Sessions, Active, Opening, Discarding
<1>5. Used = 0
  <2>1. (Wrap * 0 + 0) % Wrap = 0
    BY RingFacts, Remainder
  <2>2. Wrap * 0 + 0 = 0 - 0
    BY RingFacts
  <2>q. QED
    BY <2>1, <2>2 DEF Used
<1>6. RingKept
  BY <1>5, RingFacts DEF RingKept
<1>7. Unread = <<>>
  BY <1>5 DEF Unread, Stored
<1>q. QED
  BY <1>3, <1>4, <1>6, <1>7

\* Each step of the two tasks is a push, a take or nothing to the queue.
LEMMA QueueStep == Typed /\ RingKept /\ [Next]_vars => [Queue!Next]_<<Unread, staging>>
<1> SUFFICES ASSUME Typed, RingKept, [Next]_vars PROVE [Queue!Next]_<<Unread, staging>>
  OBVIOUS
<1>1. CASE PublishHead
  <2>1. /\ Unread' = Unread \o Bytes(rec) /\ Len(Unread) + Len(Bytes(rec)) <= Cap
        /\ rec \in Record /\ staging' = staging
    BY <1>1, PublishHeadAdds DEF PublishHead, Sampled, writer
  <2>2. Bytes(rec) \in AllRecords
    BY <2>1 DEF AllRecords, Record
  <2>3. Queue!Push(Bytes(rec))
    BY <2>1 DEF Queue!Push
  <2>q. QED
    BY <2>2, <2>3 DEF Queue!Next
<1>2. CASE TakeBytes
  <2> DEFINE n == Len(staging')
  <2>1. /\ n \in 0..Staging /\ n <= Len(Unread) /\ staging' = SubSeq(Unread, 1, n)
        /\ Unread' = SubSeq(Unread, n + 1, Len(Unread))
    BY <1>2, TakeBytesParts
  <2>2. Queue!Take(n)
    BY <2>1 DEF Queue!Take
  <2>q. QED
    BY <2>1, <2>2 DEF Queue!Next
<1>3. CASE TakeNothing
  <2>1. Unread = <<>> /\ Unread' = <<>> /\ staging' = <<>>
    BY <1>3, TakeNothingKeeps
  <2>2. Len(<<>>) = 0 /\ SubSeq(<<>>, 1, 0) = <<>>
    OBVIOUS
  <2>3. Queue!Take(0)
    BY <2>1, <2>2 DEF Queue!Take
  <2>q. QED
    BY <2>3, RingFacts DEF Queue!Next
<1>4. CASE ~PublishHead /\ ~TakeBytes /\ ~TakeNothing
  BY <1>4, RingSame, StagingSame
<1>q. QED
  BY <1>1, <1>2, <1>3, <1>4

\* The ring is a queue of bytes that takes a record whole or not at all and gives the bytes out
\* in order, though it stores around the end of its storage, its counters wrap, and neither a
\* push nor a take is one step (Ring::push, Ring::pop_into).
THEOREM RingIsQueue == Spec => ImplementsQueue
<1> DEFINE Inv == Typed /\ Sessions /\ RingKept
<1>1. Init => Inv
  BY Starting
<1>2. Inv /\ [Next]_vars => Inv'
  BY TypeStep, SessionStep, RingStep
<1>3. Init => Queue!Init
  BY Starting DEF Queue!Init
<1>4. Inv /\ [Next]_vars => [Queue!Next]_<<Unread, staging>>
  BY QueueStep
<1>q. QED
  BY <1>1, <1>2, <1>3, <1>4, PTL DEF Spec, ImplementsQueue, Queue!Spec
-----------------------------------------------------------------------------
(* Bytes in a row. *)

\* No bytes.
LEMMA OfNothing == Chained(<<>>) /\ Starts(<<>>) /\ Ends(<<>>) /\ RecordsIn(<<>>) = {}
BY DEF Chained, Starts, Ends, RecordsIn

\* Two runs of bytes make one if the second may follow the first.
LEMMA ChainJoined ==
  ASSUME NEW s \in Seq(Piece), NEW t \in Seq(Piece)
  PROVE  Chained(s \o t) <=>
           /\ Chained(s) /\ Chained(t)
           /\ s # <<>> /\ t # <<>> => Follows(s[Len(s)], t[1])
<1> DEFINE m == Len(s)
<1> DEFINE n == Len(t)
<1> DEFINE u == s \o t
<1>1. m \in Nat /\ n \in Nat /\ (s # <<>> <=> m > 0) /\ (t # <<>> <=> n > 0)
  BY LenProperties, EmptySeq
<1>2. /\ Len(u) = m + n
      /\ \A i \in 1..m + n : u[i] = IF i <= m THEN s[i] ELSE t[i - m]
  BY ConcatProperties
<1> HIDE DEF m, n, u
<1>3. \A k \in 1..m - 1 : u[k] = s[k] /\ u[k + 1] = s[k + 1] /\ k \in 1..m + n - 1
  BY <1>1, <1>2
<1>4. \A k \in 1..n - 1 : u[m + k] = t[k] /\ u[(m + k) + 1] = t[k + 1] /\ m + k \in 1..m + n - 1
  <2> TAKE k \in 1..n - 1
  <2>1. /\ m + k \in 1..m + n /\ ~(m + k <= m) /\ (m + k) - m = k
        /\ (m + k) + 1 \in 1..m + n /\ ~((m + k) + 1 <= m) /\ ((m + k) + 1) - m = k + 1
        /\ m + k \in 1..m + n - 1
    BY <1>1
  <2>q. QED
    BY <1>2, <2>1
<1>5. m > 0 /\ n > 0 => u[m] = s[m] /\ u[m + 1] = t[1] /\ m \in 1..m + n - 1
  <2> HAVE m > 0 /\ n > 0
  <2>1. m \in 1..m + n /\ m + 1 \in 1..m + n /\ (m + 1) - m = 1 /\ ~(m + 1 <= m)
    BY <1>1
  <2>q. QED
    BY <1>1, <1>2, <2>1
<1>6. ASSUME Chained(u)
      PROVE  Chained(s) /\ Chained(t) /\ (m > 0 /\ n > 0 => Follows(s[m], t[1]))
  <2>1. \A k \in 1..m + n - 1 : Follows(u[k], u[k + 1])
    BY <1>1, <1>2, <1>6 DEF Chained
  <2>2. \A k \in 1..m - 1 : Follows(s[k], s[k + 1])
    BY <1>3, <2>1
  <2>3. \A k \in 1..n - 1 : Follows(t[k], t[k + 1])
    BY <1>4, <2>1
  <2>q. QED
    BY <1>5, <2>1, <2>2, <2>3 DEF Chained, m, n
<1>7. ASSUME Chained(s), Chained(t), m > 0 /\ n > 0 => Follows(s[m], t[1])
      PROVE  Chained(u)
  <2>1. \A k \in 1..m - 1 : Follows(s[k], s[k + 1])
    BY <1>7 DEF Chained, m
  <2>2. \A k \in 1..n - 1 : Follows(t[k], t[k + 1])
    BY <1>7 DEF Chained, n
  <2>3. ASSUME NEW k \in 1..m + n - 1 PROVE Follows(u[k], u[k + 1])
    <3>1. CASE k < m
      BY <1>1, <1>3, <2>1, <3>1
    <3>2. CASE k = m
      BY <1>1, <1>5, <1>7, <3>2
    <3>3. CASE k > m
      <4>1. k - m \in 1..n - 1 /\ m + (k - m) = k
        BY <1>1, <3>3
      <4>2. u[k] = t[k - m] /\ u[k + 1] = t[(k - m) + 1]
        BY <1>4, <4>1
      <4>q. QED
        BY <2>2, <4>1, <4>2
    <3>q. QED
      BY <1>1, <3>1, <3>2, <3>3
  <2>q. QED
    BY <1>1, <1>2, <2>3 DEF Chained
<1>q. QED
  BY <1>1, <1>6, <1>7 DEF m, n, u

\* The first byte is that of the first run, and the last that of the second.
LEMMA EndsJoined ==
  ASSUME NEW s \in Seq(Piece), NEW t \in Seq(Piece)
  PROVE  /\ s # <<>> => (Starts(s \o t) <=> Starts(s))
         /\ t # <<>> => (Ends(s \o t) <=> Ends(t))
         /\ s \o t # <<>> <=> s # <<>> \/ t # <<>>
<1> DEFINE m == Len(s)
<1> DEFINE n == Len(t)
<1> DEFINE u == s \o t
<1>1. m \in Nat /\ n \in Nat /\ (s # <<>> <=> m > 0) /\ (t # <<>> <=> n > 0)
  BY LenProperties, EmptySeq
<1>2. /\ Len(u) = m + n /\ u \in Seq(Piece)
      /\ \A i \in 1..m + n : u[i] = IF i <= m THEN s[i] ELSE t[i - m]
  BY ConcatProperties
<1>3. u # <<>> <=> m + n > 0
  BY <1>2, LenProperties, EmptySeq
<1> HIDE DEF m, n, u
<1>4. m > 0 => 1 \in 1..m + n /\ 1 <= m
  BY <1>1
<1>5. m > 0 => u[1] = s[1]
  BY <1>2, <1>4
<1>6. n > 0 => u[m + n] = t[n]
  <2> HAVE n > 0
  <2>1. m + n \in 1..m + n /\ ~(m + n <= m) /\ (m + n) - m = n
    BY <1>1
  <2>q. QED
    BY <1>2, <2>1
<1>7. s # <<>> => (Starts(u) <=> Starts(s))
  BY <1>1, <1>3, <1>5 DEF Starts
<1>8. t # <<>> => (Ends(u) <=> Ends(t))
  BY <1>1, <1>2, <1>3, <1>6 DEF Ends, m, n
<1>9. u # <<>> <=> s # <<>> \/ t # <<>>
  BY <1>1, <1>3
<1>q. QED
  BY <1>7, <1>8, <1>9 DEF u

\* The records of two runs of bytes.
LEMMA RecordsJoined ==
  ASSUME NEW s \in Seq(Piece), NEW t \in Seq(Piece)
  PROVE  RecordsIn(s \o t) = RecordsIn(s) \union RecordsIn(t)
<1> DEFINE m == Len(s)
<1> DEFINE n == Len(t)
<1> DEFINE u == s \o t
<1>1. m \in Nat /\ n \in Nat
  BY LenProperties
<1>2. /\ Len(u) = m + n
      /\ \A i \in 1..m + n : u[i] = IF i <= m THEN s[i] ELSE t[i - m]
  BY ConcatProperties
<1> HIDE DEF m, n, u
<1>3. \A k \in 1..m : k \in 1..m + n /\ u[k] = s[k]
  BY <1>1, <1>2
<1>4. \A k \in 1..n : m + k \in 1..m + n /\ u[m + k] = t[k]
  <2> TAKE k \in 1..n
  <2>1. m + k \in 1..m + n /\ ~(m + k <= m) /\ (m + k) - m = k
    BY <1>1
  <2>q. QED
    BY <1>2, <2>1
<1>5. \A k \in 1..m + n : k \in 1..m \/ (k - m \in 1..n /\ m + (k - m) = k)
  BY <1>1
<1>6. ASSUME NEW r \in RecordsIn(u) PROVE r \in RecordsIn(s) \union RecordsIn(t)
  <2>1. PICK k \in 1..m + n : r = u[k][1]
    BY <1>2 DEF RecordsIn
  <2>2. CASE k \in 1..m
    BY <1>3, <2>1, <2>2 DEF RecordsIn, m
  <2>3. CASE k - m \in 1..n /\ m + (k - m) = k
    <3>1. u[k] = t[k - m]
      BY <1>4, <2>3
    <3>q. QED
      BY <2>1, <2>3, <3>1 DEF RecordsIn, n
  <2>q. QED
    BY <1>5, <2>2, <2>3
<1>7. RecordsIn(s) \subseteq RecordsIn(u)
  BY <1>2, <1>3 DEF RecordsIn, m
<1>8. RecordsIn(t) \subseteq RecordsIn(u)
  BY <1>2, <1>4 DEF RecordsIn, n
<1>9. RecordsIn(u) = RecordsIn(s) \union RecordsIn(t)
  BY <1>6, <1>7, <1>8
<1>q. QED
  BY <1>9 DEF u

\* The bytes of a record are its own, from the first to the last.
LEMMA RecordBytes ==
  ASSUME NEW r \in Record
  PROVE  /\ Bytes(r) \in Seq(Piece) /\ Bytes(r) # <<>> /\ Bytes(r)[1] = <<r, 1>>
         /\ Chained(Bytes(r)) /\ Starts(Bytes(r)) /\ Ends(Bytes(r)) /\ RecordsIn(Bytes(r)) = {r}
<1> DEFINE b == Bytes(r)
<1> DEFINE n == r.len
<1>1. n \in Nat /\ n >= 1
  BY RingFacts DEF Record
<1>2. b = [k \in 1..n |-> <<r, k>>]
  BY DEF Bytes
<1> HIDE DEF b
<1>3. \A k \in 1..n : <<r, k>> \in Piece
  BY <1>1 DEF Piece
<1>4. b \in Seq(Piece) /\ Len(b) = n
  BY <1>1, <1>2, <1>3
<1>5. b # <<>> /\ 1 \in 1..n /\ n \in 1..n
  BY <1>1, <1>4, EmptySeq
<1>6. b[1] = <<r, 1>> /\ b[n] = <<r, n>>
  BY <1>2, <1>5
<1>7. Chained(b)
  <2>1. ASSUME NEW k \in 1..n - 1 PROVE Follows(b[k], b[k + 1])
    <3>1. k \in 1..n /\ k + 1 \in 1..n /\ (k + 1) - 1 = k
      BY <1>1
    <3>2. b[k] = <<r, k>> /\ b[k + 1] = <<r, k + 1>>
      BY <1>2, <3>1
    <3>q. QED
      BY <3>1, <3>2 DEF Follows
  <2>q. QED
    BY <1>4, <2>1 DEF Chained
<1>8. Starts(b) /\ Ends(b)
  BY <1>4, <1>6 DEF Starts, Ends
<1>9. RecordsIn(b) = {r}
  BY <1>2, <1>4, <1>5 DEF RecordsIn
<1>q. QED
  BY <1>4, <1>5, <1>6, <1>7, <1>8, <1>9 DEF b

\* Three runs of bytes.
LEMMA JoinedAlike ==
  ASSUME NEW s \in Seq(Piece), NEW t \in Seq(Piece), NEW u \in Seq(Piece)
  PROVE  (s \o t) \o u = s \o (t \o u)
BY ConcatAssociative

\* A part from the front ...
LEMMA FrontOfChain ==
  ASSUME NEW s \in Seq(Piece), NEW t \in Seq(Piece), Chained(s \o t), Starts(s \o t)
  PROVE  Chained(s) /\ Starts(s)
<1>1. Chained(s)
  BY ChainJoined
<1>2. CASE s = <<>>
  BY <1>1, <1>2, OfNothing
<1>3. CASE s # <<>>
  BY <1>1, <1>3, EndsJoined
<1>q. QED
  BY <1>2, <1>3

\* ... and one from the back.
LEMMA BackOfChain ==
  ASSUME NEW s \in Seq(Piece), NEW t \in Seq(Piece), Chained(s \o t), Ends(s \o t)
  PROVE  Chained(t) /\ Ends(t)
<1>1. Chained(t)
  BY ChainJoined
<1>2. CASE t = <<>>
  BY <1>1, <1>2, OfNothing
<1>3. CASE t # <<>>
  BY <1>1, <1>3, EndsJoined
<1>q. QED
  BY <1>2, <1>3

\* A record with a number of its own can come behind whole records.
LEMMA RecordJoins ==
  ASSUME NEW s \in Seq(Piece), NEW r \in Record, Chained(s), Ends(s),
         \A q \in RecordsIn(s) : q.id < r.id
  PROVE  /\ Chained(s \o Bytes(r)) /\ Ends(s \o Bytes(r))
         /\ Starts(s) => Starts(s \o Bytes(r))
<1> DEFINE b == Bytes(r)
<1>1. /\ b \in Seq(Piece) /\ b # <<>> /\ b[1] = <<r, 1>> /\ Chained(b) /\ Starts(b) /\ Ends(b)
  BY RecordBytes
<1> HIDE DEF b
<1>2. s # <<>> => Follows(s[Len(s)], b[1])
  <2> HAVE s # <<>>
  <2>1. Len(s) \in 1..Len(s)
    BY EmptySeq
  <2>2. s[Len(s)][1] \in RecordsIn(s)
    BY <2>1 DEF RecordsIn
  <2>q. QED
    BY <1>1, <2>2 DEF Follows, Ends
<1>3. Chained(s \o b)
  BY <1>1, <1>2, ChainJoined
<1>4. Ends(s \o b)
  BY <1>1, EndsJoined
<1>5. Starts(s) => Starts(s \o b)
  <2>1. CASE s = <<>>
    <3>1. s \o b = b
      BY <1>1, <2>1, ConcatEmptySeq
    <3>q. QED
      BY <1>1, <3>1
  <2>2. CASE s # <<>>
    BY <1>1, <2>2, EndsJoined
  <2>q. QED
    BY <2>1, <2>2
<1>q. QED
  BY <1>3, <1>4, <1>5 DEF b
-----------------------------------------------------------------------------
(* What the steps do to the log. *)

\* What is in the file and on its way to it are bytes of records.
LEMMA StreamTyped ==
  ASSUME Typed, RingKept
  PROVE  /\ Taken \in Seq(Piece) /\ Unread \in Seq(Piece) /\ Pending \in Seq(Piece)
         /\ file \in Seq(Piece) /\ staging \in Seq(Piece) /\ Stream \in Seq(Piece)
<1>1. Unread \in Seq(Piece) /\ file \in Seq(Piece) /\ staging \in Seq(Piece)
  BY UnreadSeq DEF Typed
<1>2. Taken \in Seq(Piece)
  BY <1>1, EmptySeq DEF Taken
<1>3. Pending \in Seq(Piece)
  BY <1>1, <1>2, ConcatProperties DEF Pending
<1>4. Stream \in Seq(Piece)
  BY <1>1, <1>3, ConcatProperties DEF Stream
<1>q. QED
  BY <1>1, <1>2, <1>3, <1>4

\* A published record comes last.
LEMMA PublishHeadLogs ==
  ASSUME Typed, RingKept, PublishHead
  PROVE  /\ rec \in Record /\ UNCHANGED <<file, wpc, ended>>
         /\ Pending' = Pending \o Bytes(rec) /\ Stream' = Stream \o Bytes(rec)
<1>1. /\ Unread' = Unread \o Bytes(rec) /\ rec \in Record
      /\ Bytes(rec) \in Seq(Piece)
  BY PublishHeadAdds, RecordBytes
<1>2. UNCHANGED <<file, wpc, ended, staging>>
  BY DEF PublishHead, Sampled, writer, files
<1>3. Pending' = Taken \o (Unread \o Bytes(rec))
  BY <1>1, <1>2 DEF Pending, Taken
<1>4. Pending' = Pending \o Bytes(rec)
  <2>1. Taken \in Seq(Piece) /\ Unread \in Seq(Piece) /\ Bytes(rec) \in Seq(Piece)
    BY <1>1, StreamTyped
  <2>2. (Taken \o Unread) \o Bytes(rec) = Taken \o (Unread \o Bytes(rec))
    BY <2>1, JoinedAlike, Zenon
  <2>q. QED
    BY <1>3, <2>2 DEF Pending
<1>5. Stream' = file \o (Pending \o Bytes(rec))
  BY <1>2, <1>4 DEF Stream
<1>6. Stream' = Stream \o Bytes(rec)
  <2>1. (file \o Pending) \o Bytes(rec) = file \o (Pending \o Bytes(rec))
    <3>1. file \in Seq(Piece) /\ Pending \in Seq(Piece) /\ Bytes(rec) \in Seq(Piece)
      BY <1>1, StreamTyped
    <3>q. QED
      BY <3>1, JoinedAlike, Zenon
  <2>q. QED
    BY <1>5, <2>1 DEF Stream
<1>q. QED
  BY <1>1, <1>2, <1>4, <1>6

\* What is appended was pending: the log as it will be stays what it was.
LEMMA AppendBytesLogs ==
  ASSUME Typed, RingKept, AppendBytes, RingKept', Unread' = Unread
  PROVE  /\ Stream' = Stream /\ Stream = file' \o Unread /\ Pending' = Unread
         /\ Pending = staging \o Unread /\ file' = file \o staging /\ file' \in Seq(Piece)
<1>1. file' = file \o staging /\ wpc = "append" /\ wpc' = "take"
  BY DEF AppendBytes
<1>2. Taken = staging /\ Taken' = <<>>
  BY <1>1 DEF Taken
<1>3. Pending' = Unread
  BY <1>2, StreamTyped, ConcatEmptySeq DEF Pending
<1>4. Pending = staging \o Unread
  BY <1>2 DEF Pending
<1>5. Stream = file' \o Unread
  <2>1. file \in Seq(Piece) /\ staging \in Seq(Piece) /\ Unread \in Seq(Piece)
    BY StreamTyped
  <2>2. (file \o staging) \o Unread = file \o (staging \o Unread)
    BY <2>1, JoinedAlike, Zenon
  <2>q. QED
    BY <1>1, <1>4, <2>2 DEF Stream
<1>6. Stream' = file' \o Unread
  BY <1>3 DEF Stream
<1>7. file' \in Seq(Piece)
  BY <1>1, StreamTyped, ConcatProperties
<1>q. QED
  BY <1>1, <1>3, <1>4, <1>5, <1>6, <1>7

\* A write that fails may have got a part through.
LEMMA HaltLogs ==
  ASSUME Typed, RingKept, Halt, Unread' = Unread
  PROVE  /\ Pending' = Unread /\ Pending = Taken \o Unread
         /\ \E rest \in Seq(Piece) : file' \in Seq(Piece) /\ Stream = file' \o rest
<1>1. PICK n \in 0..(IF wpc = "append" THEN Len(staging) ELSE 0) :
        file' = file \o SubSeq(staging, 1, n)
  BY DEF Halt
<1>2. Taken' = <<>> /\ wpc # "free" /\ wpc' = "tick"
  BY DEF Taken, Halt
<1>3. Pending' = Unread
  BY <1>2, StreamTyped, ConcatEmptySeq DEF Pending
<1>4. PICK cut \in Seq(Piece), back \in Seq(Piece) : Taken = cut \o back /\ file' = file \o cut
  <2>1. CASE wpc = "append"
    <3>1. n \in 0..Len(staging) /\ Taken = staging /\ Len(staging) \in Nat
      BY <1>1, <2>1, StreamTyped, LenProperties DEF Taken
    <3>2. \A i \in 1..Len(staging) : staging[i] \in Piece
      BY StreamTyped
    <3>3. SubSeq(staging, 1, n) \in Seq(Piece)
      BY <3>1, <3>2, SubSeqProperties
    <3>4. SubSeq(staging, n + 1, Len(staging)) \in Seq(Piece)
      BY <3>1, <3>2, SubSeqProperties
    <3>5. staging = SubSeq(staging, 1, n) \o SubSeq(staging, n + 1, Len(staging))
      <4> DEFINE a == SubSeq(staging, 1, n)
      <4> DEFINE b == SubSeq(staging, n + 1, Len(staging))
      <4> DEFINE m == Len(staging)
      <4>1. m \in Nat /\ n \in Nat /\ n <= m
        BY <3>1
      <4>2. \A i \in 1..n : staging[i] \in Piece
        BY <3>1, <3>2
      <4>3. a \in Seq(Piece) /\ Len(a) = n /\ \A i \in 1..n : a[i] = staging[i]
        BY <4>1, <4>2, SubSeqProperties
      <4>4. \A i \in n + 1..m : staging[i] \in Piece
        BY <3>1, <3>2
      <4>5. b \in Seq(Piece) /\ Len(b) = m - n /\ \A i \in 1..m - n : b[i] = staging[n + i]
        BY <4>1, <4>4, SubSeqProperties
      <4> HIDE DEF a, b
      <4>6. /\ a \o b \in Seq(Piece) /\ Len(a \o b) = m
            /\ \A i \in 1..m : (a \o b)[i] = IF i <= n THEN a[i] ELSE b[i - n]
        BY <4>1, <4>3, <4>5, ConcatProperties
      <4>7. \A i \in 1..m : (i <= n => i \in 1..n)
                            /\ (~(i <= n) => i - n \in 1..m - n /\ n + (i - n) = i)
        BY <4>1
      <4>8. \A i \in 1..m : staging[i] = (a \o b)[i]
        BY <4>3, <4>5, <4>6, <4>7
      <4>9. staging = a \o b
        BY <4>6, <4>8, StreamTyped, SeqEqual
      <4>q. QED
        BY <4>9 DEF a, b
    <3>q. QED
      BY <1>1, <3>1, <3>3, <3>4, <3>5
  <2>2. CASE wpc # "append"
    <3>1. n = 0 /\ Taken = <<>>
      BY <1>1, <1>2, <2>2 DEF Taken
    <3>2. SubSeq(staging, 1, 0) = <<>> /\ <<>> \in Seq(Piece) /\ <<>> \o <<>> = <<>>
      BY SubSeqEmpty, EmptySeq, ConcatEmptySeq
    <3>q. QED
      BY <1>1, <3>1, <3>2
  <2>q. QED
    BY <2>1, <2>2
<1>5. back \o Unread \in Seq(Piece) /\ file' \in Seq(Piece)
  <2>1. Unread \in Seq(Piece) /\ file \in Seq(Piece)
    BY StreamTyped
  <2>2. back \o Unread \in Seq(Piece) /\ file \o cut \in Seq(Piece)
    BY <2>1, ConcatProperties
  <2>q. QED
    BY <1>4, <2>2
<1>6. Stream = file' \o (back \o Unread)
  <2>1. (cut \o back) \o Unread = cut \o (back \o Unread)
    <3>1. Unread \in Seq(Piece)
      BY StreamTyped
    <3>q. QED
      BY <3>1, JoinedAlike, Zenon
  <2>2. file \in Seq(Piece) /\ back \o Unread \in Seq(Piece)
    BY <1>5, StreamTyped
  <2>3. (file \o cut) \o (back \o Unread) = file \o (cut \o (back \o Unread))
    BY <2>2, JoinedAlike, Zenon
  <2>q. QED
    BY <1>4, <2>1, <2>3 DEF Stream, Pending
<1>q. QED
  BY <1>3, <1>5, <1>6 DEF Pending

\* Bytes that are discarded come first.
LEMMA DiscardLogs ==
  ASSUME Typed, RingKept, PublishTail, job = "discard", Unread' = Unread
  PROVE  file' = file /\ Pending' = Unread /\ Pending = staging \o Unread
<1>1. Taken' = <<>> /\ Taken = staging /\ file' = file
  BY DEF Taken, PublishTail, files
<1>2. Pending' = Unread
  BY <1>1, StreamTyped, ConcatEmptySeq DEF Pending
<1>q. QED
  BY <1>1, <1>2 DEF Pending

\* A take moves bytes and loses none.
LEMMA TakeBytesLogs ==
  ASSUME Typed, RingKept, TakeBytes
  PROVE  file' = file /\ Pending' = Pending
<1>1. Taken = <<>> /\ Taken' = staging' /\ file' = file
  BY DEF Taken, TakeBytes, Taking, files
<1>2. Pending' = Unread
  BY <1>1, TakeBytesParts DEF Pending
<1>3. Pending = Unread
  BY <1>1, StreamTyped, ConcatEmptySeq DEF Pending
<1>q. QED
  BY <1>1, <1>2, <1>3

\* A take that finds nothing, with nothing on its way.
LEMMA TakeNothingLogs ==
  ASSUME Typed, RingKept, TakeNothing
  PROVE  /\ file' = file /\ Pending' = Pending /\ Pending = <<>> /\ Stream = file
         /\ Unread' = <<>> /\ Stream' = file
<1>1. Unread = <<>> /\ Unread' = <<>> /\ staging' = <<>>
  BY TakeNothingKeeps
<1>2. Taken = <<>> /\ file' = file
  BY DEF Taken, TakeNothing, Taking, files
<1>3. Taken' = <<>>
  BY <1>1 DEF Taken
<1>4. <<>> \o <<>> = <<>> /\ file \o <<>> = file
  BY StreamTyped, ConcatEmptySeq
<1>5. Pending = <<>> /\ Pending' = <<>>
  BY <1>1, <1>2, <1>3, <1>4 DEF Pending
<1>q. QED
  BY <1>1, <1>2, <1>4, <1>5 DEF Stream

\* Every other step leaves what is in the file and what is to come to it.
LEMMA LogSame ==
  ASSUME Typed, Sessions, RingKept, [Next]_vars, ~PublishHead, ~AppendBytes, ~OpenSession, ~Halt,
         ~(PublishTail /\ job = "discard")
  PROVE  file' = file /\ Pending' = Pending
<1>1. CASE TakeBytes
  BY <1>1, TakeBytesLogs
<1>2. CASE TakeNothing
  BY <1>2, TakeNothingLogs
<1>3. CASE ~TakeBytes /\ ~TakeNothing
  <2>1. Unread' = Unread /\ staging' = staging
    BY <1>3, RingSame, StagingSame
  <2>2. file' = file /\ (wpc' \in {"free", "append"} <=> wpc \in {"free", "append"})
    BY <1>3 DEF Next, Sampler, Writer, BeginPass, PushLap, EndPass, PushBytes, DropRecord, Sampled,
         PublishTail, CreateFile, BeginRecording, Flush, CloseSession, Finish,
         EndHalt, Mount, BusChanges, EnterWorkshop, vars, writer, files
  <2>q. QED
    BY <2>1, <2>2 DEF Pending, Taken
<1>q. QED
  BY <1>1, <1>2, <1>3
-----------------------------------------------------------------------------
(* Whole records. *)

\* A session logs from the step that finds the ring empty after it was opened.
LEMMA Activates ==
  ASSUME Typed, Sessions, [Next]_vars, Active', ~Active
  PROVE  TakeNothing /\ job = "discard" /\ file = <<>>
BY DEF Active, Opening, Sessions, Discarding, Typed, Next, Sampler, Writer, BeginPass, PushLap,
     EndPass,
       PushBytes, PublishHead, DropRecord, Sampled, TakeBytes, TakeNothing, Taking, PublishTail,
            AppendBytes,
       OpenSession, CreateFile, BeginRecording, Flush, CloseSession, Finish, Halt, EndHalt, Mount,
       BusChanges, EnterWorkshop, vars, writer

\* And its file is finished from the step that finds it empty after recording ended.
LEMMA Finishes ==
  ASSUME Typed, Sessions, [Next]_vars, wpc' = "finish" \/ ended' # NotEnded
  PROVE  /\ ~AppendBytes /\ ~OpenSession /\ ~Halt
         /\ wpc = "finish" \/ ended # NotEnded \/ (TakeNothing /\ Active)
<1> USE DEF Active, Opening, Sessions, Discarding, Typed, writer, files
<1>1. ~AppendBytes
  BY DEF AppendBytes
<1>2. ~OpenSession
  BY DEF OpenSession
<1>3. ~Halt
  BY DEF Halt
<1>4. CASE TakeNothing
  BY <1>1, <1>2, <1>3, <1>4 DEF TakeNothing, Taking
<1>5. CASE Finish
  BY <1>1, <1>2, <1>3, <1>5 DEF Finish
<1>6. CASE ~TakeNothing /\ ~Finish
  BY <1>1, <1>2, <1>3, <1>6 DEF Next, Sampler, Writer, BeginPass, PushLap, EndPass,
       PushBytes, PublishHead, DropRecord, Sampled, TakeBytes, Taking, PublishTail,
       CreateFile, BeginRecording, Flush, CloseSession, EndHalt, Mount,
       BusChanges, EnterWorkshop, vars
<1>q. QED
  BY <1>1, <1>2, <1>3, <1>4, <1>5, <1>6

\* Records are numbered as they are made, and the sampler makes one at a time.
LEMMA Numbers ==
  ASSUME Typed, [Next]_vars
  PROVE  /\ Last \in Int /\ Last' \in Int /\ Last <= Last'
         /\ PublishHead => rec.id = Last' /\ Last < rec.id
<1> USE DEF Last, Pushing, Typed, sampler
<1>1. CASE BeginPass
  BY <1>1 DEF BeginPass, NewRecord, PublishHead
<1>2. CASE PushLap
  BY <1>2 DEF PushLap, NewRecord, PublishHead
<1>3. CASE EndPass
  BY <1>3 DEF EndPass, PublishHead
<1>4. CASE PushBytes
  BY <1>4 DEF PushBytes, PublishHead
<1>5. CASE PublishHead
  BY <1>5 DEF PublishHead, Sampled
<1>6. CASE DropRecord
  BY <1>6 DEF DropRecord, Sampled, PublishHead
<1>7. CASE UNCHANGED sampler
  BY <1>7 DEF PublishHead, Sampled
<1>q. QED
  BY <1>1, <1>2, <1>3, <1>4, <1>5, <1>6, <1>7 DEF Next, Sampler, Writer, TakeBytes, TakeNothing,
       Taking,
       PublishTail, AppendBytes, OpenSession, CreateFile, BeginRecording, Flush, CloseSession,
            Finish,
       Halt, EndHalt, Mount, BusChanges, EnterWorkshop, vars

\* A published record is whole, and of a number that is not in the log.
LEMMA WholePublish ==
  ASSUME Typed, Sessions, RingKept, Whole, PublishHead, [Next]_vars
  PROVE  Whole'
<1> DEFINE b == Bytes(rec)
<1>1. /\ rec \in Record /\ UNCHANGED <<file, wpc, ended>>
      /\ Pending' = Pending \o b /\ Stream' = Stream \o b
  BY PublishHeadLogs
<1>2. b \in Seq(Piece) /\ RecordsIn(b) = {rec}
  BY <1>1, RecordBytes
<1>3. Pending \in Seq(Piece) /\ file \in Seq(Piece) /\ Stream \in Seq(Piece)
  BY StreamTyped
<1> HIDE DEF b
<1>4. RecordsIn(Stream) = RecordsIn(file) \union RecordsIn(Pending)
  BY <1>3, RecordsJoined DEF Stream
<1>5. \A q \in RecordsIn(Stream) : q.id <= Last
  BY <1>4 DEF Whole
<1>n. \A r \in RecordsIn(Stream) : r.id \in Int
  <2>1. \A k \in 1..Len(Stream) : Stream[k] \in Piece
    BY <1>3
  <2>2. \A p \in Piece : p[1].id \in Int
    BY BoundsAssumption DEF Piece, Record, NoRecord
  <2>q. QED
    BY <2>1, <2>2 DEF RecordsIn
<1>6. /\ Last \in Int /\ Last' \in Int /\ Last <= Last' /\ rec.id = Last' /\ Last < rec.id
  BY Numbers
<1>7. \A q \in RecordsIn(Stream) : q.id < rec.id
  BY <1>5, <1>n, <1>6
<1>8. Chained(Pending') /\ Ends(Pending')
  BY <1>1, <1>3, <1>4, <1>7, RecordJoins DEF Whole, b
<1>9. Active' => Chained(Stream') /\ Starts(Stream') /\ Ends(Stream')
  <2> HAVE Active'
  <2>1. Active
    BY Activates DEF TakeNothing, PublishHead, Taking, Sampled, Typed, writer
  <2>q. QED
    BY <1>1, <1>3, <1>7, <2>1, RecordJoins DEF Whole, b
<1>10. RecordsIn(Pending') = RecordsIn(Pending) \union {rec}
  BY <1>1, <1>2, <1>3, RecordsJoined
<1>11. \A r \in RecordsIn(file') \union RecordsIn(Pending') : r.id <= Last'
  <2> TAKE r \in RecordsIn(file') \union RecordsIn(Pending')
  <2>1. r \in RecordsIn(Stream) \/ r = rec
    BY <1>1, <1>4, <1>10
  <2>q. QED
    BY <1>5, <1>6, <1>n, <2>1
<1>q. QED
  BY <1>1, <1>8, <1>9, <1>11 DEF Whole

\* Numbers only grow, so bytes that are gone do not matter.
LEMMA LastGrows ==
  ASSUME Typed, RingKept, [Next]_vars, \A r \in RecordsIn(file) \union RecordsIn(Pending) : r.id
       <= Last,
         RecordsIn(file)' \union RecordsIn(Pending)' \subseteq RecordsIn(file) \union
              RecordsIn(Pending)
  PROVE  (\A r \in RecordsIn(file) \union RecordsIn(Pending) : r.id <= Last)'
<1>1. Last \in Int /\ Last' \in Int /\ Last <= Last'
  BY Numbers
<1>2. \A p \in Piece : p[1].id \in Int
  BY BoundsAssumption DEF Piece, Record, NoRecord
<1>3. \A r \in RecordsIn(file) \union RecordsIn(Pending) : r.id \in Int
  BY <1>2, StreamTyped DEF RecordsIn
<1>q. QED
  BY <1>1, <1>3

\* The log is whole records whatever step is taken.
LEMMA WholeStep == Typed /\ Sessions /\ RingKept /\ Whole /\ [Next]_vars => Whole'
<1> SUFFICES ASSUME Typed, Sessions, RingKept, Whole, [Next]_vars PROVE Whole'
  OBVIOUS
<1>s. /\ Taken \in Seq(Piece) /\ Unread \in Seq(Piece) /\ Pending \in Seq(Piece)
      /\ file \in Seq(Piece) /\ staging \in Seq(Piece) /\ Stream \in Seq(Piece)
  BY StreamTyped
<1>t. RecordsIn(Stream) = RecordsIn(file) \union RecordsIn(Pending)
  BY <1>s, RecordsJoined DEF Stream
<1>n. RecordsIn(<<>>) = {} /\ Chained(<<>>) /\ Starts(<<>>) /\ Ends(<<>>)
  BY OfNothing
<1>1. CASE PublishHead
  BY <1>1, WholePublish
<1>2. CASE AppendBytes
  <2>1. RingKept' /\ Unread' = Unread
    BY <1>2, RingSame DEF AppendBytes, PublishHead, Sampled, TakeBytes, writer
  <2>2. /\ Stream' = Stream /\ Stream = file' \o Unread /\ Pending' = Unread
        /\ Pending = staging \o Unread /\ file' \in Seq(Piece)
    BY <1>2, <2>1, AppendBytesLogs
  <2>3. Chained(Stream) /\ Starts(Stream) /\ Ends(Stream)
    BY <1>2 DEF Whole, Active, AppendBytes
  <2>4. Chained(file') /\ Starts(file')
    BY <1>s, <2>2, <2>3, FrontOfChain
  <2>5. Chained(Pending') /\ Ends(Pending')
    BY <1>s, <2>2, BackOfChain DEF Whole
  <2>6. RecordsIn(file') \union RecordsIn(Pending') = RecordsIn(Stream)
    BY <1>s, <2>2, RecordsJoined
  <2>7. (\A r \in RecordsIn(file) \union RecordsIn(Pending) : r.id <= Last)'
    BY <1>t, <2>6, LastGrows DEF Whole
  <2>8. ~(wpc' = "finish" \/ ended' # NotEnded)
    BY <1>2, Finishes
  <2>q. QED
    BY <2>2, <2>3, <2>4, <2>5, <2>7, <2>8 DEF Whole
<1>3. CASE PublishTail /\ job = "discard"
  <2>1. Unread' = Unread
    BY <1>3, PublishTailKeeps
  <2>2. file' = file /\ Pending' = Unread /\ Pending = staging \o Unread
    BY <1>3, <2>1, DiscardLogs
  <2>3. Chained(Pending') /\ Ends(Pending')
    BY <1>s, <2>2, BackOfChain DEF Whole
  <2>4. ~Active'
    BY <1>3 DEF Active, Opening, PublishTail
  <2>5. RecordsIn(Pending') \subseteq RecordsIn(Pending)
    BY <1>s, <2>2, RecordsJoined
  <2>6. (\A r \in RecordsIn(file) \union RecordsIn(Pending) : r.id <= Last)'
    BY <2>2, <2>5, LastGrows DEF Whole
  <2>7. wpc' = "finish" \/ ended' # NotEnded => Ends(file')
    BY <1>3, <2>2 DEF Whole, PublishTail, files
  <2>q. QED
    BY <2>2, <2>3, <2>4, <2>6, <2>7 DEF Whole
<1>4. CASE OpenSession
  <2>1. Unread' = Unread
    BY <1>4, RingSame DEF OpenSession, PublishHead, Sampled, TakeBytes, writer
  <2>2. file' = <<>> /\ ~Active' /\ Taken' = <<>> /\ Taken = <<>> /\ wpc' # "finish" /\ ended' =
       NotEnded
    BY <1>4 DEF OpenSession, Active, Opening, Taken
  <2>3. Pending' = Pending
    BY <2>1, <2>2 DEF Pending
  <2>4. (\A r \in RecordsIn(file) \union RecordsIn(Pending) : r.id <= Last)'
    BY <1>n, <2>2, <2>3, LastGrows DEF Whole
  <2>q. QED
    BY <1>n, <2>2, <2>3, <2>4 DEF Whole
<1>5. CASE Halt
  <2>1. Unread' = Unread
    BY <1>5, RingSame DEF Halt, PublishHead, Sampled, TakeBytes, Taking, Typed, writer
  <2>2. Pending' = Unread /\ Pending = Taken \o Unread
    BY <1>5, <2>1, HaltLogs
  <2>3. PICK rest \in Seq(Piece) : file' \in Seq(Piece) /\ Stream = file' \o rest
    BY <1>5, <2>1, HaltLogs
  <2>4. Active /\ ~Active' /\ wpc' = "tick" /\ ended' = NotEnded
    BY <1>5 DEF Halt, Active, Opening, Sessions
  <2>5. Chained(file') /\ Starts(file')
    BY <1>s, <2>3, <2>4, FrontOfChain DEF Whole
  <2>6. Chained(Pending') /\ Ends(Pending')
    BY <1>s, <2>2, BackOfChain DEF Whole
  <2>7. RecordsIn(file') \subseteq RecordsIn(Stream) /\ RecordsIn(Pending') \subseteq
       RecordsIn(Pending)
    BY <1>s, <2>2, <2>3, RecordsJoined
  <2>8. (\A r \in RecordsIn(file) \union RecordsIn(Pending) : r.id <= Last)'
    BY <1>t, <2>7, LastGrows DEF Whole
  <2>q. QED
    BY <2>4, <2>5, <2>6, <2>8 DEF Whole
<1>6. CASE ~PublishHead /\ ~AppendBytes /\ ~(PublishTail /\ job = "discard") /\ ~OpenSession /\
     ~Halt
  <2>1. file' = file /\ Pending' = Pending /\ Stream' = Stream
    BY <1>6, LogSame DEF Stream
  <2>2. (\A r \in RecordsIn(file) \union RecordsIn(Pending) : r.id <= Last)'
    BY <2>1, LastGrows DEF Whole
  <2>3. Active' => Chained(Stream') /\ Starts(Stream') /\ Ends(Stream')
    <3>1. CASE Active
      BY <2>1, <3>1 DEF Whole
    <3>2. CASE Active' /\ ~Active
      <4>1. TakeNothing /\ file = <<>>
        BY <3>2, Activates
      <4>2. Stream' = <<>>
        BY <4>1, TakeNothingLogs
      <4>q. QED
        BY <1>n, <4>2
    <3>q. QED
      BY <3>1, <3>2
  <2>4. wpc' = "finish" \/ ended' # NotEnded => Ends(file')
    <3> HAVE wpc' = "finish" \/ ended' # NotEnded
    <3>1. CASE wpc = "finish" \/ ended # NotEnded
      BY <2>1, <3>1 DEF Whole
    <3>2. CASE TakeNothing /\ Active
      BY <2>1, <3>2, TakeNothingLogs DEF Whole
    <3>q. QED
      BY <3>1, <3>2, Finishes
  <2>q. QED
    BY <2>1, <2>2, <2>3, <2>4 DEF Whole
<1>q. QED
  BY <1>1, <1>2, <1>3, <1>4, <1>5, <1>6
-----------------------------------------------------------------------------
(* Passes that outlive their session. *)

\* While a session logs, its log grows by the records that are published.
LEMMA StreamActive ==
  ASSUME Typed, Sessions, RingKept, [Next]_vars, Active'
  PROVE  \/ ~Active /\ Stream' = <<>>
         \/ /\ Active /\ PublishHead /\ rec \in Record
            /\ RecordsIn(Stream') = RecordsIn(Stream) \union {rec}
         \/ Active /\ ~PublishHead /\ Stream' = Stream
<1>1. CASE ~Active
  <2>1. TakeNothing /\ file = <<>>
    BY <1>1, Activates
  <2>q. QED
    BY <1>1, <2>1, TakeNothingLogs
<1>2. CASE Active /\ PublishHead
  <2>1. rec \in Record /\ Stream' = Stream \o Bytes(rec)
    BY <1>2, PublishHeadLogs
  <2>2. Bytes(rec) \in Seq(Piece) /\ RecordsIn(Bytes(rec)) = {rec} /\ Stream \in Seq(Piece)
    BY <2>1, RecordBytes, StreamTyped
  <2>q. QED
    BY <1>2, <2>1, <2>2, RecordsJoined
<1>3. CASE Active /\ ~PublishHead
  <2>1. ~OpenSession /\ ~Halt /\ ~(PublishTail /\ job = "discard")
    BY DEF Active, Opening, OpenSession, Halt, PublishTail
  <2>2. CASE AppendBytes
    <3>1. RingKept' /\ Unread' = Unread
      BY <1>3, <2>2, RingSame DEF AppendBytes, TakeBytes
    <3>q. QED
      BY <1>3, <2>2, <3>1, AppendBytesLogs
  <2>3. CASE ~AppendBytes
    BY <1>3, <2>1, <2>3, LogSame DEF Stream
  <2>q. QED
    BY <1>3, <2>2, <2>3
<1>q. QED
  BY <1>1, <1>2, <1>3

\* The session that a log is of does not change under it.
LEMMA CurSame ==
  ASSUME Typed, Sessions, [Next]_vars, Active, Active'
  PROVE  Cur' = Cur
BY DEF Cur, Active, Opening, Sessions, Discarding, Typed, Next, Sampler, Writer, BeginPass,
     PushLap, EndPass,
       PushBytes, PublishHead, DropRecord, Sampled, TakeBytes, TakeNothing, Taking, PublishTail,
            AppendBytes,
       OpenSession, CreateFile, BeginRecording, Flush, CloseSession, Finish, Halt, EndHalt, Mount,
       BusChanges, EnterWorkshop, vars, writer

\* A new pass is of the session under way.
LEMMA PassIsOfNow ==
  ASSUME Typed, Sessions, [Next]_vars, Active, Active', Pushing', Old(rec)'
  PROVE  Pushing /\ rec' = rec /\ ~PublishHead
<1> USE DEF Pushing, sampler
<1>c. Cur' = Cur
  BY CurSame
<1>1. ~BeginPass
  <2> SUFFICES ASSUME BeginPass PROVE FALSE
    OBVIOUS
  <2>1. recording /\ rec'.era = era /\ era \in Int
    BY DEF BeginPass, NewRecord, Typed
  <2>2. Cur = era
    BY <2>1 DEF Cur, Sessions
  <2>q. QED
    BY <1>c, <2>1, <2>2 DEF Old
<1>2. ~PushLap
  <2> SUFFICES ASSUME PushLap PROVE FALSE
    OBVIOUS
  <2>1. rec'.lap
    BY DEF PushLap, NewRecord
  <2>q. QED
    BY <2>1 DEF Old
<1>3. ~EndPass /\ ~PublishHead /\ ~DropRecord
  BY DEF EndPass, PublishHead, DropRecord, Sampled, Typed
<1>q. QED
  BY <1>1, <1>2, <1>3 DEF Next, Sampler, Writer, PushBytes, TakeBytes, TakeNothing, Taking,
       PublishTail, AppendBytes, OpenSession, CreateFile, BeginRecording, Flush, CloseSession,
            Finish,
       Halt, EndHalt, Mount, BusChanges, EnterWorkshop, vars

\* At most one pass is of an earlier session, whatever step is taken.
LEMMA OneOldStep == Typed /\ Sessions /\ RingKept /\ OneOld /\ [Next]_vars => OneOld'
<1> SUFFICES ASSUME Typed, Sessions, RingKept, OneOld, [Next]_vars, Active'
             PROVE  /\ \A q, r \in RecordsIn(Stream)' : Old(q)' /\ Old(r)' => q = r
                    /\ Pushing' /\ Old(rec)' => \A r \in RecordsIn(Stream)' : ~Old(r)'
  BY DEF OneOld
<1>1. CASE ~Active /\ Stream' = <<>>
  <2>1. RecordsIn(Stream)' = {}
    BY <1>1, OfNothing
  <2>q. QED
    BY <2>1
<1>2. CASE Active /\ ~PublishHead /\ Stream' = Stream
  <2>1. Cur' = Cur
    BY <1>2, CurSame
  <2>2. RecordsIn(Stream)' = RecordsIn(Stream)
    BY <1>2
  <2>3. \A r : Old(r)' <=> Old(r)
    BY <2>1 DEF Old
  <2>4. \A q, r \in RecordsIn(Stream)' : Old(q)' /\ Old(r)' => q = r
    BY <1>2, <2>2, <2>3 DEF OneOld
  <2>5. ASSUME Pushing', Old(rec)' PROVE \A r \in RecordsIn(Stream)' : ~Old(r)'
    <3>1. Pushing /\ rec' = rec
      BY <1>2, <2>5, PassIsOfNow
    <3>2. Old(rec)
      BY <2>1, <2>5, <3>1 DEF Old
    <3>q. QED
      BY <1>2, <2>2, <2>3, <3>1, <3>2 DEF OneOld
  <2>q. QED
    BY <2>4, <2>5
<1>3. CASE /\ Active /\ PublishHead /\ rec \in Record
           /\ RecordsIn(Stream') = RecordsIn(Stream) \union {rec}
  <2>1. Cur' = Cur
    BY <1>3, CurSame
  <2>2. \A r : Old(r)' <=> Old(r)
    BY <2>1 DEF Old
  <2>3. Pushing /\ ~(Pushing' /\ Old(rec)')
    BY <1>3, PassIsOfNow DEF PublishHead, Pushing
  <2>4. ASSUME NEW q \in RecordsIn(Stream)', NEW r \in RecordsIn(Stream)', Old(q), Old(r)
        PROVE  q = r
    <3>1. q \in RecordsIn(Stream) \union {rec} /\ r \in RecordsIn(Stream) \union {rec}
      BY <1>3
    <3>q. QED
      BY <1>3, <2>3, <2>4, <3>1 DEF OneOld
  <2>q. QED
    BY <2>2, <2>3, <2>4
<1>q. QED
  BY <1>1, <1>2, <1>3, StreamActive
-----------------------------------------------------------------------------
(* Records that are lost. *)

\* A step that neither counts nor begins anything.
LEMMA CountedSame ==
  ASSUME Counted, UNCHANGED <<dropped, atOpen, sampled, era, file, ended, late>>,
         Discarding' \/ Opening' => Discarding \/ Opening,
         Opening' \/ wpc' = "finish" => (Opening \/ wpc = "finish") /\ Unread' = Unread,
         Active' /\ ~Opening' => Active /\ ~Opening /\ Stream' = Stream
  PROVE  Counted'
<1> SUFFICES ASSUME ~late' PROVE (/\ Discarding \/ Opening => dropped = atOpen
                                  /\ Opening \/ wpc = "finish" => Unread = <<>>
                                  /\ Active /\ ~Opening =>
                                       /\ IsFiniteSet(OwnIn(Stream))
                                       /\ Cardinality(OwnIn(Stream)) + (dropped - atOpen) = sampled
                                  /\ LossIsCounted)'
  BY DEF Counted
<1>1. Own' = Own
  BY DEF Own
<1>2. LossIsCounted'
  BY <1>1 DEF Counted, LossIsCounted
<1>3. ASSUME Active', ~Opening'
      PROVE  IsFiniteSet(OwnIn(Stream))'
             /\ (Cardinality(OwnIn(Stream)) + (dropped - atOpen) = sampled)'
  <2>1. OwnIn(Stream)' = OwnIn(Stream)
    BY <1>3 DEF OwnIn
  <2>q. QED
    BY <1>3, <2>1 DEF Counted
<1>q. QED
  BY <1>2, <1>3 DEF Counted

\* A record that is made is new to the log.
LEMMA RecordIsNew ==
  ASSUME Typed, RingKept, Whole, Pushing
  PROVE  rec \notin OwnIn(Stream)
<1>1. RecordsIn(Stream) = RecordsIn(file) \union RecordsIn(Pending)
  BY StreamTyped, RecordsJoined DEF Stream
<1>2. \A r \in RecordsIn(Stream) : r.id <= count - 1
  BY <1>1 DEF Whole, Last
<1>3. rec.id = count /\ count \in Int
  BY DEF Typed
<1>q. QED
  BY <1>2, <1>3 DEF OwnIn

\* A record that is counted, in the log or as dropped, while its session records.
LEMMA SampledCounts ==
  ASSUME Typed, Sessions, RingKept, Whole, Counted, ~late', PublishHead \/ DropRecord, [Next]_vars
  PROVE  Counted'
<1> USE DEF sampler, writer, files
<1>1. /\ ~late /\ rec.era = era /\ recording /\ sampled' = sampled + 1 /\ Pushing
      /\ UNCHANGED <<atOpen, era, wpc, job, session, ended>>
  BY DEF PublishHead, DropRecord, Sampled, Typed, Pushing
<1>2. Active /\ ~Opening /\ ~Discarding /\ wpc # "finish" /\ ended = NotEnded
  BY <1>1 DEF Sessions, Active, Discarding, Opening
<1>3. Active' /\ ~Opening' /\ ~Discarding' /\ wpc' # "finish" /\ ended' = NotEnded
  BY <1>1, <1>2 DEF Active, Discarding, Opening
<1>4. /\ IsFiniteSet(OwnIn(Stream)) /\ Cardinality(OwnIn(Stream)) + (dropped - atOpen) = sampled
      /\ Cardinality(OwnIn(Stream)) \in Nat /\ dropped \in Nat /\ atOpen \in Nat
  BY <1>1, <1>2, FS_CardinalityType DEF Counted, Typed
<1>5. /\ IsFiniteSet(OwnIn(Stream)')
      /\ Cardinality(OwnIn(Stream)') + (dropped' - atOpen') = sampled'
  <2>1. CASE PublishHead
    <3>1. RecordsIn(Stream') = RecordsIn(Stream) \union {rec}
      BY <1>2, <1>3, <2>1, StreamActive
    <3>2. OwnIn(Stream)' = OwnIn(Stream) \union {rec}
      BY <1>1, <3>1 DEF OwnIn
    <3>3. rec \notin OwnIn(Stream)
      BY <1>1, RecordIsNew
    <3>4. /\ IsFiniteSet(OwnIn(Stream) \union {rec})
          /\ Cardinality(OwnIn(Stream) \union {rec}) = Cardinality(OwnIn(Stream)) + 1
      BY <1>4, <3>3, FS_AddElement
    <3>5. dropped' = dropped
      BY <2>1 DEF PublishHead
    <3>q. QED
      BY <1>1, <1>4, <3>2, <3>4, <3>5
  <2>2. CASE DropRecord
    <3>1. dropped' = dropped + 1 /\ spc' # "publish" /\ spc = "push"
      BY <2>2 DEF DropRecord, Sampled
    <3>2. Stream' = Stream
      BY <1>2, <1>3, <3>1, StreamActive DEF PublishHead
    <3>3. OwnIn(Stream)' = OwnIn(Stream)
      BY <1>1, <3>2 DEF OwnIn
    <3>q. QED
      BY <1>1, <1>4, <3>1, <3>3
  <2>q. QED
    BY <2>1, <2>2
<1>6. LossIsCounted'
  BY <1>3 DEF LossIsCounted
<1>q. QED
  BY <1>3, <1>5, <1>6 DEF Counted

\* The count of drops at the opening stands for those of earlier sessions.
LEMMA OpenCounts ==
  ASSUME OpenSession
  PROVE  Counted'
BY DEF OpenSession, Counted, Active, Opening, LossIsCounted, ring

\* A session begins with nothing in the ring, nothing in the file and nothing dropped.
LEMMA BeginCounts ==
  ASSUME Typed, Sessions, RingKept, Counted, BeginRecording, [Next]_vars, ~late'
  PROVE  Counted'
<1> USE DEF BeginRecording, files
<1>1. /\ ~late /\ Opening /\ wpc = "begin" /\ Active /\ Active' /\ ~Opening' /\ ~Discarding'
      /\ wpc' # "finish" /\ sampled' = 0 /\ UNCHANGED <<dropped, atOpen, ended>>
  BY DEF Opening, Active, Discarding, history, ring
<1>2. Unread = <<>> /\ dropped = atOpen /\ file = <<>> /\ ended = NotEnded
  BY <1>1 DEF Counted, Sessions
<1>3. Stream = <<>>
  <2>1. <<>> \o <<>> = <<>> /\ Taken = <<>>
    BY <1>1 DEF Taken
  <2>q. QED
    BY <1>2, <2>1 DEF Stream, Pending
<1>4. Stream' = <<>>
  BY <1>1, <1>3, StreamActive DEF PublishHead, Sampled, sampler
<1>5. OwnIn(Stream)' = {}
  BY <1>4, OfNothing DEF OwnIn
<1>6. IsFiniteSet(OwnIn(Stream)') /\ Cardinality(OwnIn(Stream)') = 0
  BY <1>5, FS_EmptySet
<1>7. dropped' - atOpen' = 0
  BY <1>1, <1>2 DEF Typed
<1>8. LossIsCounted'
  BY <1>1, <1>2 DEF LossIsCounted
<1>q. QED
  BY <1>1, <1>6, <1>7, <1>8 DEF Counted

\* The END record says what the session dropped, and the rest of it is in the file.
LEMMA FinishCounts ==
  ASSUME Typed, Sessions, RingKept, Counted, Finish, ~late'
  PROVE  Counted'
<1>1. /\ ~late /\ wpc = "finish" /\ Active /\ ~Opening /\ ~Active' /\ ~Opening' /\ ~Discarding'
      /\ wpc' # "finish" /\ UNCHANGED <<dropped, atOpen, sampled, era, file>>
      /\ ended' = dropped - atOpen
  BY DEF Finish, Opening, Active, Discarding, Sessions, history, ring, sampler, files
<1>2. /\ Unread = <<>> /\ Cardinality(OwnIn(Stream)) + (dropped - atOpen) = sampled
  BY <1>1 DEF Counted
<1>3. Stream = file
  <2>1. <<>> \o <<>> = <<>> /\ Taken = <<>> /\ file \o <<>> = file
    BY <1>1, StreamTyped, ConcatEmptySeq DEF Taken
  <2>q. QED
    BY <1>2, <2>1 DEF Stream, Pending
<1>4. Own' = OwnIn(file)
  BY <1>1 DEF Own, OwnIn, RecordsIn
<1>5. LossIsCounted'
  BY <1>1, <1>2, <1>3, <1>4 DEF LossIsCounted
<1>q. QED
  BY <1>1, <1>5 DEF Counted

\* A session that found the ring empty has counted what it holds, or nothing yet.
LEMMA TakeNothingCounts ==
  ASSUME Typed, Sessions, RingKept, Counted, TakeNothing, [Next]_vars, ~late'
  PROVE  Counted'
<1>1. /\ ~late /\ UNCHANGED <<dropped, atOpen, sampled, era, file, ended>>
      /\ wpc = "take" /\ wpc' \in {"create", "finish", "tick"} /\ job' = job /\ session' = session
      /\ wpc' = "create" => job = "discard"
      /\ ~Opening
  BY DEF TakeNothing, Taking, Opening, ring, history, files, Typed
<1>2. Unread' = <<>> /\ Stream = file /\ Stream' = file
  BY TakeNothingLogs
<1>3. Opening' => Discarding
  BY <1>1 DEF Opening, Discarding
<1>4. Active' /\ ~Opening' => Active
  BY <1>1, Activates DEF Opening, Active, TakeNothing, Taking
<1>5. Own' = Own
  BY <1>1 DEF Own
<1>6. LossIsCounted'
  BY <1>1, <1>5 DEF Counted, LossIsCounted
<1>7. Active' /\ ~Opening' =>
        IsFiniteSet(OwnIn(Stream)')
        /\ Cardinality(OwnIn(Stream)') + (dropped' - atOpen') = sampled'
  <2>1. OwnIn(Stream)' = OwnIn(Stream)
    BY <1>1, <1>2 DEF OwnIn
  <2>q. QED
    BY <1>1, <1>4, <2>1 DEF Counted
<1>8. Discarding' \/ Opening' => dropped' = atOpen'
  BY <1>1, <1>3 DEF Counted, Discarding
<1>q. QED
  BY <1>2, <1>6, <1>7, <1>8 DEF Counted

\* What is in the file of a session that was closed, and what it counted, is what was sampled in
\* it, whatever step is taken.
LEMMA CountedStep == Typed /\ Sessions /\ RingKept /\ Whole /\ Counted /\ [Next]_vars => Counted'
<1> SUFFICES ASSUME Typed, Sessions, RingKept, Whole, Counted, [Next]_vars, ~late' PROVE Counted'
  BY DEF Counted
<1>1. CASE PublishHead \/ DropRecord
  BY <1>1, SampledCounts
<1>2. CASE OpenSession
  BY <1>2, OpenCounts
<1>3. CASE BeginRecording
  BY <1>3, BeginCounts
<1>4. CASE Finish
  BY <1>4, FinishCounts
<1>5. CASE TakeNothing
  BY <1>5, TakeNothingCounts
<1>6. CASE Halt
  <2>1. ~Active' /\ ~Opening' /\ ~Discarding' /\ wpc' # "finish" /\ ended' = NotEnded
    BY <1>6 DEF Halt, Active, Opening, Discarding, Sessions
  <2>q. QED
    BY <2>1 DEF Counted, LossIsCounted
<1>7. CASE AppendBytes
  <2>1. /\ Active /\ ~Opening /\ Active' /\ ~Opening' /\ ~Discarding' /\ wpc' # "finish" /\ ~late
        /\ UNCHANGED <<dropped, atOpen, sampled, era>> /\ ended' = NotEnded
    BY <1>7 DEF AppendBytes, Active, Opening, Discarding, Sessions, ring, history
  <2>2. Stream' = Stream
    BY <1>7, <2>1, StreamActive DEF AppendBytes, PublishHead, Sampled, writer
  <2>3. OwnIn(Stream)' = OwnIn(Stream)
    BY <2>1, <2>2 DEF OwnIn
  <2>q. QED
    BY <2>1, <2>3 DEF Counted, LossIsCounted
<1>8. CASE ~PublishHead /\ (BeginPass \/ PushLap \/ EndPass \/ PushBytes \/ TakeBytes \/ PublishTail
              \/ CreateFile \/ Flush \/ CloseSession \/ EndHalt \/ Mount \/ BusChanges
              \/ EnterWorkshop \/ UNCHANGED vars)
  <2>1. /\ UNCHANGED <<dropped, atOpen, sampled, era, file, ended, late>>
        /\ ~TakeNothing
        /\ Discarding' \/ Opening' => Discarding \/ Opening
        /\ Opening' \/ wpc' = "finish" => (Opening \/ wpc = "finish") /\ ~TakeBytes
        /\ Active' /\ ~Opening' => ~Opening
    BY <1>8 DEF BeginPass, PushLap, EndPass, PushBytes, TakeBytes, TakeNothing, Taking, PublishTail,
       CreateFile, Flush, CloseSession, EndHalt, Mount, BusChanges, EnterWorkshop, vars, ring,
            sampler,
       writer, files, history, Discarding, Opening, Active, Typed, Sessions
  <2>2. Active' => Active /\ Stream' = Stream
    BY <1>8, <2>1, Activates, StreamActive
  <2>3. ~TakeBytes => Unread' = Unread
    BY <1>8, RingSame
  <2>q. QED
    BY <2>1, <2>2, <2>3, CountedSame
<1>q. QED
  BY <1>1, <1>2, <1>3, <1>4, <1>5, <1>6, <1>7, <1>8 DEF Next, Sampler, Writer
-----------------------------------------------------------------------------
(* The theorems. *)

\* The invariant holds at the boot ...
LEMMA IInvStarts == Init => IInv
<1> SUFFICES ASSUME Init PROVE IInv
  OBVIOUS
<1>1. Typed /\ Sessions /\ RingKept /\ Unread = <<>>
  BY Starting
<1>2. /\ file = <<>> /\ ended = NotEnded /\ wpc = "tick" /\ session = "idle" /\ ~Active
      /\ ~Opening /\ ~Discarding
  BY DEF Init, Active, Opening, Discarding
<1>3. Pending = <<>>
  <2>1. <<>> \o <<>> = <<>> /\ Taken = <<>>
    BY <1>2 DEF Taken
  <2>q. QED
    BY <1>1, <2>1 DEF Pending
<1>4. Whole
  BY <1>2, <1>3, OfNothing DEF Whole
<1>5. OneOld
  BY <1>2 DEF OneOld
<1>6. Counted
  BY <1>2 DEF Counted, LossIsCounted
<1>q. QED
  BY <1>1, <1>4, <1>5, <1>6 DEF IInv

\* ... and after every step.
LEMMA IInvStep == IInv /\ [Next]_vars => IInv'
BY TypeStep, SessionStep, RingStep, WholeStep, OneOldStep, CountedStep DEF IInv

\* The proofs' invariant makes the file what the format says.
LEMMA WholeFile == IInv => FileIsWhole
<1> SUFFICES ASSUME IInv PROVE FileIsWhole
  OBVIOUS
<1> USE DEF IInv
<1> DEFINE early == {file[k][1] : k \in {j \in 1..Len(file) : file[j][1].era < era /\
     ~file[j][1].lap}}
<1>s. file \in Seq(Piece) /\ Pending \in Seq(Piece)
  BY StreamTyped
<1>1. ASSUME NEW k \in 1..Len(file)
      PROVE  LET r == file[k][1] i == file[k][2] IN
             IF k = 1 THEN i = 1
             ELSE \/ file[k - 1] = <<r, i - 1>>
                  \/ i = 1 /\ file[k - 1][2] = file[k - 1][1].len /\ file[k - 1][1].id < r.id
  <2>1. CASE k = 1
    <3>1. file # <<>>
      BY <1>s, <2>1, EmptySeq
    <3>q. QED
      BY <2>1, <3>1 DEF Whole, Starts
  <2>2. CASE k # 1
    <3>1. k - 1 \in 1..Len(file) - 1 /\ (k - 1) + 1 = k
      BY <1>s, <2>2, LenProperties
    <3>2. Follows(file[k - 1], file[k])
      BY <3>1 DEF Whole, Chained
    <3>q. QED
      BY <2>2, <3>2 DEF Follows
  <2>q. QED
    BY <2>1, <2>2
<1>2. ended # NotEnded /\ file # <<>> => file[Len(file)][2] = file[Len(file)][1].len
  BY DEF Whole, Ends
<1>3. fd => Cardinality(early) <= 1
  <2> SUFFICES ASSUME fd PROVE Cardinality(early) <= 1
    OBVIOUS
  <2>1. Active
    BY DEF Sessions
  <2>2. RecordsIn(file) \subseteq RecordsIn(Stream)
    BY <1>s, RecordsJoined DEF Stream
  <2>3. ASSUME NEW q \in early PROVE q \in RecordsIn(Stream) /\ Old(q)
    <3>1. PICK k \in 1..Len(file) : q = file[k][1] /\ q.era < era /\ ~q.lap
      BY <2>3
    <3>2. file[k] \in Piece
      BY <1>s
    <3>3. q.era \in Int /\ era \in Int
      BY <3>1, <3>2, BoundsAssumption DEF Piece, Record, NoRecord, Typed
    <3>4. Old(q)
      BY <3>1, <3>3 DEF Old, Cur
    <3>q. QED
      BY <2>2, <3>1, <3>4 DEF RecordsIn
  <2>4. \A q, r \in early : q = r
    BY <2>1, <2>3 DEF OneOld
  <2> HIDE DEF early
  <2>5. CASE early = {}
    BY <2>5, FS_EmptySet
  <2>6. CASE early # {}
    <3>1. PICK q \in early : TRUE
      BY <2>6
    <3>2. early = {q}
      BY <2>4, <3>1
    <3>3. Cardinality({q}) = 1
      BY FS_Singleton, Zenon
    <3>q. QED
      BY <3>2, <3>3
  <2>q. QED
    BY <2>5, <2>6
<1>q. QED
  BY <1>1, <1>2, <1>3 DEF FileIsWhole

\* For any ring, any counters and any staging buffer: the file holds whole records in the order
\* they were sampled, cut at most at its end, and at most one pass that an earlier session began
\* (Ring::push and pop_into, datalog_runtime.cpp's openSession, drain and halt).
THEOREM LogIsWhole == Spec => []FileIsWhole
<1>1. IInv => FileIsWhole
  BY WholeFile
<1>q. QED
  BY IInvStarts, IInvStep, <1>1, PTL DEF Spec

\* And a session that was closed has every record sampled in it in its file, or counted in its
\* END record (closeSession).
THEOREM LossIsTold == Spec => []LossIsCounted
<1>1. IInv => LossIsCounted
  BY DEF IInv, Counted, LossIsCounted
<1>q. QED
  BY IInvStarts, IInvStep, <1>1, PTL DEF Spec
=============================================================================
