---------------------------- MODULE RecordQueue -----------------------------
(* What the ring between sampler and writer promises: a queue of bytes that *)
(* takes a record whole or not at all and hands the bytes out in order.     *)
EXTENDS Naturals, Sequences

CONSTANTS
  Cap,      (* bytes the queue holds                                        *)
  Staging,  (* bytes taken at a time, at most                               *)
  Records   (* the records, each a sequence of bytes                        *)

VARIABLES queue, out

Init == queue = <<>> /\ out = <<>>

Push(r) ==
  /\ Len(queue) + Len(r) <= Cap
  /\ queue' = queue \o r
  /\ UNCHANGED out

Take(n) ==
  /\ n <= Len(queue)
  /\ out' = SubSeq(queue, 1, n)
  /\ queue' = SubSeq(queue, n + 1, Len(queue))

Next == (\E r \in Records : Push(r)) \/ (\E n \in 0..Staging : Take(n))

Spec == Init /\ [][Next]_<<queue, out>>
=============================================================================
