------------------------------- MODULE Segments ------------------------------
(***************************************************************************)
(* How ikcp_send (src/ikcp.c) cuts a stream into segments in stream mode:  *)
(* the last queued segment is filled up to mss bytes, the rest is cut into *)
(* segments of mss bytes.  Kcp and CodeChannel use these operators.        *)
(*                                                                         *)
(* A payload <<lo, hi>> stands for the bytes lo + 1 .. hi of the stream    *)
(* its sender was given, so that losing, repeating or reordering a byte    *)
(* shows.                                                                  *)
(***************************************************************************)
EXTENDS Integers, Sequences

CONSTANT Mss           \* payload bytes a segment carries at most

ASSUME MssAssumption == Mss \in Nat \ {0}

Payload == Nat \X Nat
NoData  == <<0, 0>>
Length(p) == p[2] - p[1]

Smaller(x, y) == IF x < y THEN x ELSE y

\* The payloads of queue are the bytes lo + 1 .. hi: no hole, no overlap.
Spans(queue, lo, hi) ==
  /\ \A i \in DOMAIN queue : /\ queue[i][1] < queue[i][2]
                             /\ queue[i][1] = IF i = 1 THEN lo ELSE queue[i - 1][2]
  /\ hi = IF queue = << >> THEN lo ELSE queue[Len(queue)][2]

\* The last payload of queue takes room bytes more.
Extended(queue, room) ==
  [queue EXCEPT ![Len(queue)] = <<queue[Len(queue)][1],
                                  queue[Len(queue)][2] + room>>]

\* Mutant of Fragments: the count is not rounded up.
FragmentsRoundedDown(lo, hi) ==
  [i \in 1 .. (hi - lo) \div Mss |->
     <<lo + (i - 1) * Mss, Smaller(lo + i * Mss, hi)>>]

\* The bytes lo + 1 .. hi cut into payloads of Mss bytes, the last one shorter.
Fragments(lo, hi) ==
  [i \in 1 .. (hi - lo + Mss - 1) \div Mss |->
     <<lo + (i - 1) * Mss, Smaller(lo + i * Mss, hi)>>]

\* Mutant of TailRoom: a send always starts a new segment.
TailRoomNone(queue) == 0

TailRoom(queue) ==
  IF queue # << >> /\ Length(queue[Len(queue)]) < Mss
  THEN Mss - Length(queue[Len(queue)]) ELSE 0

\* What ikcp_send makes of snd_queue, given the bytes lo + 1 .. hi.  It never
\* needs more than 255 fragments and so does not fail: max_client_pkg_size is
\* 64000 and mss 360.
Queued(queue, lo, hi) ==
  LET extend == Smaller(hi - lo, TailRoom(queue))
  IN  (IF extend = 0 THEN queue ELSE Extended(queue, extend))
        \o Fragments(lo + extend, hi)
=============================================================================
