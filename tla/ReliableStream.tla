--------------------------- MODULE ReliableStream ---------------------------
(***************************************************************************)
(* What the protocol of ikcp.c promises the code above it: each endpoint   *)
(* writes a stream of bytes and its peer reads a prefix of exactly that    *)
(* stream, in order, each byte once, in chunks of any size.  There are no  *)
(* segments, acknowledgements, windows or losses here.                     *)
(*                                                                         *)
(* A chunk <<lo, hi>> is the bytes lo + 1 .. hi of the writer's stream.    *)
(***************************************************************************)
EXTENDS Integers, Sequences

CONSTANTS Node, Peer(_)

VARIABLES
  written,             \* bytes each endpoint has written
  read                 \* chunks each endpoint has read, in order

\* s is the first total bytes of a stream, without a hole or an overlap.
Contiguous(s, total) ==
  /\ \A i \in DOMAIN s : /\ s[i][1] < s[i][2]
                         /\ s[i][1] = IF i = 1 THEN 0 ELSE s[i - 1][2]
  /\ total = IF s = << >> THEN 0 ELSE s[Len(s)][2]

Total(s) == IF s = << >> THEN 0 ELSE s[Len(s)][2]

Extends(long, short) ==
  Len(short) <= Len(long) /\ SubSeq(long, 1, Len(short)) = short

Init ==
  /\ written = [n \in Node |-> 0]
  /\ read = [n \in Node |-> << >>]

Write(n) ==
  /\ written'[n] >= written[n]
  /\ written' = [written EXCEPT ![n] = written'[n]]
  /\ UNCHANGED read

Read(n) ==
  /\ read' = [read EXCEPT ![n] = read'[n]]
  /\ Extends(read'[n], read[n])
  /\ Contiguous(read'[n], Total(read'[n]))
  /\ Total(read'[n]) <= written[Peer(n)]
  /\ UNCHANGED written

Next == \E n \in Node : Write(n) \/ Read(n)

Spec == Init /\ [][Next]_<<written, read>>
=============================================================================
