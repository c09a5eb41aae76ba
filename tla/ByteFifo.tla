------------------------------ MODULE ByteFifo ------------------------------
(***************************************************************************)
(* What AurCodeRoundRobinQueue (src/common_algorithm.h) promises its       *)
(* callers: a bounded first-in first-out queue of bytes that is written    *)
(* all-or-nothing, peeked, discarded from the front, and read one          *)
(* length-prefixed code at a time.  Nothing here knows about positions or  *)
(* wrap-around; RoundRobinQueue implements this module.                    *)
(***************************************************************************)
EXTENDS Integers, Sequences

CONSTANTS
  Byte,                \* the values of one byte
  Capacity,            \* how many bytes the queue can hold
  Chunks,              \* the byte strings its callers write
  MaxLength,           \* bound on the lengths callers peek or remove
  HeaderLength,        \* bytes of the length prefix of a code
  CodeLength(_)        \* the length a prefix announces

VARIABLES
  q,                   \* the bytes written and not yet removed, oldest first
  ret                  \* what the last call returned, and the bytes it copied out

Result(code, data) == [code |-> code, data |-> data]

Front(k) == SubSeq(q, 1, k)
Rest(k)  == SubSeq(q, k + 1, Len(q))

Init == q = << >> /\ ret = Result(0, << >>)

\* All of d is appended, or the call fails and nothing changes.
AppendIf(d, accepted) ==
  \/ accepted  /\ q' = q \o d /\ ret' = Result(Len(d), << >>)
  \/ ~accepted /\ UNCHANGED q /\ ret' = Result(-1, << >>)

Fits(d) == Len(d) > 0 /\ Len(d) <= Capacity - Len(q)

\* Raw bytes are refused only for want of room; a code also when it is no
\* longer than its prefix, or when the prefix announces another length.
Write(d) == AppendIf(d, Fits(d))
WriteCode(d) ==
  AppendIf(d, Len(d) > HeaderLength /\ Fits(d) /\ CodeLength(d) = Len(d))

\* The oldest k bytes, or all of them when there are fewer, without removal.
Peek(k) ==
  LET m == IF k < Len(q) THEN k ELSE Len(q)
  IN  ret' = Result(m, Front(m)) /\ UNCHANGED q

Remove(k) ==
  \/ k <= Len(q) /\ q' = Rest(k) /\ ret' = Result(k, << >>)
  \/ k > Len(q)  /\ ret' = Result(-1, << >>) /\ UNCHANGED q

\* The code at the front leaves the queue in one piece, once all of it is
\* there; until then the call returns 0 and leaves everything in place.
TakeCode ==
  LET n == CodeLength(Front(HeaderLength))
      whole == Len(q) >= HeaderLength /\ n > 0 /\ n <= Len(q)
  IN  \/ whole  /\ ret' = Result(n, Front(n)) /\ q' = Rest(n)
      \/ ~whole /\ ret' = Result(0, << >>)   /\ UNCHANGED q

Next ==
  \/ \E d \in Chunks : Write(d) \/ WriteCode(d)
  \/ \E k \in 0 .. MaxLength : Peek(k) \/ Remove(k)
  \/ TakeCode

Spec == Init /\ [][Next]_<<q, ret>>
=============================================================================
