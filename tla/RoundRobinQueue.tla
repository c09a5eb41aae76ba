-------------------------- MODULE RoundRobinQueue ---------------------------
(***************************************************************************)
(* AurCodeRoundRobinQueue, src/common_algorithm.h: the ring buffer behind  *)
(* the four queues of ConnectionManager.  One cell more than the capacity  *)
(* is allocated, so that equal positions mean "empty" and never "full".    *)
(* The memory comes from new char[] and is not initialised.                *)
(*                                                                         *)
(* Every public operation is one action; they are called from one thread   *)
(* and never interleave.  A byte is a digit below Base (256 in the code),  *)
(* so decode_int32 keeps its meaning with a smaller Base.                  *)
(***************************************************************************)
EXTENDS Integers, Sequences

CONSTANTS
  TotalBufferSize,     \* iTotalBufferSize, max_client_pkg_size in the code
  Base,                \* number of values of a byte
  Chunks,              \* byte strings the callers pass to the write calls
  MaxLength            \* bound on the length arguments of copy and remove

ASSUME SizeAssumption   == TotalBufferSize \in Nat \ {0}
ASSUME BaseAssumption   == Base \in Nat \ {0, 1}
ASSUME LengthAssumption == MaxLength \in Nat

Byte == 0 .. Base - 1

ASSUME ChunksAssumption == Chunks \subseteq Seq(Byte)

VARIABLES
  m_szDataBuffer,
  m_iReadPosFlag,
  m_iWritePosFlag,
  ret                  \* return value and copied bytes of the last call

vars == <<m_szDataBuffer, m_iReadPosFlag, m_iWritePosFlag, ret>>

m_iDataBufferLen == TotalBufferSize + 1
Cells == 0 .. m_iDataBufferLen - 1

Result(code, data) == [code |-> code, data |-> data]

\* Mutant of GetFreeBufferSize: the cell that stays empty is offered too.
GetFreeBufferSizeOfAll == (m_iReadPosFlag - m_iWritePosFlag + m_iDataBufferLen) % m_iDataBufferLen

GetFreeBufferSize ==
  (m_iReadPosFlag - m_iWritePosFlag + m_iDataBufferLen - 1) % m_iDataBufferLen

GetUsedBufferSize ==
  (m_iWritePosFlag - m_iReadPosFlag + m_iDataBufferLen) % m_iDataBufferLen

\* CCodeEngine::decode_int32 of the length prefix, in network byte order.
HeaderLength == 4
CodeLength(h) == ((h[1] * Base + h[2]) * Base + h[3]) * Base + h[4]

\* The one or two memcpy calls that read k bytes from position pos.
BytesFrom(cells, pos, k) ==
  [j \in 1 .. k |->
     IF j <= m_iDataBufferLen - pos
     THEN cells[pos + j - 1]
     ELSE cells[j - (m_iDataBufferLen - pos) - 1]]

Fetched(k) == BytesFrom(m_szDataBuffer, m_iReadPosFlag, k)

\* Mutant of Stored: the second memcpy starts at the first byte of d again.
StoredFromStart(d) ==
  [i \in Cells |->
     IF i >= m_iWritePosFlag /\ i < m_iWritePosFlag + Len(d)
     THEN d[i - m_iWritePosFlag + 1]
     ELSE IF i < m_iWritePosFlag + Len(d) - m_iDataBufferLen
     THEN d[i + 1]
     ELSE m_szDataBuffer[i]]

\* The one or two memcpy calls that store d at the write position.
Stored(d) ==
  [i \in Cells |->
     IF i >= m_iWritePosFlag /\ i < m_iWritePosFlag + Len(d)
     THEN d[i - m_iWritePosFlag + 1]
     ELSE IF i < m_iWritePosFlag + Len(d) - m_iDataBufferLen
     THEN d[m_iDataBufferLen - m_iWritePosFlag + i + 1]
     ELSE m_szDataBuffer[i]]

Init ==
  /\ m_szDataBuffer \in [Cells -> Byte]
  /\ m_iReadPosFlag = 0
  /\ m_iWritePosFlag = 0
  /\ ret = Result(0, << >>)

Refuse(code) ==
  /\ ret' = Result(code, << >>)
  /\ UNCHANGED <<m_szDataBuffer, m_iReadPosFlag, m_iWritePosFlag>>

Put(d) ==
  /\ m_szDataBuffer' = Stored(d)
  /\ m_iWritePosFlag' = (m_iWritePosFlag + Len(d)) % m_iDataBufferLen
  /\ ret' = Result(Len(d), << >>)
  /\ UNCHANGED m_iReadPosFlag

WriteDataToBuffer(d) ==
  LET fits == Len(d) <= GetFreeBufferSize /\ Len(d) > 0
  IN  \/ fits  /\ Put(d)
      \/ ~fits /\ Refuse(-1)

WriteOneCode(d) ==
  LET fits == /\ Len(d) > HeaderLength
              /\ Len(d) <= GetFreeBufferSize
              /\ CodeLength(d) = Len(d)
  IN  \/ fits  /\ Put(d)
      \/ ~fits /\ Refuse(-1)

CopyDataFromBuffer(k) ==
  LET m == IF k < GetUsedBufferSize THEN k ELSE GetUsedBufferSize
  IN  /\ ret' = Result(m, Fetched(m))
      /\ UNCHANGED <<m_szDataBuffer, m_iReadPosFlag, m_iWritePosFlag>>

\* Mutant of RemoveDataFromBuffer: the read position does not wrap.
RemoveDataFromBufferOnce(k) ==
  \/ /\ k <= GetUsedBufferSize
     /\ m_iReadPosFlag' = m_iReadPosFlag + k
     /\ ret' = Result(k, << >>)
     /\ UNCHANGED <<m_szDataBuffer, m_iWritePosFlag>>
  \/ k > GetUsedBufferSize /\ Refuse(-1)

RemoveDataFromBuffer(k) ==
  \/ /\ k <= GetUsedBufferSize
     /\ m_iReadPosFlag' = (m_iReadPosFlag + k) % m_iDataBufferLen
     /\ ret' = Result(k, << >>)
     /\ UNCHANGED <<m_szDataBuffer, m_iWritePosFlag>>
  \/ k > GetUsedBufferSize /\ Refuse(-1)

GetOneCode ==
  LET n == CodeLength(Fetched(HeaderLength))
      whole == /\ GetUsedBufferSize >= HeaderLength
               /\ n > 0 /\ n <= GetUsedBufferSize
  IN  \/ ~whole /\ Refuse(0)
      \/ /\ whole
         /\ m_iReadPosFlag' = (m_iReadPosFlag + n) % m_iDataBufferLen
         /\ ret' = Result(n, Fetched(n))
         /\ UNCHANGED <<m_szDataBuffer, m_iWritePosFlag>>

Next ==
  \/ \E d \in Chunks : WriteDataToBuffer(d) \/ WriteOneCode(d)
  \/ \E k \in 0 .. MaxLength : CopyDataFromBuffer(k) \/ RemoveDataFromBuffer(k)
  \/ GetOneCode

Spec == Init /\ [][Next]_vars

-----------------------------------------------------------------------------
\* Type invariant: both positions stay inside the allocated cells.
TypeOK ==
  /\ m_szDataBuffer \in [Cells -> Byte]
  /\ m_iReadPosFlag \in Cells
  /\ m_iWritePosFlag \in Cells
  /\ ret \in [code : Int, data : Seq(Byte)]

\* GetUsedBufferSize and GetFreeBufferSize are computed apart, from a
\* difference that may be negative; wherever the positions have wrapped they
\* add up to the capacity, so a full queue is never taken for an empty one.
SizesAgree == GetUsedBufferSize + GetFreeBufferSize = TotalBufferSize

\* The bytes between the positions, as the callers see them.
Unread == Fetched(GetUsedBufferSize)

\* The queue of bytes this ring implements.
Fifo == INSTANCE ByteFifo WITH
          q <- Unread, Capacity <- TotalBufferSize

\* Refinement: through every wrap-around the calls behave like those of a
\* plain first-in first-out queue.  No byte is lost, repeated, reordered or
\* overwritten before it is removed, and the data a call copies out is right.
ImplementsFifo == Fifo!Spec
=============================================================================
