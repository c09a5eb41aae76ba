----------------------- MODULE RoundRobinQueueProofs ------------------------
(***************************************************************************)
(* RoundRobinQueue for every capacity, base and set of chunks: positions   *)
(* and sizes stay right, and the ring implements ByteFifo.                 *)
(***************************************************************************)
EXTENDS RoundRobinQueue, TLAPS

LEMMA Constants ==
  /\ m_iDataBufferLen \in Nat /\ m_iDataBufferLen >= 2
  /\ TotalBufferSize \in Nat
  /\ Cells \subseteq Nat
BY SizeAssumption DEF m_iDataBufferLen, Cells

\* What % does to a sum of two positions: it wraps at most once.
LEMMA WrapOnce ==
  ASSUME NEW n \in Nat \ {0}, NEW x \in 0 .. 2 * n - 1
  PROVE  /\ x < n  => x % n = x
         /\ x >= n => x % n = x - n
  OBVIOUS

LEMMA WrapSum ==
  ASSUME NEW n \in Nat \ {0}, NEW a \in 0 .. n - 1, NEW b \in 0 .. n
  PROVE  /\ (a + b) % n = IF a + b < n THEN a + b ELSE a + b - n
         /\ (a + b) % n \in 0 .. n - 1
  OBVIOUS

\* The distance from position r on to position w, in closed form.
LEMMA Distance ==
  ASSUME NEW r \in Cells, NEW w \in Cells
  PROVE  /\ (w - r + m_iDataBufferLen) % m_iDataBufferLen =
              IF w >= r THEN w - r ELSE w - r + m_iDataBufferLen
         /\ (r - w + m_iDataBufferLen - 1) % m_iDataBufferLen =
              TotalBufferSize - ((w - r + m_iDataBufferLen) % m_iDataBufferLen)
<1> DEFINE n == m_iDataBufferLen
           u == w - r + n
           f == r - w + n - 1
<1>1. /\ r \in 0 .. n - 1 /\ w \in 0 .. n - 1
      /\ n \in Nat \ {0} /\ TotalBufferSize = n - 1
  BY SizeAssumption DEF Cells, m_iDataBufferLen
<1>2. u \in 0 .. 2 * n - 1 /\ f \in 0 .. 2 * n - 1
  BY <1>1
<1>3. /\ u < n => u % n = u
      /\ u >= n => u % n = u - n
  BY <1>1, <1>2, WrapOnce
<1>4. /\ f < n => f % n = f
      /\ f >= n => f % n = f - n
  BY <1>1, <1>2, WrapOnce
<1> QED BY <1>1, <1>3, <1>4

\* The two sizes are those of a queue of TotalBufferSize bytes.
LEMMA Sizes ==
  ASSUME m_iReadPosFlag \in Cells, m_iWritePosFlag \in Cells
  PROVE  /\ GetUsedBufferSize \in 0 .. TotalBufferSize
         /\ GetFreeBufferSize = TotalBufferSize - GetUsedBufferSize
<1>1. GetFreeBufferSize = TotalBufferSize - GetUsedBufferSize
  BY Distance DEF GetUsedBufferSize, GetFreeBufferSize
<1>2. GetUsedBufferSize =
        IF m_iWritePosFlag >= m_iReadPosFlag
        THEN m_iWritePosFlag - m_iReadPosFlag
        ELSE m_iWritePosFlag - m_iReadPosFlag + m_iDataBufferLen
  BY Distance DEF GetUsedBufferSize
<1> QED BY <1>1, <1>2, SizeAssumption DEF Cells, m_iDataBufferLen

\* The j-th byte copied out is the one j - 1 cells past the read position,
\* whichever memcpy brings it.
LEMMA BytesFromCells ==
  ASSUME NEW cells \in [Cells -> Byte], NEW pos \in Cells,
         NEW k \in 0 .. m_iDataBufferLen
  PROVE  /\ BytesFrom(cells, pos, k) \in Seq(Byte)
         /\ Len(BytesFrom(cells, pos, k)) = k
         /\ \A j \in 1 .. k : BytesFrom(cells, pos, k)[j] =
                                cells[(pos + j - 1) % m_iDataBufferLen]
<1>1. /\ pos \in 0 .. m_iDataBufferLen - 1
      /\ m_iDataBufferLen \in Nat \ {0}
  BY Constants DEF Cells
<1>2. ASSUME NEW j \in 1 .. k
      PROVE  /\ BytesFrom(cells, pos, k)[j] =
                  cells[(pos + j - 1) % m_iDataBufferLen]
             /\ BytesFrom(cells, pos, k)[j] \in Byte
  <2> DEFINE x == pos + j - 1
  <2>1. x \in 0 .. 2 * m_iDataBufferLen - 1
    BY <1>1
  <2>2. /\ x < m_iDataBufferLen  => x % m_iDataBufferLen = x
        /\ x >= m_iDataBufferLen => x % m_iDataBufferLen = x - m_iDataBufferLen
    BY <1>1, <2>1, WrapOnce
  <2>3. x % m_iDataBufferLen \in Cells
    BY <1>1, <2>1, <2>2 DEF Cells
  <2> HIDE DEF x
  <2>4. BytesFrom(cells, pos, k)[j] = cells[x % m_iDataBufferLen]
    BY <1>1, <2>2 DEF BytesFrom, x
  <2> QED BY <2>3, <2>4 DEF x
<1>3. BytesFrom(cells, pos, k) \in [1 .. k -> Byte]
  BY <1>2 DEF BytesFrom
<1> QED BY <1>2, <1>3 DEF BytesFrom

LEMMA ConcatFacts ==
  ASSUME NEW S, NEW s \in Seq(S), NEW t \in Seq(S)
  PROVE  /\ s \o t \in Seq(S)
         /\ Len(s \o t) = Len(s) + Len(t)
         /\ \A j \in 1 .. Len(s) + Len(t) :
              (s \o t)[j] = IF j <= Len(s) THEN s[j] ELSE t[j - Len(s)]
  OBVIOUS

LEMMA SubSeqFacts ==
  ASSUME NEW S, NEW s \in Seq(S), NEW a \in 1 .. Len(s) + 1,
         NEW b \in 0 .. Len(s), a <= b + 1
  PROVE  /\ SubSeq(s, a, b) \in Seq(S)
         /\ Len(SubSeq(s, a, b)) = b - a + 1
         /\ \A j \in 1 .. b - a + 1 : SubSeq(s, a, b)[j] = s[a + j - 1]
  OBVIOUS

LEMMA SameSeq ==
  ASSUME NEW S, NEW s \in Seq(S), NEW t \in Seq(S), Len(s) = Len(t),
         \A j \in 1 .. Len(s) : s[j] = t[j]
  PROVE  s = t
  OBVIOUS

\* Storing d leaves the unread bytes alone and puts d right behind them.
LEMMA StoredBytes ==
  ASSUME m_szDataBuffer \in [Cells -> Byte],
         m_iReadPosFlag \in Cells, m_iWritePosFlag \in Cells,
         NEW d \in Seq(Byte), Len(d) <= GetFreeBufferSize
  PROVE  /\ Stored(d) \in [Cells -> Byte]
         /\ BytesFrom(Stored(d), m_iReadPosFlag, GetUsedBufferSize + Len(d))
              = Unread \o d
<1> DEFINE r == m_iReadPosFlag
           w == m_iWritePosFlag
           n == m_iDataBufferLen
           u == GetUsedBufferSize
           m == Len(d)
<1>1. /\ r \in 0 .. n - 1 /\ w \in 0 .. n - 1 /\ n \in Nat \ {0}
      /\ u \in 0 .. n - 1 /\ m \in 0 .. n - 1 /\ u + m <= n - 1
      /\ Cells = 0 .. n - 1
  BY Sizes, SizeAssumption DEF Cells, m_iDataBufferLen
<1>2. w = (r + u) % n
  <2>1. u = IF w >= r THEN w - r ELSE w - r + n
    BY Distance DEF GetUsedBufferSize
  <2> HIDE DEF u
  <2>2. (r + u) % n = IF r + u < n THEN r + u ELSE r + u - n
    BY <1>1, WrapSum
  <2> QED BY <1>1, <2>1, <2>2
<1>3. Stored(d) \in [Cells -> Byte]
  <2>1. ASSUME NEW i \in Cells PROVE Stored(d)[i] \in Byte
    BY <1>1 DEF Stored
  <2> QED BY <2>1 DEF Stored
<1>4. ASSUME NEW j \in 1 .. u + m
      PROVE  Stored(d)[(r + j - 1) % n] =
               IF j <= u THEN m_szDataBuffer[(r + j - 1) % n] ELSE d[j - u]
  <2> HIDE DEF u
  <2> DEFINE c == (r + (j - 1)) % n
  <2>1. /\ c = IF r + (j - 1) < n THEN r + (j - 1) ELSE r + (j - 1) - n
        /\ c \in Cells
    <3>1. j - 1 \in 0 .. n
      BY <1>1
    <3>2. c \in 0 .. n - 1
      BY <1>1, <3>1, WrapSum
    <3>3. c = IF r + (j - 1) < n THEN r + (j - 1) ELSE r + (j - 1) - n
      BY <1>1, <3>1, WrapSum
    <3> QED BY <1>1, <3>2, <3>3
  <2>2. w = IF r + u < n THEN r + u ELSE r + u - n
    BY <1>1, <1>2, WrapSum
  <2>3. r + (j - 1) = r + j - 1
    BY <1>1
  <2> HIDE DEF c
  <2>4. Stored(d)[c] =
          IF c >= w /\ c < w + m THEN d[c - w + 1]
          ELSE IF c < w + m - n THEN d[n - w + c + 1]
          ELSE m_szDataBuffer[c]
    BY <2>1 DEF Stored
  <2>5. CASE j <= u
    <3>1. ~(c >= w /\ c < w + m) /\ ~(c < w + m - n)
      BY <1>1, <2>1, <2>2, <2>5
    <3> QED BY <2>3, <2>4, <2>5, <3>1 DEF c
  <2>6. CASE j > u
    <3>1. \/ c >= w /\ c < w + m /\ c - w + 1 = j - u
          \/ ~(c >= w /\ c < w + m) /\ c < w + m - n /\ n - w + c + 1 = j - u
      BY <1>1, <2>1, <2>2, <2>6
    <3> QED BY <1>1, <2>3, <2>4, <2>6, <3>1 DEF c
  <2> QED BY <1>1, <2>5, <2>6 DEF u
<1>5. /\ BytesFrom(Stored(d), r, u + m) \in Seq(Byte)
      /\ Len(BytesFrom(Stored(d), r, u + m)) = u + m
      /\ \A j \in 1 .. u + m : BytesFrom(Stored(d), r, u + m)[j] =
                                 Stored(d)[(r + j - 1) % n]
  <2>1. u + m \in 0 .. m_iDataBufferLen
    BY <1>1
  <2> HIDE DEF u, m
  <2> QED BY <2>1, <1>3, BytesFromCells
<1>6. /\ Unread \in Seq(Byte) /\ Len(Unread) = u
      /\ \A j \in 1 .. u : Unread[j] = m_szDataBuffer[(r + j - 1) % n]
  <2>1. u \in 0 .. m_iDataBufferLen
    BY <1>1
  <2> QED BY <2>1, BytesFromCells DEF Unread, Fetched
<1> HIDE DEF u
<1>7. /\ Unread \o d \in Seq(Byte) /\ Len(Unread \o d) = u + m
      /\ \A j \in 1 .. u + m :
           (Unread \o d)[j] = IF j <= u THEN Unread[j] ELSE d[j - u]
  BY <1>6, ConcatFacts
<1>8. ASSUME NEW j \in 1 .. u + m
      PROVE  BytesFrom(Stored(d), r, u + m)[j] = (Unread \o d)[j]
  <2>1. j <= u => Unread[j] = m_szDataBuffer[(r + j - 1) % n]
    BY <1>1, <1>6
  <2> QED BY <1>4, <1>5, <1>7, <2>1
<1>9. BytesFrom(Stored(d), r, u + m) = Unread \o d
  <2> DEFINE s == BytesFrom(Stored(d), r, u + m)
             t == Unread \o d
  <2>1. s \in Seq(Byte) /\ t \in Seq(Byte) /\ Len(s) = Len(t)
    BY <1>5, <1>7
  <2>2. \A j \in 1 .. Len(s) : s[j] = t[j]
    BY <1>5, <1>8
  <2> HIDE DEF s, t
  <2>3. s = t
    BY <2>1, <2>2, SameSeq
  <2> QED BY <2>3 DEF s, t
<1> QED BY <1>3, <1>9 DEF u

\* Moving the read position on by k drops the k oldest unread bytes.
LEMMA Advance ==
  ASSUME m_szDataBuffer \in [Cells -> Byte],
         m_iReadPosFlag \in Cells, m_iWritePosFlag \in Cells,
         NEW k \in 0 .. GetUsedBufferSize
  PROVE  LET p == (m_iReadPosFlag + k) % m_iDataBufferLen
             m == (m_iWritePosFlag - p + m_iDataBufferLen) % m_iDataBufferLen
         IN  /\ p \in Cells
             /\ m = GetUsedBufferSize - k
             /\ BytesFrom(m_szDataBuffer, p, m)
                  = SubSeq(Unread, k + 1, Len(Unread))
<1> DEFINE r == m_iReadPosFlag
           w == m_iWritePosFlag
           n == m_iDataBufferLen
           u == GetUsedBufferSize
           p == (r + k) % n
           m == (w - p + n) % n
<1>1. /\ r \in 0 .. n - 1 /\ w \in 0 .. n - 1 /\ n \in Nat \ {0}
      /\ u \in 0 .. n - 1 /\ k \in 0 .. u
      /\ Cells = 0 .. n - 1
  BY Sizes, SizeAssumption DEF Cells, m_iDataBufferLen
<1>2. /\ r + k < n => p = r + k
      /\ r + k >= n => p = r + k - n
      /\ p \in Cells
  <2> HIDE DEF u
  <2>1. k \in 0 .. n
    BY <1>1
  <2>2. p \in 0 .. n - 1
    BY <1>1, <2>1, WrapSum
  <2>3. p = IF r + k < n THEN r + k ELSE r + k - n
    BY <1>1, <2>1, WrapSum
  <2> QED BY <1>1, <2>2, <2>3
<1>3. m = u - k
  <2>1. u = IF w >= r THEN w - r ELSE w - r + n
    BY Distance DEF GetUsedBufferSize
  <2>2. m = IF w >= p THEN w - p ELSE w - p + n
    BY <1>2, Distance
  <2> HIDE DEF m, p, u
  <2> QED BY <1>1, <1>2, <2>1, <2>2
<1>4. m \in 0 .. m_iDataBufferLen
  BY <1>1, <1>3
<1> HIDE DEF m, p
<1>5. /\ BytesFrom(m_szDataBuffer, p, m) \in Seq(Byte)
      /\ Len(BytesFrom(m_szDataBuffer, p, m)) = m
      /\ \A j \in 1 .. m : BytesFrom(m_szDataBuffer, p, m)[j] =
                             m_szDataBuffer[(p + j - 1) % n]
  BY <1>2, <1>4, BytesFromCells
<1>6. /\ Unread \in Seq(Byte) /\ Len(Unread) = u
      /\ \A j \in 1 .. u : Unread[j] = m_szDataBuffer[(r + j - 1) % n]
  <2>1. u \in 0 .. m_iDataBufferLen
    BY <1>1
  <2> QED BY <2>1, BytesFromCells DEF Unread, Fetched
<1> HIDE DEF u
<1> DEFINE s == BytesFrom(m_szDataBuffer, p, m)
           t == SubSeq(Unread, k + 1, Len(Unread))
<1>7. /\ t \in Seq(Byte) /\ Len(t) = m
      /\ \A j \in 1 .. m : t[j] = Unread[k + j]
  <2>1. k + 1 \in 1 .. Len(Unread) + 1 /\ Len(Unread) \in 0 .. Len(Unread)
    BY <1>1, <1>6
  <2> QED BY <1>1, <1>3, <1>6, <2>1, SubSeqFacts
<1>8. ASSUME NEW j \in 1 .. m PROVE s[j] = t[j]
  <2>1. k + j \in 1 .. u
    BY <1>1, <1>3
  <2>2. (p + j - 1) % n = (r + (k + j) - 1) % n
    <3> DEFINE x == p + j - 1
               y == r + (k + j) - 1
    <3>1. x \in 0 .. 2 * n - 1 /\ y \in 0 .. 2 * n - 1
      BY <1>1, <1>2, <2>1, <1>4
    <3>2. /\ x < n => x % n = x
          /\ x >= n => x % n = x - n
          /\ y < n => y % n = y
          /\ y >= n => y % n = y - n
      BY <1>1, <3>1, WrapOnce
    <3> QED BY <1>1, <1>2, <3>1, <3>2
  <2>3. Unread[k + j] = m_szDataBuffer[(r + (k + j) - 1) % n]
    BY <1>6, <2>1
  <2> QED BY <1>5, <1>7, <2>2, <2>3
<1>9. s = t
  <2>1. s \in Seq(Byte) /\ t \in Seq(Byte) /\ Len(s) = Len(t)
    BY <1>5, <1>7
  <2>2. \A j \in 1 .. Len(s) : s[j] = t[j]
    BY <1>5, <1>8
  <2> HIDE DEF s, t
  <2> QED BY <2>1, <2>2, SameSeq
<1> QED BY <1>2, <1>3, <1>9 DEF m, p, u

-----------------------------------------------------------------------------
LEMMA CodeLengthType ==
  ASSUME NEW h \in Seq(Byte), Len(h) = HeaderLength
  PROVE  CodeLength(h) \in Nat
<1>1. /\ h[1] \in Nat /\ h[2] \in Nat /\ h[3] \in Nat /\ h[4] \in Nat
      /\ Base \in Nat
  <2>1. /\ 1 \in 1 .. Len(h) /\ 2 \in 1 .. Len(h)
        /\ 3 \in 1 .. Len(h) /\ 4 \in 1 .. Len(h)
    BY DEF HeaderLength
  <2>2. /\ h[1] \in Byte /\ h[2] \in Byte /\ h[3] \in Byte /\ h[4] \in Byte
    BY <2>1
  <2> QED BY <2>2, BaseAssumption DEF Byte
<1>2. \A a, b \in Nat : a * Base + b \in Nat
  BY <1>1
<1> QED BY <1>1, <1>2 DEF CodeLength

\* The positions never leave the allocated cells.
LEMMA TypeStep == TypeOK /\ [Next]_vars => TypeOK'
<1> SUFFICES ASSUME TypeOK, [Next]_vars PROVE TypeOK'
  OBVIOUS
<1>t. /\ m_szDataBuffer \in [Cells -> Byte]
      /\ m_iReadPosFlag \in Cells /\ m_iWritePosFlag \in Cells
      /\ ret \in [code : Int, data : Seq(Byte)]
      /\ TotalBufferSize \in Nat
  BY Constants DEF TypeOK
<1>s. /\ GetUsedBufferSize \in 0 .. TotalBufferSize
      /\ GetFreeBufferSize = TotalBufferSize - GetUsedBufferSize
  BY <1>t, Sizes
<1>r. ASSUME NEW code \in Int, Refuse(code) PROVE TypeOK'
  BY <1>t, <1>r DEF Refuse, Result, TypeOK
<1>p. ASSUME NEW d \in Chunks, Len(d) <= GetFreeBufferSize, Put(d)
      PROVE  TypeOK'
  <2>1. d \in Seq(Byte) /\ Len(d) \in 0 .. m_iDataBufferLen
    BY <1>s, <1>p, ChunksAssumption, Constants DEF m_iDataBufferLen
  <2>2. Stored(d) \in [Cells -> Byte]
    BY <1>t, <1>p, <2>1, StoredBytes
  <2>3. (m_iWritePosFlag + Len(d)) % m_iDataBufferLen \in Cells
    BY <1>t, <2>1, Constants, WrapSum DEF Cells
  <2>4. Result(Len(d), << >>) \in [code : Int, data : Seq(Byte)]
    BY <2>1 DEF Result
  <2> QED BY <1>t, <1>p, <2>2, <2>3, <2>4 DEF Put, TypeOK
<1>f. ASSUME NEW k \in 0 .. GetUsedBufferSize, NEW code \in Int
      PROVE  /\ Result(code, Fetched(k)) \in [code : Int, data : Seq(Byte)]
             /\ (m_iReadPosFlag + k) % m_iDataBufferLen \in Cells
  <2>1. k \in 0 .. m_iDataBufferLen
    BY <1>s, Constants DEF m_iDataBufferLen
  <2>2. Fetched(k) \in Seq(Byte)
    BY <1>t, <2>1, BytesFromCells DEF Fetched
  <2>3. (m_iReadPosFlag + k) % m_iDataBufferLen \in Cells
    BY <1>t, <2>1, Constants, WrapSum DEF Cells
  <2> QED BY <2>2, <2>3 DEF Result
<1>1. ASSUME NEW d \in Chunks, WriteDataToBuffer(d) PROVE TypeOK'
  BY <1>1, <1>r, <1>p DEF WriteDataToBuffer
<1>2. ASSUME NEW d \in Chunks, WriteOneCode(d) PROVE TypeOK'
  BY <1>2, <1>r, <1>p DEF WriteOneCode
<1>3. ASSUME NEW k \in 0 .. MaxLength, CopyDataFromBuffer(k) PROVE TypeOK'
  <2> DEFINE m == IF k < GetUsedBufferSize THEN k ELSE GetUsedBufferSize
  <2>1. m \in 0 .. GetUsedBufferSize /\ m \in Int
    BY <1>s, LengthAssumption
  <2> HIDE DEF m
  <2>2. Result(m, Fetched(m)) \in [code : Int, data : Seq(Byte)]
    BY <1>f, <2>1
  <2> QED BY <1>t, <1>3, <2>2 DEF CopyDataFromBuffer, TypeOK, m
<1>4. ASSUME NEW k \in 0 .. MaxLength, RemoveDataFromBuffer(k) PROVE TypeOK'
  <2>1. CASE k <= GetUsedBufferSize
    <3>1. k \in 0 .. GetUsedBufferSize /\ k \in Int
      BY <1>s, <2>1, LengthAssumption
    <3>2. (m_iReadPosFlag + k) % m_iDataBufferLen \in Cells
      BY <1>f, <3>1
    <3>3. /\ m_iReadPosFlag' = (m_iReadPosFlag + k) % m_iDataBufferLen
          /\ ret' = Result(k, << >>)
          /\ UNCHANGED <<m_szDataBuffer, m_iWritePosFlag>>
      BY <1>s, <1>4, <3>1 DEF RemoveDataFromBuffer
    <3>4. Result(k, << >>) \in [code : Int, data : Seq(Byte)]
      BY <3>1 DEF Result
    <3> QED BY <1>t, <3>2, <3>3, <3>4 DEF TypeOK
  <2>2. CASE ~(k <= GetUsedBufferSize)
    BY <1>4, <1>r, <2>2 DEF RemoveDataFromBuffer
  <2> QED BY <2>1, <2>2
<1>5. ASSUME GetOneCode PROVE TypeOK'
  <2> DEFINE c == CodeLength(Fetched(HeaderLength))
             whole == /\ GetUsedBufferSize >= HeaderLength
                      /\ c > 0 /\ c <= GetUsedBufferSize
  <2>1. CASE ~whole
    BY <1>5, <1>r, <2>1 DEF GetOneCode
  <2>2. CASE whole
    <3>1. HeaderLength \in 0 .. m_iDataBufferLen
      BY <1>s, <2>2, Constants DEF HeaderLength, m_iDataBufferLen
    <3>2. c \in Nat
      BY <1>t, <3>1, BytesFromCells, CodeLengthType DEF Fetched
    <3> HIDE DEF c
    <3>3. c \in 0 .. GetUsedBufferSize /\ c \in Int
      BY <1>s, <2>2, <3>2
    <3>4. /\ Result(c, Fetched(c)) \in [code : Int, data : Seq(Byte)]
          /\ (m_iReadPosFlag + c) % m_iDataBufferLen \in Cells
      BY <1>f, <3>3
    <3>5. \/ ~whole /\ Refuse(0)
          \/ /\ m_iReadPosFlag' = (m_iReadPosFlag + c) % m_iDataBufferLen
             /\ ret' = Result(c, Fetched(c))
             /\ UNCHANGED <<m_szDataBuffer, m_iWritePosFlag>>
      BY <1>5 DEF GetOneCode, c
    <3> QED BY <1>t, <2>2, <3>4, <3>5 DEF TypeOK
  <2> QED BY <2>1, <2>2
<1>6. CASE UNCHANGED vars
  BY <1>t, <1>6 DEF vars, TypeOK
<1> QED BY <1>1, <1>2, <1>3, <1>4, <1>5, <1>6 DEF Next

LEMMA TypeInit == Init => TypeOK
BY Constants DEF Init, TypeOK, Cells, Result

\* Positions stay inside the cells for every capacity and every chunk.
THEOREM TypeCorrect == Spec => []TypeOK
<1> QED BY TypeInit, TypeStep, PTL DEF Spec

\* The two computed sizes always add up to the capacity.
THEOREM SizesCorrect == Spec => []SizesAgree
<1>1. TypeOK => SizesAgree
  BY Sizes, SizeAssumption DEF TypeOK, SizesAgree
<1> QED BY <1>1, TypeCorrect, PTL

-----------------------------------------------------------------------------
LEMMA RefinesInit == TypeOK /\ Init => Fifo!Init
<1> SUFFICES ASSUME TypeOK, Init PROVE Fifo!Init
  OBVIOUS
<1>1. GetUsedBufferSize = 0
  <2>1. m_iReadPosFlag = 0 /\ m_iWritePosFlag = 0 /\ 0 \in Cells
    BY Constants DEF Init, Cells
  <2> QED BY <2>1, Distance DEF GetUsedBufferSize
<1>2. Unread = << >>
  BY <1>1 DEF Unread, Fetched, BytesFrom
<1> QED BY <1>2 DEF Init, Fifo!Init, Result, Fifo!Result

\* Every call on the ring is the same call on the plain queue.
LEMMA RefinesStep == TypeOK /\ [Next]_vars => [Fifo!Next]_<<Unread, ret>>
<1> SUFFICES ASSUME TypeOK, [Next]_vars PROVE [Fifo!Next]_<<Unread, ret>>
  OBVIOUS
<1>t. /\ m_szDataBuffer \in [Cells -> Byte]
      /\ m_iReadPosFlag \in Cells /\ m_iWritePosFlag \in Cells
      /\ TotalBufferSize \in Nat
  BY Constants DEF TypeOK
<1>s. /\ GetUsedBufferSize \in 0 .. TotalBufferSize
      /\ GetFreeBufferSize = TotalBufferSize - GetUsedBufferSize
      /\ Unread \in Seq(Byte) /\ Len(Unread) = GetUsedBufferSize
      /\ GetFreeBufferSize = TotalBufferSize - Len(Unread)
  <2>1. /\ GetUsedBufferSize \in 0 .. TotalBufferSize
        /\ GetFreeBufferSize = TotalBufferSize - GetUsedBufferSize
    BY <1>t, Sizes
  <2>2. GetUsedBufferSize \in 0 .. m_iDataBufferLen
    BY <2>1, Constants DEF m_iDataBufferLen
  <2> QED BY <1>t, <2>1, <2>2, BytesFromCells DEF Unread, Fetched
<1>r. ASSUME NEW code, Refuse(code)
      PROVE  Unread' = Unread /\ ret' = Fifo!Result(code, << >>)
  BY <1>r DEF Refuse, Unread, Fetched, GetUsedBufferSize, Result, Fifo!Result
<1>p. ASSUME NEW d \in Chunks, Len(d) <= GetFreeBufferSize, Put(d)
      PROVE  Unread' = Unread \o d /\ ret' = Fifo!Result(Len(d), << >>)
  <2>1. d \in Seq(Byte) /\ Len(d) \in Nat
    BY ChunksAssumption
  <2>2. BytesFrom(Stored(d), m_iReadPosFlag, GetUsedBufferSize + Len(d))
          = Unread \o d
    BY <1>t, <1>p, <2>1, StoredBytes
  <2>3. GetUsedBufferSize' = GetUsedBufferSize + Len(d)
    <3> DEFINE m == Len(d)
               w == (m_iWritePosFlag + m) % m_iDataBufferLen
    <3>1. /\ m \in 0 .. m_iDataBufferLen
          /\ m_iWritePosFlag \in 0 .. m_iDataBufferLen - 1
          /\ m_iReadPosFlag \in 0 .. m_iDataBufferLen - 1
          /\ m_iDataBufferLen \in Nat \ {0}
          /\ m_iDataBufferLen = TotalBufferSize + 1
      BY <1>p, <1>s, <1>t, <2>1, Constants DEF m_iDataBufferLen, Cells
    <3> HIDE DEF m
    <3>2. /\ w = IF m_iWritePosFlag + m < m_iDataBufferLen
                 THEN m_iWritePosFlag + m
                 ELSE m_iWritePosFlag + m - m_iDataBufferLen
          /\ w \in Cells
      BY <3>1, WrapSum DEF Cells
    <3> HIDE DEF w
    <3>3. GetUsedBufferSize' =
            IF w >= m_iReadPosFlag
            THEN w - m_iReadPosFlag ELSE w - m_iReadPosFlag + m_iDataBufferLen
      BY <1>t, <1>p, <3>2, Distance
      DEF Put, GetUsedBufferSize, m_iDataBufferLen, w, m
    <3>4. GetUsedBufferSize =
            IF m_iWritePosFlag >= m_iReadPosFlag
            THEN m_iWritePosFlag - m_iReadPosFlag
            ELSE m_iWritePosFlag - m_iReadPosFlag + m_iDataBufferLen
      BY <1>t, Distance DEF GetUsedBufferSize
    <3>5. m <= TotalBufferSize - GetUsedBufferSize
      BY <1>p, <1>s DEF m
    <3>6. GetUsedBufferSize' = GetUsedBufferSize + m
      BY <1>t, <3>1, <3>2, <3>3, <3>4, <3>5
    <3> QED BY <3>6 DEF m
  <2>4. Unread' = BytesFrom(Stored(d), m_iReadPosFlag,
                            GetUsedBufferSize + Len(d))
    BY <1>p, <2>3 DEF Put, Unread, Fetched, BytesFrom, m_iDataBufferLen
  <2> QED BY <1>p, <2>2, <2>4 DEF Put, Result, Fifo!Result
<1>f. ASSUME NEW k \in 0 .. GetUsedBufferSize
      PROVE  Fetched(k) = Fifo!Front(k)
  <2>1. GetUsedBufferSize \in 0 .. m_iDataBufferLen
    BY <1>s, Constants DEF m_iDataBufferLen
  <2>2. k \in 0 .. m_iDataBufferLen
    BY <1>s, Constants DEF m_iDataBufferLen
  <2>3. /\ Fetched(k) \in Seq(Byte) /\ Len(Fetched(k)) = k
        /\ \A j \in 1 .. k : Fetched(k)[j] =
             m_szDataBuffer[(m_iReadPosFlag + j - 1) % m_iDataBufferLen]
    BY <1>t, <2>2, BytesFromCells DEF Fetched
  <2>4. \A j \in 1 .. k : Unread[j] =
             m_szDataBuffer[(m_iReadPosFlag + j - 1) % m_iDataBufferLen]
    <3>1. \A j \in 1 .. GetUsedBufferSize : Unread[j] =
             m_szDataBuffer[(m_iReadPosFlag + j - 1) % m_iDataBufferLen]
      BY <1>t, <2>1, BytesFromCells DEF Unread, Fetched
    <3>2. \A j \in 1 .. k : j \in 1 .. GetUsedBufferSize
      BY <1>s
    <3> QED BY <3>1, <3>2
  <2> DEFINE s == Fetched(k)
             t == SubSeq(Unread, 1, k)
  <2>5. /\ t \in Seq(Byte) /\ Len(t) = k
        /\ \A j \in 1 .. k : t[j] = Unread[j]
    BY <1>s, SubSeqFacts
  <2>6. /\ s \in Seq(Byte) /\ t \in Seq(Byte) /\ Len(s) = Len(t)
        /\ \A j \in 1 .. Len(s) : s[j] = t[j]
    BY <2>3, <2>4, <2>5
  <2> HIDE DEF s, t
  <2>7. s = t
    BY <2>6, SameSeq
  <2> QED BY <2>7 DEF s, t, Fifo!Front
<1>a. ASSUME NEW k \in 0 .. GetUsedBufferSize,
             m_iReadPosFlag' = (m_iReadPosFlag + k) % m_iDataBufferLen,
             UNCHANGED <<m_szDataBuffer, m_iWritePosFlag>>
      PROVE  Unread' = Fifo!Rest(k)
  <2> DEFINE p == (m_iReadPosFlag + k) % m_iDataBufferLen
             m == (m_iWritePosFlag - p + m_iDataBufferLen) % m_iDataBufferLen
  <2>1. Unread' = BytesFrom(m_szDataBuffer, p, m)
    BY <1>a DEF Unread, Fetched, BytesFrom, GetUsedBufferSize, m_iDataBufferLen
  <2>2. BytesFrom(m_szDataBuffer, p, m) = SubSeq(Unread, k + 1, Len(Unread))
    BY <1>t, Advance
  <2> QED BY <2>1, <2>2 DEF Fifo!Rest
<1>1. ASSUME NEW d \in Chunks, WriteDataToBuffer(d) PROVE Fifo!Write(d)
  BY <1>1, <1>s, <1>r, <1>p DEF WriteDataToBuffer, Fifo!Write, Fifo!AppendIf,
                                Fifo!Fits
<1>2. ASSUME NEW d \in Chunks, WriteOneCode(d) PROVE Fifo!WriteCode(d)
  <2>1. Len(d) \in Nat
    BY ChunksAssumption
  <2> QED BY <1>2, <1>s, <1>r, <1>p, <2>1
          DEF WriteOneCode, Fifo!WriteCode, Fifo!AppendIf, Fifo!Fits,
              HeaderLength
<1>3. ASSUME NEW k \in 0 .. MaxLength, CopyDataFromBuffer(k)
      PROVE  Fifo!Peek(k)
  <2> DEFINE m == IF k < GetUsedBufferSize THEN k ELSE GetUsedBufferSize
  <2>1. m \in 0 .. GetUsedBufferSize
    BY <1>s, LengthAssumption
  <2>2. ret' = Result(m, Fetched(m)) /\ Unread' = Unread
    BY <1>3 DEF CopyDataFromBuffer, Unread, Fetched, GetUsedBufferSize
  <2>3. Fetched(m) = Fifo!Front(m)
    BY <1>f, <2>1
  <2>4. m = IF k < Len(Unread) THEN k ELSE Len(Unread)
    BY <1>s
  <2> HIDE DEF m
  <2> QED BY <2>2, <2>3, <2>4 DEF Fifo!Peek, Result, Fifo!Result
<1>4. ASSUME NEW k \in 0 .. MaxLength, RemoveDataFromBuffer(k)
      PROVE  Fifo!Remove(k)
  <2>1. CASE k <= GetUsedBufferSize
    <3>1. k \in 0 .. GetUsedBufferSize
      BY <1>s, <2>1, LengthAssumption
    <3>2. /\ m_iReadPosFlag' = (m_iReadPosFlag + k) % m_iDataBufferLen
          /\ ret' = Result(k, << >>)
          /\ UNCHANGED <<m_szDataBuffer, m_iWritePosFlag>>
      BY <1>s, <1>4, <3>1 DEF RemoveDataFromBuffer
    <3>3. Unread' = Fifo!Rest(k)
      BY <1>a, <3>1, <3>2
    <3> QED BY <1>s, <2>1, <3>2, <3>3 DEF Fifo!Remove, Result, Fifo!Result
  <2>2. CASE ~(k <= GetUsedBufferSize)
    <3>1. k > Len(Unread)
      BY <1>s, <2>2, LengthAssumption
    <3> QED BY <1>4, <1>r, <2>2, <3>1 DEF RemoveDataFromBuffer, Fifo!Remove
  <2> QED BY <2>1, <2>2
<1>5. ASSUME GetOneCode PROVE Fifo!TakeCode
  <2> DEFINE c == CodeLength(Fetched(HeaderLength))
             whole == /\ GetUsedBufferSize >= HeaderLength
                      /\ c > 0 /\ c <= GetUsedBufferSize
             fc == CodeLength(Fifo!Front(HeaderLength))
             fwhole == Len(Unread) >= HeaderLength /\ fc > 0 /\ fc <= Len(Unread)
  <2>1. whole <=> fwhole
    <3>1. CASE GetUsedBufferSize >= HeaderLength
      <4>1. HeaderLength \in 0 .. GetUsedBufferSize
        BY <1>s, <3>1 DEF HeaderLength
      <4> QED BY <1>s, <1>f, <4>1
    <3>2. CASE ~(GetUsedBufferSize >= HeaderLength)
      BY <1>s, <3>2
    <3> QED BY <3>1, <3>2
  <2>2. CASE ~whole
    <3>1. Refuse(0)
      BY <1>5, <2>2 DEF GetOneCode
    <3> QED BY <1>r, <2>1, <2>2, <3>1 DEF Fifo!TakeCode
  <2>3. CASE whole
    <3>1. HeaderLength \in 0 .. GetUsedBufferSize
      BY <1>s, <2>3 DEF HeaderLength
    <3>2. c = fc
      BY <1>f, <3>1
    <3>3. c \in Nat
      <4>1. HeaderLength \in 0 .. m_iDataBufferLen
        BY <1>s, <3>1, Constants DEF m_iDataBufferLen
      <4> QED BY <1>t, <4>1, BytesFromCells, CodeLengthType DEF Fetched
    <3>4. /\ m_iReadPosFlag' = (m_iReadPosFlag + c) % m_iDataBufferLen
          /\ ret' = Result(c, Fetched(c))
          /\ UNCHANGED <<m_szDataBuffer, m_iWritePosFlag>>
      BY <1>5, <2>3 DEF GetOneCode
    <3> HIDE DEF c
    <3>5. c \in 0 .. GetUsedBufferSize
      BY <1>s, <2>3, <3>3
    <3>6. Fetched(c) = Fifo!Front(c) /\ Unread' = Fifo!Rest(c)
      BY <1>f, <1>a, <3>4, <3>5
    <3> QED BY <2>1, <2>3, <3>2, <3>4, <3>6
            DEF Fifo!TakeCode, Result, Fifo!Result
  <2> QED BY <2>2, <2>3
<1>6. CASE UNCHANGED vars
  BY <1>6 DEF vars, Unread, Fetched, GetUsedBufferSize
<1>7. [Next]_vars => (Next \/ UNCHANGED vars)
  OBVIOUS
<1> QED BY <1>1, <1>2, <1>3, <1>4, <1>5, <1>6, <1>7 DEF Next, Fifo!Next

\* The ring buffer implements the plain bounded queue.
THEOREM Refinement == Spec => ImplementsFifo
<1>1. Spec => Fifo!Init
  BY TypeInit, RefinesInit DEF Spec
<1>2. Spec => [][Fifo!Next]_<<Unread, ret>>
  BY TypeCorrect, RefinesStep, PTL DEF Spec
<1> QED BY <1>1, <1>2, PTL DEF ImplementsFifo, Fifo!Spec
=============================================================================
