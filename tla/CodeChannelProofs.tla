-------------------------- MODULE CodeChannelProofs --------------------------
(***************************************************************************)
(* Proofs about CodeChannel: whatever the capacities, the windows and the  *)
(* sizes of codes, the bytes of the codes are one stream across the four   *)
(* queues, snd_queue is bounded and packed, a sound code is refused only   *)
(* under back pressure, and ReceiveOneCode overlooks no code as long as    *)
(* codes leave m_receive_queue room for a segment.                         *)
(***************************************************************************)
EXTENDS CodeChannel, SegmentsProofs

LEMMA StretchEnds ==
  ASSUME NEW q, NEW lo, NEW hi, Stretch(q, lo, hi)
  PROVE  /\ hi = Upto(q, lo) /\ Spans(q, lo, hi)
         /\ q \in Seq(Payload) /\ lo \in Nat /\ hi \in Nat /\ lo <= hi
BY DEF Stretch, Spans, Upto

\* What holds of the sender s when the receiver has got the first base bytes.
SenderOK(s, base) ==
  /\ s \in Sender
  /\ s.m_send[1] <= s.m_send[2] /\ s.m_send[2] - s.m_send[1] <= Capacity
  /\ \E f : Stretch(s.flight, base, f) /\ Stretch(s.snd_queue, f, s.m_send[1])
  /\ Packed(s.snd_queue)
  /\ Len(s.flight) <= SndWnd
  /\ Len(s.snd_queue) <= SndWnd - 1 + Ceiling(Capacity)

LEMMA SenderFacts ==
  ASSUME NEW s \in Sender
  PROVE  /\ s.m_send \in Payload /\ s.m_send[1] \in Nat /\ s.m_send[2] \in Nat
         /\ s.snd_queue \in Seq(Payload) /\ s.flight \in Seq(Payload)
BY DEF Sender, Payload

-----------------------------------------------------------------------------
(* What the sender's operations keep *)

LEMMA FlushedKeeps ==
  ASSUME NEW s, NEW base, SenderOK(s, base)
  PROVE  /\ SenderOK(Flushed(s), base)
         /\ Flushed(s).m_send[2] = s.m_send[2] /\ Flushed(s).flight = s.flight
         /\ Flushed(s) = s \/ Flushed(s).m_send[1] = s.m_send[2]
<1>1. CASE Len(s.snd_queue) >= SndWnd \/ Length(s.m_send) = 0
  BY <1>1 DEF Flushed
<1>2. CASE ~(Len(s.snd_queue) >= SndWnd \/ Length(s.m_send) = 0)
  <2> DEFINE mid == s.m_send[1]
             hi == s.m_send[2]
             t == [s EXCEPT !.snd_queue = Queued(@, mid, hi), !.m_send = <<hi, hi>>]
  <2>1. s \in Sender /\ mid <= hi /\ hi - mid <= Capacity /\ Packed(s.snd_queue)
    BY DEF SenderOK
  <2>2. mid \in Nat /\ hi \in Nat /\ s.snd_queue \in Seq(Payload) /\ s.flight \in Seq(Payload)
    BY <2>1, SenderFacts
  <2>3. PICK f : Stretch(s.flight, base, f) /\ Stretch(s.snd_queue, f, mid)
    BY DEF SenderOK
  <2>4. /\ Stretch(Queued(s.snd_queue, mid, hi), f, hi)
        /\ Packed(Queued(s.snd_queue, mid, hi))
        /\ Len(Queued(s.snd_queue, mid, hi)) <= Len(s.snd_queue) + Ceiling(hi - mid)
    BY <2>1, <2>2, <2>3, SendKeepsTheStream
  <2>5. Queued(s.snd_queue, mid, hi) \in Seq(Payload)
    BY <2>4, StretchEnds
  <2>6. Flushed(s) = t
    BY <1>2 DEF Flushed
  <2>7. <<hi, hi>> \in Payload
    BY <2>2 DEF Payload
  <2>8. /\ t \in Sender /\ t.flight = s.flight
        /\ t.snd_queue = Queued(s.snd_queue, mid, hi) /\ t.m_send = <<hi, hi>>
    BY <2>1, <2>5, <2>7 DEF Sender
  <2>9. Len(t.snd_queue) <= SndWnd - 1 + Ceiling(Capacity)
    <3>1. hi - mid \in Nat /\ Capacity \in Nat /\ SndWnd \in Nat
      BY <2>1, <2>2, ChannelAssumption
    <3>2. Ceiling(hi - mid) <= Ceiling(Capacity)
      BY <2>1, <3>1, CeilingGrows
    <3>3. Ceiling(hi - mid) \in Nat /\ Ceiling(Capacity) \in Nat
      BY <3>1, CeilingFacts
    <3>4. Len(s.snd_queue) \in Nat /\ Len(s.snd_queue) <= SndWnd - 1
      BY <1>2, <2>2, <3>1
    <3>5. Len(t.snd_queue) \in Nat
      BY <2>5, <2>8
    <3> QED  BY <2>4, <2>8, <3>1, <3>2, <3>3, <3>4, <3>5
  <2>10. /\ t.m_send[1] = hi /\ t.m_send[2] = hi /\ hi - hi <= Capacity /\ hi <= hi
    BY <2>2, <2>8, ChannelAssumption
  <2>11. Len(t.flight) <= SndWnd
    BY <2>8 DEF SenderOK
  <2> HIDE DEF t, hi, mid
  <2>12. SenderOK(t, base)
    BY <2>3, <2>4, <2>8, <2>9, <2>10, <2>11 DEF SenderOK
  <2> QED  BY <2>6, <2>8, <2>10, <2>12 DEF hi
<1> QED  BY <1>1, <1>2

LEMMA AdmittedKeeps ==
  ASSUME NEW s, NEW base, SenderOK(s, base), NEW k \in Admissible(s)
  PROVE  /\ SenderOK(Admitted(s, k), base)
         /\ Admitted(s, k).m_send = s.m_send
<1> DEFINE q == s.snd_queue
           a == SubSeq(q, 1, k)
           b == SubSeq(q, k + 1, Len(q))
           t == [s EXCEPT !.flight = @ \o a, !.snd_queue = b]
<1>1. /\ s \in Sender /\ Packed(q) /\ Len(s.flight) <= SndWnd
      /\ Len(q) <= SndWnd - 1 + Ceiling(Capacity)
  BY DEF SenderOK
<1>2. s.m_send \in Payload /\ q \in Seq(Payload) /\ s.flight \in Seq(Payload)
  BY <1>1, SenderFacts
<1>3. PICK f : Stretch(s.flight, base, f) /\ Stretch(q, f, s.m_send[1])
  BY DEF SenderOK
<1>4. k \in 0 .. Len(q) /\ k + Len(s.flight) <= SndWnd
  <2>1. Len(q) \in Nat /\ Len(s.flight) \in Nat /\ SndWnd \in Nat
    BY <1>2, ChannelAssumption
  <2>2. k \in 0 .. Smaller(SndWnd - Len(s.flight), Len(q))
    BY DEF Admissible
  <2> HIDE DEF q
  <2> QED  BY <2>1, <2>2 DEF Smaller
<1> DEFINE g == IF k = 0 THEN f ELSE q[k][2]
<1>5. /\ Stretch(a, f, g) /\ Stretch(b, g, s.m_send[1]) /\ Packed(b)
      /\ Len(a) = k /\ Len(b) = Len(q) - k
  BY <1>1, <1>3, <1>4, StretchCut
<1> HIDE DEF q, a, b, g
<1>6. Stretch(s.flight \o a, base, g)
  BY <1>3, <1>5, StretchesJoin
<1>7. s.flight \o a \in Seq(Payload) /\ a \in Seq(Payload) /\ b \in Seq(Payload)
  BY <1>5, <1>6, StretchEnds
<1>8. t \in Sender /\ t.flight = s.flight \o a /\ t.snd_queue = b /\ t.m_send = s.m_send
  BY <1>1, <1>7 DEF Sender
<1>9. Len(t.flight) <= SndWnd
  <2>1. Len(s.flight) \in Nat /\ SndWnd \in Nat
    BY <1>2, ChannelAssumption
  <2>2. Len(s.flight \o a) = Len(s.flight) + Len(a)
    BY <1>2, <1>7
  <2>3. Len(t.flight) = Len(s.flight) + k
    BY <1>5, <1>8, <2>2
  <2> QED  BY <1>4, <2>1, <2>3
<1>10. Len(t.snd_queue) <= SndWnd - 1 + Ceiling(Capacity)
  <2>1. Ceiling(Capacity) \in Nat /\ SndWnd \in Nat
    BY ChannelAssumption, CeilingFacts
  <2>2. Len(b) <= Len(q)
    BY <1>2, <1>4, <1>5
  <2>3. Len(b) \in Nat /\ Len(q) \in Nat
    BY <1>2, <1>7
  <2> QED  BY <1>1, <1>8, <2>1, <2>2, <2>3
<1> HIDE DEF t
<1>11. t.m_send[1] <= t.m_send[2] /\ t.m_send[2] - t.m_send[1] <= Capacity
  BY <1>8 DEF SenderOK
<1>12. SenderOK(t, base)
  BY <1>5, <1>6, <1>8, <1>9, <1>10, <1>11 DEF SenderOK
<1>13. t = Admitted(s, k)
  BY DEF Admitted, t, a, b, q
<1> QED  BY <1>8, <1>12, <1>13

LEMMA UpdatedKeeps ==
  ASSUME NEW s, NEW base, SenderOK(s, base), NEW t \in Updated(s)
  PROVE  SenderOK(t, base) /\ t.m_send[2] = s.m_send[2]
<1>1. PICK k \in Admissible(Flushed(s)) : t = Flushed(Admitted(Flushed(s), k))
  BY DEF Updated
<1>2. SenderOK(Flushed(s), base) /\ Flushed(s).m_send[2] = s.m_send[2]
  BY FlushedKeeps
<1>3. /\ SenderOK(Admitted(Flushed(s), k), base)
      /\ Admitted(Flushed(s), k).m_send = Flushed(s).m_send
  BY <1>2, AdmittedKeeps
<1>4. SenderOK(t, base) /\ t.m_send[2] = Admitted(Flushed(s), k).m_send[2]
  BY <1>1, <1>3, FlushedKeeps
<1> QED  BY <1>2, <1>3, <1>4

LEMMA WrittenKeeps ==
  ASSUME NEW s, NEW base, SenderOK(s, base), NEW code \in Code, Accepts(s, code)
  PROVE  /\ SenderOK(Written(s, code.len), base)
         /\ Written(s, code.len).m_send[2] = s.m_send[2] + code.len
         /\ code.len \in Nat /\ code.len <= Capacity
<1> DEFINE len == code.len
           t == [s EXCEPT !.m_send = <<@[1], @[2] + len>>]
<1>1. /\ s \in Sender /\ s.m_send[1] <= s.m_send[2]
      /\ Packed(s.snd_queue) /\ Len(s.flight) <= SndWnd
      /\ Len(s.snd_queue) <= SndWnd - 1 + Ceiling(Capacity)
      /\ \E f : Stretch(s.flight, base, f) /\ Stretch(s.snd_queue, f, s.m_send[1])
  BY DEF SenderOK
<1>2. s.m_send[1] \in Nat /\ s.m_send[2] \in Nat /\ len \in Nat /\ Capacity \in Nat
  BY <1>1, SenderFacts, ChannelAssumption DEF Code
<1>3. len <= Capacity - (s.m_send[2] - s.m_send[1])
  BY DEF Accepts, Length
<1>4. <<s.m_send[1], s.m_send[2] + len>> \in Payload
  BY <1>2 DEF Payload
<1>5. /\ t \in Sender /\ t.m_send = <<s.m_send[1], s.m_send[2] + len>>
      /\ t.flight = s.flight /\ t.snd_queue = s.snd_queue
  BY <1>1, <1>4 DEF Sender
<1>6. t.m_send[1] = s.m_send[1] /\ t.m_send[2] = s.m_send[2] + len
  BY <1>5
<1> HIDE DEF t
<1>7. t.m_send[1] <= t.m_send[2] /\ t.m_send[2] - t.m_send[1] <= Capacity
  BY <1>1, <1>2, <1>3, <1>6
<1>8. SenderOK(t, base)
  BY <1>1, <1>5, <1>6, <1>7 DEF SenderOK
<1>9. len <= Capacity
  BY <1>1, <1>2, <1>3
<1> QED  BY <1>2, <1>6, <1>8, <1>9 DEF Written, t

\* What has arrived leaves the sender's side and goes on at the receiver's.
LEMMA ArrivesKeeps ==
  ASSUME NEW s, NEW base, SenderOK(s, base), NEW k \in 0 .. Len(s.flight)
  PROVE  LET t == [s EXCEPT !.flight = SubSeq(@, k + 1, Len(@))]
         IN  \E g : /\ Stretch(SubSeq(s.flight, 1, k), base, g)
                    /\ SenderOK(t, g) /\ t.m_send = s.m_send
<1> DEFINE q == s.flight
           a == SubSeq(q, 1, k)
           b == SubSeq(q, k + 1, Len(q))
           t == [s EXCEPT !.flight = b]
           g == IF k = 0 THEN base ELSE q[k][2]
<1>1. /\ s \in Sender /\ s.m_send[1] <= s.m_send[2]
      /\ s.m_send[2] - s.m_send[1] <= Capacity
      /\ Packed(s.snd_queue) /\ Len(q) <= SndWnd
      /\ Len(s.snd_queue) <= SndWnd - 1 + Ceiling(Capacity)
  BY DEF SenderOK
<1>2. PICK f : Stretch(q, base, f) /\ Stretch(s.snd_queue, f, s.m_send[1])
  BY DEF SenderOK
<1>3. Stretch(a, base, g) /\ Stretch(b, g, f) /\ Len(b) = Len(q) - k
  BY <1>2, StretchCut
<1>4. q \in Seq(Payload) /\ b \in Seq(Payload) /\ SndWnd \in Nat
  BY <1>2, <1>3, StretchEnds, ChannelAssumption
<1>5. Len(b) <= SndWnd
  <2>1. Len(q) \in Nat
    BY <1>4
  <2> HIDE DEF q, b
  <2> QED  BY <1>1, <1>3, <1>4, <2>1
<1> HIDE DEF b, g, a
<1>6. /\ t \in Sender /\ t.flight = b
      /\ t.m_send = s.m_send /\ t.snd_queue = s.snd_queue
  BY <1>1, <1>4 DEF Sender
<1> HIDE DEF t
<1>7. SenderOK(t, g)
  BY <1>1, <1>2, <1>3, <1>5, <1>6 DEF SenderOK
<1> QED  BY <1>3, <1>6, <1>7 DEF t, b, a

-----------------------------------------------------------------------------
(* The inductive invariant *)

\* The lengths of codes that m_send_queue can hold.
FittingSizes == {c \in CodeSizes : c <= Capacity}

\* A code ends not long after any place of the stream.
CodesEnd ==
  \A x \in Nat : x < sender.m_send[2]
                   => \E e \in ends, c \in FittingSizes : x < e /\ e <= x + c

Inv ==
  /\ SenderOK(sender, Arrived)
  /\ Stretch(rcv_queue, moved, Arrived)
  /\ taken \in Nat /\ moved \in Nat /\ taken <= moved /\ moved - taken <= Capacity
  /\ refused \in Code \cup {NoCode}
  /\ reading \in BOOLEAN /\ connected \in BOOLEAN /\ told \in BOOLEAN
  /\ ends \subseteq Nat /\ taken \in ends \cup {0}
  /\ \A e \in ends : e <= sender.m_send[2]
  /\ CodesEnd

LEMMA InitInv == Init => Inv
<1> SUFFICES ASSUME Init PROVE Inv
  OBVIOUS
<1>1. /\ sender.m_send = <<0, 0>> /\ sender.snd_queue = << >> /\ sender.flight = << >>
      /\ sender \in Sender
  BY DEF Init, Sender, NoData, Payload
<1>2. Stretch(<< >>, 0, 0) /\ Packed(<< >>)
  BY EmptyStretch
<1>3. Arrived = 0 /\ moved = 0 /\ taken = 0 /\ rcv_queue = << >> /\ ends = {}
  BY DEF Init, Arrived, Upto
<1>4. /\ Len(sender.flight) <= SndWnd
      /\ Len(sender.snd_queue) <= SndWnd - 1 + Ceiling(Capacity)
  <2>1. Ceiling(Capacity) \in Nat /\ SndWnd \in Nat \ {0}
    BY ChannelAssumption, CeilingFacts
  <2>2. Len(sender.flight) = 0 /\ Len(sender.snd_queue) = 0
    BY <1>1
  <2> QED  BY <2>1, <2>2
<1>5. 0 - 0 <= Capacity
  BY ChannelAssumption
<1>6. SenderOK(sender, 0)
  BY <1>1, <1>2, <1>4, <1>5 DEF SenderOK
<1>7. /\ refused \in Code \cup {NoCode}
      /\ reading \in BOOLEAN /\ connected \in BOOLEAN /\ told \in BOOLEAN
  BY DEF Init
<1>8. CodesEnd
  BY <1>1 DEF CodesEnd
<1> QED  BY <1>2, <1>3, <1>5, <1>6, <1>7, <1>8 DEF Inv

LEMMA SendInv ==
  ASSUME Inv, NEW code \in Code, SendOneCode(code)
  PROVE  Inv'
<1>1. /\ UNCHANGED <<rcv_queue, moved, taken, reading, connected, told>> /\ Arrived' = Arrived
  BY DEF SendOneCode, receiver, Arrived, Upto
<1>2. /\ SenderOK(Flushed(sender), Arrived)
      /\ Flushed(sender).m_send[2] = sender.m_send[2]
  BY FlushedKeeps DEF Inv
<1>3. CASE sender' = Flushed(sender) /\ refused' = code /\ ends' = ends
  <2>1. SenderOK(sender', Arrived') /\ sender'.m_send[2] = sender.m_send[2]
    BY <1>1, <1>2, <1>3
  <2>2. CodesEnd'
    BY <1>3, <2>1 DEF Inv, CodesEnd
  <2>3. \A e \in ends' : e <= sender'.m_send[2]
    BY <1>3, <2>1 DEF Inv
  <2>4. /\ refused' \in Code \cup {NoCode}
        /\ reading' \in BOOLEAN /\ connected' \in BOOLEAN /\ told' \in BOOLEAN
    BY <1>1, <1>3 DEF Inv
  <2>5. ends' \subseteq Nat /\ taken' \in ends' \cup {0}
    BY <1>1, <1>3 DEF Inv
  <2> QED  BY <1>1, <2>1, <2>2, <2>3, <2>4, <2>5 DEF Inv
<1>4. CASE /\ Accepts(Flushed(sender), code)
           /\ ends' = ends \cup {sender.m_send[2] + code.len}
           /\ IF failed THEN sender' = Flushed(Written(Flushed(sender), code.len))
              ELSE sender' \in Updated(Flushed(Written(Flushed(sender), code.len)))
           /\ UNCHANGED refused
  <2> DEFINE len == code.len
             w == Written(Flushed(sender), len)
             u == sender.m_send[2]
  <2>0. /\ SenderOK(w, Arrived) /\ w.m_send[2] = u + len
        /\ len \in Nat /\ len <= Capacity
    BY <1>2, <1>4, WrittenKeeps
  <2>1. SenderOK(w, Arrived) /\ w.m_send[2] = u + len /\ len \in FittingSizes
    BY <2>0 DEF FittingSizes, Code
  <2> HIDE DEF w
  <2>2. SenderOK(Flushed(w), Arrived) /\ Flushed(w).m_send[2] = u + len
    BY <2>1, FlushedKeeps
  <2>3. SenderOK(sender', Arrived) /\ sender'.m_send[2] = u + len
    <3>1. CASE failed
      BY <1>4, <2>2, <3>1 DEF w
    <3>2. CASE ~failed
      <4>1. sender' \in Updated(Flushed(w))
        BY <1>4, <3>2 DEF w
      <4> QED  BY <2>2, <4>1, UpdatedKeeps
    <3> QED  BY <3>1, <3>2
  <2>4. u \in Nat /\ len \in Nat
    BY <2>0, SenderFacts DEF Inv, SenderOK
  <2>5. ends' = ends \cup {u + len}
    BY <1>4
  <2>6. sender'.m_send[2] = u + len
    BY <2>3
  <2>7. /\ \A e \in ends : e \in Nat /\ e <= u
        /\ \A x \in Nat : x < u => \E e \in ends, c \in FittingSizes : x < e /\ e <= x + c
    BY DEF Inv, CodesEnd
  <2> HIDE DEF u, len
  <2>8. \A e \in ends' : e <= sender'.m_send[2]
    BY <2>4, <2>5, <2>6, <2>7
  <2>9. CodesEnd'
    <3> SUFFICES ASSUME NEW x \in Nat, x < u + len
                 PROVE  \E e \in ends', c \in FittingSizes : x < e /\ e <= x + c
      BY <2>6 DEF CodesEnd
    <3>1. CASE x < u
      BY <2>5, <2>7, <3>1
    <3>2. CASE ~(x < u)
      <4>1. x < u + len /\ u + len <= x + len
        BY <2>4, <3>2
      <4> QED  BY <2>1, <2>5, <4>1
    <3> QED  BY <3>1, <3>2
  <2>10. ends' \subseteq Nat /\ taken' \in ends' \cup {0}
    BY <1>1, <2>4, <2>5 DEF Inv
  <2>11. /\ refused' \in Code \cup {NoCode}
         /\ reading' \in BOOLEAN /\ connected' \in BOOLEAN /\ told' \in BOOLEAN
    BY <1>1, <1>4 DEF Inv
  <2> QED  BY <1>1, <2>3, <2>8, <2>9, <2>10, <2>11 DEF Inv
<1> QED  BY <1>3, <1>4 DEF SendOneCode

LEMMA UpdateInv == ASSUME Inv, SenderUpdate PROVE Inv'
<1>1. /\ UNCHANGED <<refused, rcv_queue, moved, taken, reading, connected, told, ends>>
      /\ Arrived' = Arrived
  BY DEF SenderUpdate, receiver, Arrived, Upto
<1>2. sender' \in Updated(sender) /\ SenderOK(sender, Arrived)
  BY DEF SenderUpdate, Inv
<1>3. SenderOK(sender', Arrived) /\ sender'.m_send[2] = sender.m_send[2]
  BY <1>2, UpdatedKeeps
<1>4. CodesEnd'
  BY <1>1, <1>3 DEF Inv, CodesEnd
<1>5. \A e \in ends' : e <= sender'.m_send[2]
  BY <1>1, <1>3 DEF Inv
<1>6. /\ refused' \in Code \cup {NoCode}
      /\ reading' \in BOOLEAN /\ connected' \in BOOLEAN /\ told' \in BOOLEAN
  BY <1>1 DEF Inv
<1> QED  BY <1>1, <1>3, <1>4, <1>5, <1>6 DEF Inv

\* What GetOneCode takes is a code that has moved.
LEMMA GetFacts ==
  ASSUME Inv, GetOneCode(moved)
  PROVE  /\ taken' \in ends \cup {0} /\ taken' \in Nat
         /\ taken <= taken' /\ taken' <= moved
         /\ taken' = taken => \A e \in ends : taken < e => moved < e
<1>1. /\ taken \in ends \cup {0} /\ taken \in Nat /\ moved \in Nat /\ taken <= moved
      /\ \A e \in ends : e \in Nat
  BY DEF Inv
<1>2. CASE \E e \in ends : Whole(e, moved) /\ taken' = e
  <2>1. PICK e \in ends : taken < e /\ e <= moved /\ taken' = e
    BY <1>2 DEF Whole
  <2> QED  BY <1>1, <2>1
<1>3. CASE (\A e \in ends : ~Whole(e, moved)) /\ taken' = taken
  BY <1>1, <1>3 DEF Whole
<1> QED  BY <1>2, <1>3 DEF GetOneCode

\* What ReceiverUpdate does to the stream.
LEMMA ReceiverUpdateFacts ==
  ASSUME Inv, NEW arrived \in Nat, ReceiverUpdate(arrived)
  PROVE  /\ SenderOK(sender', Arrived') /\ sender'.m_send = sender.m_send
         /\ connected' \in BOOLEAN /\ told' \in BOOLEAN
         /\ Stretch(rcv_queue', moved', Arrived')
         /\ moved' \in Nat /\ moved <= moved' /\ moved' - taken <= Capacity
         /\ \/ moved' > moved
            \/ moved' = Arrived'
            \/ moved' = moved /\ moved > taken + Capacity - Mss
<1> DEFINE queue == rcv_queue \o SubSeq(sender.flight, 1, arrived)
<1>0. connected' \in BOOLEAN /\ told' \in BOOLEAN
  BY DEF ReceiverUpdate
<1>1. /\ SenderOK(sender, Arrived) /\ Stretch(rcv_queue, moved, Arrived)
      /\ taken \in Nat /\ moved \in Nat /\ taken <= moved /\ moved - taken <= Capacity
  BY DEF Inv
<1>2. sender.flight \in Seq(Payload)
  BY <1>1, SenderFacts DEF SenderOK
<1>3. arrived \in 0 .. Len(sender.flight)
  BY <1>2 DEF ReceiverUpdate
<1>4. PICK g : /\ Stretch(SubSeq(sender.flight, 1, arrived), Arrived, g)
               /\ SenderOK(sender', g) /\ sender'.m_send = sender.m_send
  BY <1>1, <1>3, ArrivesKeeps DEF ReceiverUpdate
<1>5. Stretch(queue, moved, g)
  BY <1>1, <1>4, StretchesJoin
<1>6. PICK j \in 0 .. Len(queue) :
           /\ Fit(queue, j) /\ ~Fit(queue, j + 1)
           /\ moved' = IF j = 0 THEN moved ELSE queue[j][2]
           /\ rcv_queue' = SubSeq(queue, j + 1, Len(queue))
  BY DEF ReceiverUpdate
<1> HIDE DEF queue
<1>7. Stretch(rcv_queue', moved', g) /\ (j > 0 => moved < moved')
  BY <1>5, <1>6, StretchCut
<1>8. g = Arrived'
  BY <1>7, StretchEnds DEF Arrived, Upto
<1>9. moved' \in Nat
  BY <1>7, StretchEnds
<1>10. queue \in Seq(Payload) /\ g \in Nat /\ Mss \in Nat /\ Capacity \in Nat
  BY <1>5, StretchEnds, MssAssumption, ChannelAssumption
<1>11. CASE j = 0
  <2>1. moved' = moved
    BY <1>6, <1>11
  <2>2. CASE queue = << >>
    <3>1. g = moved
      BY <1>5, <2>2, StretchEnds DEF Upto
    <3> QED  BY <1>0, <1>1, <1>4, <1>7, <1>8, <2>1, <3>1
  <2>3. CASE queue # << >>
    <3>1. 1 \in DOMAIN queue /\ 1 <= Len(queue)
      BY <1>10, <2>3
    <3>2. queue[1][1] = moved /\ queue[1][2] - queue[1][1] <= Mss
      BY <1>5, <3>1 DEF Stretch, Spans, Length
    <3>3. queue[1][2] \in Nat
      BY <1>10, <3>1 DEF Payload
    <3>4. ~(queue[1][2] - taken <= Capacity)
      <4>1. ~(\A i \in 1 .. 1 : queue[i][2] - taken <= Capacity)
        BY <1>6, <1>11, <3>1 DEF Fit
      <4> QED  BY <4>1
    <3>5. moved > taken + Capacity - Mss
      <4>1. PICK e \in Nat : e = queue[1][2]
        BY <3>3
      <4>2. e - moved <= Mss /\ ~(e - taken <= Capacity)
        BY <3>2, <3>4, <4>1
      <4> QED  BY <1>1, <1>10, <4>2
    <3> QED  BY <1>0, <1>1, <1>4, <1>7, <1>8, <2>1, <3>5
  <2> QED  BY <2>2, <2>3
<1>12. CASE j # 0
  <2>1. moved' = queue[j][2] /\ moved < moved'
    BY <1>6, <1>7, <1>12
  <2>2. moved' - taken <= Capacity
    BY <1>6, <1>12, <2>1 DEF Fit
  <2> QED  BY <1>0, <1>1, <1>4, <1>7, <1>8, <1>9, <2>1, <2>2
<1> QED  BY <1>11, <1>12

LEMMA Shrinks ==
  \A a, b, c, d \in Nat : a - b <= d /\ b <= c => a - c <= d
OBVIOUS

LEMMA NextInv == Inv /\ [Next]_vars => Inv'
<1> SUFFICES ASSUME Inv, [Next]_vars PROVE Inv'
  OBVIOUS
<1>0. /\ taken \in Nat /\ moved \in Nat /\ Capacity \in Nat
      /\ taken <= moved /\ moved - taken <= Capacity
  BY ChannelAssumption DEF Inv
<1>1. ASSUME NEW code \in Code, SendOneCode(code) PROVE Inv'
  BY <1>1, SendInv
<1>2. CASE SenderUpdate
  BY <1>2, UpdateInv
<1>3. CASE ReceiveOneCode
  <2>1. /\ GetOneCode(moved)
        /\ UNCHANGED <<sender, refused, rcv_queue, moved, connected, told, ends>>
    BY <1>3 DEF ReceiveOneCode
  <2>2. /\ taken' \in ends \cup {0} /\ taken' \in Nat /\ taken <= taken' /\ taken' <= moved
    BY <2>1, GetFacts
  <2>3. reading' \in BOOLEAN
    BY <1>3 DEF ReceiveOneCode
  <2>4. Arrived' = Arrived /\ CodesEnd'
    BY <2>1 DEF Inv, Arrived, Upto, CodesEnd
  <2>5. moved' - taken' <= Capacity
    <3>1. PICK t \in Nat : t = taken'
      BY <2>2
    <3>2. moved' = moved
      BY <2>1
    <3>3. taken <= t
      BY <2>2, <3>1
    <3>4. moved - t <= Capacity
      BY <1>0, <3>3, Shrinks
    <3> QED  BY <3>1, <3>2, <3>4
  <2> QED  BY <2>1, <2>2, <2>3, <2>4, <2>5 DEF Inv
<1>4. ASSUME NEW arrived \in 0 .. RcvWnd, ReceiveLoop(arrived) PROVE Inv'
  <2>1. /\ arrived \in Nat /\ ReceiverUpdate(arrived)
        /\ UNCHANGED <<refused, ends>>
    BY <1>4, ChannelAssumption DEF ReceiveLoop
  <2>2. /\ SenderOK(sender', Arrived') /\ sender'.m_send = sender.m_send
        /\ connected' \in BOOLEAN /\ told' \in BOOLEAN
        /\ Stretch(rcv_queue', moved', Arrived')
        /\ moved' \in Nat /\ moved <= moved' /\ moved' - taken <= Capacity
    BY <2>1, ReceiverUpdateFacts
  <2>3. \/ reading' = ~told' /\ UNCHANGED taken
        \/ reading' = FALSE /\ GetOneCode(moved)
    BY <1>4 DEF ReceiveLoop
  <2>4. /\ taken' \in ends \cup {0} /\ taken' \in Nat /\ taken <= taken' /\ taken' <= moved
    BY <2>3, GetFacts DEF Inv
  <2>5. reading' \in BOOLEAN
    BY <2>3 DEF Inv
  <2>6. moved' - taken' <= Capacity /\ taken' <= moved'
    <3>1. PICK t \in Nat : t = taken'
      BY <2>4
    <3>2. PICK m \in Nat : m = moved'
      BY <2>2
    <3>3. taken <= t /\ t <= moved /\ moved <= m /\ m - taken <= Capacity
      BY <2>2, <2>4, <3>1, <3>2
    <3>4. m - t <= Capacity
      BY <1>0, <3>3, Shrinks
    <3>5. t <= m
      BY <1>0, <3>3
    <3> QED  BY <3>1, <3>2, <3>4, <3>5
  <2>7. CodesEnd' /\ \A e \in ends' : e <= sender'.m_send[2]
    BY <2>1, <2>2 DEF Inv, CodesEnd
  <2> QED  BY <2>1, <2>2, <2>4, <2>5, <2>6, <2>7 DEF Inv
<1>5. ASSUME NEW arrived \in 0 .. RcvWnd, UpdateAlone(arrived) PROVE Inv'
  <2>1. /\ arrived \in Nat /\ ReceiverUpdate(arrived)
        /\ UNCHANGED <<refused, reading, taken, ends>>
    BY <1>5, ChannelAssumption DEF UpdateAlone
  <2>2. /\ SenderOK(sender', Arrived') /\ sender'.m_send = sender.m_send
        /\ connected' \in BOOLEAN /\ told' \in BOOLEAN
        /\ Stretch(rcv_queue', moved', Arrived')
        /\ moved' \in Nat /\ moved <= moved' /\ moved' - taken <= Capacity
    BY <2>1, ReceiverUpdateFacts
  <2>3. taken' <= moved'
    BY <2>1, <2>2 DEF Inv
  <2>4. CodesEnd' /\ \A e \in ends' : e <= sender'.m_send[2]
    BY <2>1, <2>2 DEF Inv, CodesEnd
  <2> QED  BY <2>1, <2>2, <2>3, <2>4 DEF Inv
<1>6. CASE ReconnectLogicServer
  <2>1. /\ UNCHANGED <<sender, refused, rcv_queue, moved, taken, reading, told, ends>>
        /\ connected' \in BOOLEAN
    BY <1>6 DEF ReconnectLogicServer
  <2>2. Arrived' = Arrived /\ CodesEnd'
    BY <2>1 DEF Inv, Arrived, Upto, CodesEnd
  <2> QED  BY <2>1, <2>2 DEF Inv
<1>7. CASE UNCHANGED vars
  <2>1. /\ UNCHANGED <<sender, refused, rcv_queue, moved, taken, reading>>
        /\ UNCHANGED <<connected, told, ends>>
    BY <1>7 DEF vars, receiver
  <2>2. Arrived' = Arrived /\ CodesEnd'
    BY <2>1 DEF Inv, Arrived, Upto, CodesEnd
  <2> QED  BY <2>1, <2>2 DEF Inv
<1> QED  BY <1>1, <1>2, <1>3, <1>4, <1>5, <1>6, <1>7 DEF Next

THEOREM Invariance == Spec => []Inv
BY InitInv, NextInv, PTL DEF Spec

-----------------------------------------------------------------------------
(* The theorems *)

\* The type invariant: every queue stays within its limit.
THEOREM TypeCorrect == Spec => []TypeOK
<1>1. ASSUME Inv PROVE TypeOK
  <2>1. /\ sender \in Sender /\ sender.m_send[1] <= sender.m_send[2]
        /\ sender.m_send[2] - sender.m_send[1] <= Capacity
        /\ Len(sender.flight) <= SndWnd
    BY <1>1 DEF Inv, SenderOK
  <2>2. /\ sender.m_send[1] \in Nat /\ sender.m_send[2] \in Nat
        /\ sender.flight \in Seq(Payload)
    BY <2>1, SenderFacts
  <2>3. /\ taken \in Nat /\ moved \in Nat /\ taken <= moved /\ moved - taken <= Capacity
        /\ Capacity \in Nat /\ SndWnd \in Nat
    BY <1>1, ChannelAssumption DEF Inv
  <2>4. Length(sender.m_send) \in 0 .. Capacity
    BY <2>1, <2>2, <2>3 DEF Length
  <2>5. Len(sender.flight) \in 0 .. SndWnd
    BY <2>1, <2>2, <2>3
  <2>6. moved - taken \in 0 .. Capacity
    BY <2>3
  <2>7. rcv_queue \in Seq(Payload) /\ ends \subseteq Nat
    BY <1>1, StretchEnds DEF Inv
  <2>8. /\ refused \in Code \cup {NoCode}
        /\ reading \in BOOLEAN /\ connected \in BOOLEAN /\ told \in BOOLEAN
    BY <1>1 DEF Inv
  <2> QED  BY <2>1, <2>3, <2>4, <2>5, <2>6, <2>7, <2>8 DEF TypeOK
<1> QED  BY <1>1, Invariance, PTL

\* The four queues hold one stream: no byte is lost, repeated or overtaken
\* between SendOneCode and ReceiveOneCode, however ikcp_send cuts it up and
\* ikcp_recv joins it.
THEOREM StreamIsOne == Spec => []OneStream
<1>1. ASSUME Inv PROVE OneStream
  <2>1. PICK f : /\ Stretch(sender.flight, Arrived, f)
                 /\ Stretch(sender.snd_queue, f, sender.m_send[1])
    BY <1>1 DEF Inv, SenderOK
  <2>2. f = Flown
    BY <2>1, StretchEnds DEF Flown
  <2> QED  BY <1>1, <2>1, <2>2, StretchEnds DEF Inv, OneStream
<1> QED  BY <1>1, Invariance, PTL

\* ikcp_send leaves no half-filled payload but the last in snd_queue.
THEOREM SegmentsArePacked == Spec => []SegmentsPacked
<1>1. ASSUME Inv PROVE SegmentsPacked
  <2>1. PICK f : Stretch(sender.snd_queue, f, sender.m_send[1])
    BY <1>1 DEF Inv, SenderOK
  <2>2. Packed(sender.snd_queue)
    BY <1>1 DEF Inv, SenderOK
  <2> QED  BY <2>1, <2>2 DEF SegmentsPacked, Packed, Stretch
<1> QED  BY <1>1, Invariance, PTL

\* The length of snd_queue is bounded by the window and one m_send_queue,
\* whatever the application sends.
THEOREM SendQueueIsBounded == Spec => []SendQueueBounded
<1>1. Inv => SendQueueBounded
  BY DEF Inv, SenderOK, SendQueueBounded, Ceiling
<1> QED  BY <1>1, Invariance, PTL

\* SendOneCode refuses a code only if it is malformed, larger than m_send_queue,
\* or when more than SndWnd - 1 full segments wait for the window.
THEOREM ExitsOnlyUnderPressure == Spec => ExitsUnderPressure
<1> DEFINE Step == refused' # refused =>
                     \/ ~WellFormed(refused') \/ refused'.len > Capacity
                     \/ /\ Len(sender'.snd_queue) >= SndWnd
                        /\ sender'.m_send[2] - Flown' > (SndWnd - 1) * Mss
<1>1. ASSUME Inv, [Next]_vars PROVE Step
  <2> SUFFICES ASSUME refused' # refused, WellFormed(refused'), ~(refused'.len > Capacity)
               PROVE  /\ Len(sender'.snd_queue) >= SndWnd
                      /\ sender'.m_send[2] - Flown' > (SndWnd - 1) * Mss
    OBVIOUS
  <2>1. PICK code \in Code : SendOneCode(code)
    BY <1>1 DEF Next, vars, SenderUpdate, ReceiveOneCode, ReceiveLoop, UpdateAlone,
                ReconnectLogicServer
  <2> DEFINE len == code.len
  <2>2. /\ ~(len <= Capacity - Length(Flushed(sender).m_send)) /\ ~(len > Capacity)
        /\ sender' = Flushed(sender) /\ UNCHANGED receiver
    BY <2>1 DEF SendOneCode, Accepts
  <2>3. SenderOK(sender, Arrived)
    BY <1>1 DEF Inv
  <2>4. /\ sender \in Sender /\ Packed(sender.snd_queue)
        /\ sender.m_send[1] <= sender.m_send[2]
    BY <2>3 DEF SenderOK
  <2>5. /\ sender.m_send[1] \in Nat /\ sender.m_send[2] \in Nat
        /\ sender.snd_queue \in Seq(Payload)
    BY <2>4, SenderFacts
  <2>6. /\ len \in Nat /\ len <= Capacity
        /\ Capacity \in Nat /\ SndWnd \in Nat \ {0} /\ Mss \in Nat
    <3>1. len \in Nat /\ Capacity \in Nat
      BY ChannelAssumption DEF Code
    <3> QED  BY <2>2, <3>1, ChannelAssumption, MssAssumption
  <2>7. Len(sender.snd_queue) >= SndWnd
    <3> SUFFICES ASSUME ~(Len(sender.snd_queue) >= SndWnd) PROVE FALSE
      OBVIOUS
    <3>1. Length(Flushed(sender).m_send) = 0
      <4>1. CASE Length(sender.m_send) = 0
        BY <4>1 DEF Flushed
      <4>2. CASE Length(sender.m_send) # 0
        <5>1. Flushed(sender).m_send = <<sender.m_send[2], sender.m_send[2]>>
          BY <2>4, <4>2 DEF Flushed, Sender
        <5> QED  BY <2>5, <5>1 DEF Length
      <4> QED  BY <4>1, <4>2
    <3> QED  BY <2>2, <2>6, <3>1
  <2>8. sender' = sender
    BY <2>2, <2>7 DEF Flushed
  <2>9. PICK f : /\ Stretch(sender.flight, Arrived, f)
                 /\ Stretch(sender.snd_queue, f, sender.m_send[1])
    BY <2>3 DEF SenderOK
  <2>10. Flown' = f
    <3>1. Arrived' = Arrived
      BY <2>2 DEF Arrived, Upto, receiver
    <3>2. Flown' = Flown
      BY <2>8, <3>1 DEF Flown, Upto
    <3> QED  BY <2>9, <3>2, StretchEnds DEF Flown
  <2>11. sender.m_send[1] - f > (Len(sender.snd_queue) - 1) * Mss
    <3>1. sender.snd_queue # << >>
      BY <2>6, <2>7
    <3> QED  BY <2>4, <2>9, <3>1, PackedHoldsMuch
  <2>12. (SndWnd - 1) * Mss <= (Len(sender.snd_queue) - 1) * Mss
    <3>1. /\ SndWnd - 1 \in Int /\ Len(sender.snd_queue) - 1 \in Int
          /\ SndWnd - 1 <= Len(sender.snd_queue) - 1
      BY <2>5, <2>6, <2>7
    <3> QED  BY <2>6, <3>1, Monotone
  <2>13. PICK x \in Int, y \in Int :
            x = (SndWnd - 1) * Mss /\ y = (Len(sender.snd_queue) - 1) * Mss
    <3>1. Len(sender.snd_queue) \in Nat
      BY <2>5
    <3> QED  BY <2>6, <3>1
  <2>14. f \in Nat
    BY <2>9, StretchEnds
  <2>15. sender.m_send[2] - f > x
    <3>1. sender.m_send[1] - f > y
      BY <2>11, <2>13, Zenon
    <3>2. x <= y
      BY <2>12, <2>13, Zenon
    <3> QED  BY <2>4, <2>5, <2>13, <2>14, <3>1, <3>2
  <2> QED  BY <2>7, <2>8, <2>10, <2>13, <2>15
<1> HIDE DEF Step
<1>2. Spec => [][Step]_vars
  BY <1>1, Invariance, PTL DEF Spec
<1> QED  BY <1>2 DEF ExitsUnderPressure, Step

\* If every code that m_send_queue can hold leaves m_receive_queue room for a
\* segment but one byte, a ReceiveOneCode that found the session connected
\* returns 0 only when no whole code has arrived: no code is stuck between
\* rcv_queue and m_receive_queue, though the connection ends meanwhile.
THEOREM ZeroMeansNoCode ==
  ASSUME \A c \in CodeSizes : c <= Capacity => c <= Capacity - Mss + 1
  PROVE  Spec => ZeroMeansNone
<1> DEFINE Step == reading /\ ~reading' /\ moved' = moved /\ taken' = taken
                     => \A e \in ends : e <= taken \/ e > Arrived'
<1>1. ASSUME Inv, [Next]_vars PROVE Step
  <2> SUFFICES ASSUME reading, ~reading', moved' = moved, taken' = taken,
                      NEW e \in ends, ~(e <= taken \/ e > Arrived')
               PROVE  FALSE
    OBVIOUS
  <2>1. PICK arrived \in 0 .. RcvWnd : ReceiveLoop(arrived)
    BY <1>1 DEF Next, vars, receiver, SendOneCode, SenderUpdate, ReceiveOneCode, UpdateAlone,
                ReconnectLogicServer
  <2>2. /\ arrived \in Nat /\ ReceiverUpdate(arrived)
        /\ moved' = moved /\ GetOneCode(moved)
    <3>1. arrived \in Nat
      BY ChannelAssumption
    <3>2. ReceiverUpdate(arrived)
      BY <2>1 DEF ReceiveLoop
    <3>3. moved \in Nat /\ moved' = moved
      BY <1>1 DEF Inv
    <3>4. ~(moved' > moved)
      BY <3>3
    <3>5. GetOneCode(moved)
      BY <2>1, <3>4 DEF ReceiveLoop
    <3> QED  BY <3>1, <3>2, <3>3, <3>5
  <2>3. \A d \in ends : taken < d => moved < d
    BY <1>1, <2>2, GetFacts
  <2>4. /\ taken \in Nat /\ moved \in Nat /\ e \in Nat /\ e <= sender.m_send[2]
        /\ ends \subseteq Nat /\ SenderOK(sender, Arrived)
    BY <1>1 DEF Inv
  <2>5. Arrived' \in Nat
    BY <1>1, <2>2, ReceiverUpdateFacts, StretchEnds
  <2>6. taken < e /\ e <= Arrived' /\ moved < e
    BY <2>3, <2>4, <2>5
  <2>7. /\ moved' \in Nat
        /\ \/ moved' > moved
           \/ moved' = Arrived'
           \/ moved' = moved /\ moved > taken + Capacity - Mss
    BY <1>1, <2>2, ReceiverUpdateFacts
  <2>8. moved > taken + Capacity - Mss
    BY <2>2, <2>4, <2>5, <2>6, <2>7
  <2>9. PICK d \in ends, c \in FittingSizes : taken < d /\ d <= taken + c
    <3>1. sender.m_send[2] \in Nat
      BY <2>4, SenderFacts DEF SenderOK
    <3>2. taken < sender.m_send[2]
      BY <2>4, <2>6, <3>1
    <3> QED  BY <1>1, <2>4, <3>2 DEF Inv, CodesEnd
  <2>10. c \in Nat /\ d \in Nat /\ c <= Capacity - Mss + 1 /\ Capacity \in Nat /\ Mss \in Nat
    BY <2>4, ChannelAssumption, MssAssumption DEF FittingSizes
  <2>11. d <= moved
    BY <2>4, <2>8, <2>9, <2>10
  <2> QED  BY <2>3, <2>4, <2>9, <2>10, <2>11
<1> HIDE DEF Step
<1>2. Spec => [][Step]_vars
  BY <1>1, Invariance, PTL DEF Spec
<1> QED  BY <1>2 DEF ZeroMeansNone, Step
=============================================================================
