----------------------------- MODULE KcpProofs ------------------------------
(***************************************************************************)
(* The protocol of Kcp for every window, segment size, stream and network: *)
(* the inductive invariant and the safety properties it gives.             *)
(***************************************************************************)
EXTENDS Kcp, SegmentsProofs, SequenceTheorems, TLAPS

LEMMA PeerFacts ==
  \A n \in Node : /\ Peer(n) \in Node /\ Peer(n) # n /\ Peer(Peer(n)) = n
                  /\ \A m \in Node : m = n \/ m = Peer(n)
BY NodeAssumption DEF Node, Peer

-----------------------------------------------------------------------------
(* Sequences *)

LEMMA Pieces ==
  ASSUME NEW S, NEW q \in Seq(S), NEW a \in 1 .. Len(q) + 1,
         NEW b \in 0 .. Len(q), a <= b + 1
  PROVE  /\ SubSeq(q, a, b) \in Seq(S)
         /\ Len(SubSeq(q, a, b)) = b - a + 1
         /\ \A j \in 1 .. b - a + 1 : SubSeq(q, a, b)[j] = q[a + j - 1]
  OBVIOUS

LEMMA Joined ==
  ASSUME NEW S, NEW s \in Seq(S), NEW t \in Seq(S)
  PROVE  /\ s \o t \in Seq(S) /\ Len(s \o t) = Len(s) + Len(t)
         /\ \A i \in 1 .. Len(s) : (s \o t)[i] = s[i]
         /\ \A i \in 1 .. Len(t) : (s \o t)[Len(s) + i] = t[i]
  OBVIOUS

LEMMA Regroup ==
  ASSUME NEW S, NEW s \in Seq(S), NEW t \in Seq(S), NEW u \in Seq(S)
  PROVE  s \o (t \o u) = (s \o t) \o u
BY ConcatAssociative

\* Cutting a sequence and joining the pieces gives it back.
LEMMA Cut ==
  ASSUME NEW S, NEW q \in Seq(S), NEW k \in 0 .. Len(q)
  PROVE  /\ SubSeq(q, 1, k) \in Seq(S) /\ Len(SubSeq(q, 1, k)) = k
         /\ SubSeq(q, k + 1, Len(q)) \in Seq(S)
         /\ Len(SubSeq(q, k + 1, Len(q))) = Len(q) - k
BY Pieces

LEMMA CutAndJoin ==
  ASSUME NEW S, NEW d \in Seq(S), NEW q \in Seq(S), NEW k \in 0 .. Len(q)
  PROVE  (d \o SubSeq(q, 1, k)) \o SubSeq(q, k + 1, Len(q)) = d \o q
<1>1. SubSeq(q, 1, k) \in Seq(S) /\ SubSeq(q, k + 1, Len(q)) \in Seq(S)
  BY Cut
<1>2. SubSeq(q, 1, k) \o SubSeq(q, k + 1, Len(q)) = SubSeq(q, 1, Len(q))
  <2>1. /\ 1 \in 1 .. Len(q) + 1 /\ k \in 1 - 1 .. Len(q)
        /\ Len(q) \in k .. Len(q)
    OBVIOUS
  <2> QED BY <2>1, ConcatAdjacentSubSeq
<1>3. SubSeq(q, 1, Len(q)) = q
  BY SubSeqFull
<1>4. (d \o SubSeq(q, 1, k)) \o SubSeq(q, k + 1, Len(q))
        = d \o (SubSeq(q, 1, k) \o SubSeq(q, k + 1, Len(q)))
  <2> DEFINE a == SubSeq(q, 1, k)
             b == SubSeq(q, k + 1, Len(q))
  <2>1. a \in Seq(S) /\ b \in Seq(S)
    BY <1>1
  <2> HIDE DEF a, b
  <2>2. d \o (a \o b) = (d \o a) \o b
    BY <2>1, Regroup
  <2> QED BY <2>2 DEF a, b
<1> QED BY <1>2, <1>3, <1>4

\* A prefix grows by the elements that follow it.
LEMMA PrefixGrows ==
  ASSUME NEW S, NEW h \in Seq(S), NEW r \in Seq(S), NEW x \in Nat,
         x + Len(r) <= Len(h), \A i \in 1 .. Len(r) : r[i] = h[x + i]
  PROVE  SubSeq(h, 1, x) \o r = SubSeq(h, 1, x + Len(r))
<1> DEFINE t == SubSeq(h, x + 1, x + Len(r))
<1>1. /\ t \in Seq(S) /\ Len(t) = Len(r)
      /\ \A j \in 1 .. Len(r) : t[j] = h[x + j]
  <2>1. /\ x + 1 \in 1 .. Len(h) + 1 /\ x + Len(r) \in 0 .. Len(h)
        /\ x + 1 <= (x + Len(r)) + 1
        /\ (x + Len(r)) - (x + 1) + 1 = Len(r)
        /\ \A j \in 1 .. Len(r) : (x + 1) + j - 1 = x + j
    OBVIOUS
  <2> QED BY <2>1, Pieces
<1> HIDE DEF t
<1>2. r = t
  BY <1>1, SeqEqual
<1>3. SubSeq(h, 1, x) \o SubSeq(h, x + 1, x + Len(r))
        = SubSeq(h, 1, x + Len(r))
  <2>1. /\ 1 \in 1 .. Len(h) + 1 /\ x \in 1 - 1 .. Len(h)
        /\ x + Len(r) \in x .. Len(h)
    OBVIOUS
  <2> QED BY <2>1, ConcatAdjacentSubSeq
<1> QED BY <1>2, <1>3 DEF t

\* Appending to a sequence leaves its prefixes alone.
LEMMA PrefixStays ==
  ASSUME NEW S, NEW h \in Seq(S), NEW t \in Seq(S), NEW x \in 0 .. Len(h)
  PROVE  SubSeq(h \o t, 1, x) = SubSeq(h, 1, x)
<1>1. CASE x = 0
  BY <1>1, SubSeqEmpty
<1>2. CASE x > 0
  <2>1. 1 \in 1 .. Len(h) /\ x \in 1 .. Len(h)
    BY <1>2
  <2> QED BY <2>1, SubSeqOfConcat1
<1> QED BY <1>1, <1>2

-----------------------------------------------------------------------------
(* Payloads *)

LEMMA FragmentCount ==
  ASSUME NEW n \in Nat
  PROVE  (n + Mss - 1) \div Mss \in Nat
BY MssAssumption

LEMMA FragmentsType ==
  ASSUME NEW lo \in Nat, NEW hi \in Nat, lo <= hi
  PROVE  Fragments(lo, hi) \in Seq(Payload)
<1> DEFINE c == (hi - lo + Mss - 1) \div Mss
<1>1. c \in Nat
  BY FragmentCount
<1> HIDE DEF c
<1>2. ASSUME NEW i \in 1 .. c
      PROVE  <<lo + (i - 1) * Mss, Smaller(lo + i * Mss, hi)>> \in Payload
  <2>1. (i - 1) * Mss \in Nat /\ i * Mss \in Nat
    BY MssAssumption
  <2> QED BY <2>1 DEF Payload, Smaller
<1>3. Fragments(lo, hi) = [i \in 1 .. c |->
          <<lo + (i - 1) * Mss, Smaller(lo + i * Mss, hi)>>]
  BY DEF Fragments, c
<1>4. Fragments(lo, hi) \in [1 .. c -> Payload]
  BY <1>2, <1>3
<1> QED BY <1>1, <1>4

LEMMA ExtendedType ==
  ASSUME NEW queue \in Seq(Payload), queue # << >>, NEW room \in Nat
  PROVE  Extended(queue, room) \in Seq(Payload)
<1>1. Len(queue) \in 1 .. Len(queue) /\ queue[Len(queue)] \in Payload
  OBVIOUS
<1>2. <<queue[Len(queue)][1], queue[Len(queue)][2] + room>> \in Payload
  BY <1>1 DEF Payload
<1> QED BY <1>1, <1>2, ExceptSeq DEF Extended

-----------------------------------------------------------------------------
(* The inductive invariant *)

Protocol == <<snd_buf, snd_una, snd_nxt, receiving, acklist, net, hist, delivered>>

LEMMA InitInv == Init => IInv
<1> SUFFICES ASSUME Init PROVE IInv
  OBVIOUS
<1>1. TypeOK
  BY WindowAssumption DEF Init, TypeOK
<1>2. InOrder
  <2>1. \A n \in Node : hist[n] = << >> /\ delivered[n] \o rcv_queue[n] = << >>
    BY DEF Init
  <2> QED BY <2>1, PeerFacts, SubSeqEmpty DEF Init, InOrder
<1>3. /\ NothingLost /\ SendBufferGenuine /\ ReceiveBufferGenuine
      /\ AcksTrue /\ InFlightTrue
  BY PeerFacts DEF Init, NothingLost, SendBufferGenuine,
                   ReceiveBufferGenuine, AcksTrue, InFlightTrue
<1>4. WindowsKept
  BY WindowAssumption DEF Init, WindowsKept
<1> QED BY <1>1, <1>2, <1>3, <1>4 DEF IInv

\* A step that leaves the protocol's own state alone keeps the invariant.
LEMMA ProtocolUnchanged ==
  ASSUME IInv, UNCHANGED Protocol
  PROVE  /\ InOrder' /\ NothingLost' /\ WindowsKept' /\ SendBufferGenuine'
         /\ ReceiveBufferGenuine' /\ AcksTrue' /\ InFlightTrue'
<1>1. /\ snd_buf' = snd_buf /\ snd_una' = snd_una /\ snd_nxt' = snd_nxt
      /\ rcv_nxt' = rcv_nxt /\ rcv_buf' = rcv_buf /\ rcv_queue' = rcv_queue
      /\ acklist' = acklist /\ net' = net /\ hist' = hist
      /\ delivered' = delivered
  BY DEF Protocol, receiving
<1>2. InOrder'
  BY <1>1 DEF IInv, InOrder
<1>3. NothingLost'
  BY <1>1 DEF IInv, NothingLost, Got
<1>4. WindowsKept'
  BY <1>1 DEF IInv, WindowsKept, InWindow
<1>5. SendBufferGenuine' /\ ReceiveBufferGenuine'
  BY <1>1 DEF IInv, SendBufferGenuine, ReceiveBufferGenuine, Genuine
<1>6. AcksTrue'
  BY <1>1 DEF IInv, AcksTrue, Got
<1>7. InFlightTrue'
  BY <1>1 DEF IInv, InFlightTrue, Genuine, Got
<1> QED BY <1>2, <1>3, <1>4, <1>5, <1>6, <1>7

LEMMA SendInv ==
  ASSUME IInv, NEW n \in Node, NEW len \in 1 .. MaxSend, Send(n, len)
  PROVE  IInv'
<1> DEFINE extend == Smaller(len, TailRoom(snd_queue[n]))
           queue == IF extend = 0 THEN snd_queue[n]
                    ELSE Extended(snd_queue[n], extend)
           frags == Fragments(sent[n] + extend, sent[n] + len)
<1>t. TypeOK
  BY DEF IInv
<1>1. TypeOK'
  <2>1. len \in Nat /\ sent[n] \in Nat /\ snd_queue[n] \in Seq(Payload)
    BY <1>t, BoundAssumption DEF TypeOK
  <2>2. /\ extend \in Nat /\ extend <= len
        /\ extend # 0 => snd_queue[n] # << >>
    <3>1. CASE snd_queue[n] = << >>
      BY <2>1, <3>1 DEF Smaller, TailRoom
    <3>2. CASE snd_queue[n] # << >>
      <4>1. Length(snd_queue[n][Len(snd_queue[n])]) \in Int
        BY <2>1, <3>2 DEF Length, Payload
      <4>2. TailRoom(snd_queue[n]) \in Nat
        BY <3>2, <4>1, MssAssumption DEF TailRoom
      <4> QED BY <2>1, <3>2, <4>2 DEF Smaller
    <3> QED BY <3>1, <3>2
  <2> HIDE DEF extend
  <2>3. queue \in Seq(Payload)
    BY <2>1, <2>2, ExtendedType
  <2>4. frags \in Seq(Payload)
    <3>1. /\ sent[n] + extend \in Nat /\ sent[n] + len \in Nat
          /\ sent[n] + extend <= sent[n] + len
      BY <2>1, <2>2
    <3> QED BY <3>1, FragmentsType
  <2> HIDE DEF queue, frags
  <2>5. queue \o frags \in Seq(Payload)
    BY <2>3, <2>4
  <2>6. snd_queue' = [snd_queue EXCEPT ![n] = queue \o frags]
    <3>1. snd_queue' = [snd_queue EXCEPT ![n] =
                          Queued(@, sent[n], sent[n] + len)]
      BY DEF Send
    <3>2. (sent[n] + len) - sent[n] = len
      BY <2>1
    <3>3. Queued(snd_queue[n], sent[n], sent[n] + len) = queue \o frags
      BY <3>2 DEF Queued, queue, frags, extend
    <3> QED BY <3>1, <3>3
  <2>7. snd_queue' \in [Node -> Seq(Payload)]
    BY <1>t, <2>5, <2>6 DEF TypeOK
  <2>8. sent' \in [Node -> Nat]
    BY <1>t, <2>1 DEF TypeOK, Send
  <2> QED BY <1>t, <2>7, <2>8 DEF TypeOK, Send, receiving, probes
<1>2. UNCHANGED Protocol
  BY DEF Send, Protocol
<1> QED BY <1>1, <1>2, ProtocolUnchanged DEF IInv

LEMMA LoseInv ==
  ASSUME IInv, NEW m \in net, Lose(m)
  PROVE  IInv'
<1>1. TypeOK'
  BY DEF IInv, TypeOK, Lose, sending, receiving, probes
<1>2. UNCHANGED <<sending, snd_buf, snd_una, snd_nxt, receiving, acklist, delivered>>
      /\ net' \subseteq net
  BY DEF Lose
<1> QED
  BY <1>1, <1>2
  DEF IInv, sending, receiving, InOrder, NothingLost, WindowsKept, InWindow,
      SendBufferGenuine, ReceiveBufferGenuine, AcksTrue, InFlightTrue,
      Genuine, Got

\* ikcp_flush: the payloads it numbers are new ones, after all that exist.
LEMMA AdmittedFacts ==
  ASSUME IInv, NEW n \in Node
  PROVE  /\ Admitted(n) \in 0 .. Len(snd_queue[n])
         /\ snd_nxt[n] + Admitted(n) <= snd_una[n] + SndWnd
<1>1. /\ snd_una[n] \in Nat /\ snd_nxt[n] \in Nat /\ rmt_wnd[n] \in Nat
      /\ SndWnd \in Nat /\ Len(snd_queue[n]) \in Nat
  BY WindowAssumption DEF IInv, TypeOK
<1>2. snd_nxt[n] <= snd_una[n] + SndWnd
  BY DEF IInv, WindowsKept
<1> QED BY <1>1, <1>2 DEF Admitted, Smaller

\* What ikcp_encode_seg makes of a segment.
LEMMA OutgoingFacts ==
  ASSUME TypeOK, NEW n \in Node, NEW cmd \in {"PUSH", "ACK", "WASK", "WINS"},
         NEW sn \in Nat, NEW data \in Payload
  PROVE  /\ Outgoing(n, cmd, sn, data) \in Segment
         /\ Outgoing(n, cmd, sn, data).to = Peer(n)
         /\ Outgoing(n, cmd, sn, data).una = rcv_nxt[n]
         /\ Outgoing(n, cmd, sn, data).cmd = cmd
         /\ Outgoing(n, cmd, sn, data).sn = sn
         /\ Outgoing(n, cmd, sn, data).data = data
<1>1. WndUnused(n) \in Nat /\ Peer(n) \in Node /\ rcv_nxt[n] \in Nat
  BY PeerFacts, WindowAssumption DEF WndUnused, TypeOK
<1> QED BY <1>1 DEF Outgoing, Segment

LEMMA AcksFacts ==
  ASSUME IInv, NEW n \in Node, NEW k \in 0 .. Len(acklist[n]), NEW m \in Acks(n, k)
  PROVE  /\ m \in Segment /\ m.to = Peer(n) /\ m.una = rcv_nxt[n]
         /\ m.cmd = "ACK" /\ Got(n, m.sn)
<1>1. PICK i \in 1 .. k : m = Outgoing(n, "ACK", acklist[n][i], NoData)
  BY DEF Acks
<1>2. acklist[n] \in Seq(Nat) /\ TypeOK
  BY DEF IInv, TypeOK
<1>3. i \in DOMAIN acklist[n]
  BY <1>2
<1>4. acklist[n][i] \in Nat /\ Got(n, acklist[n][i])
  BY <1>2, <1>3 DEF IInv, AcksTrue
<1>5. NoData \in Payload
  BY DEF NoData, Payload
<1> QED BY <1>1, <1>2, <1>4, <1>5, OutgoingFacts

LEMMA ProbesFacts ==
  ASSUME TypeOK, NEW n \in Node, NEW probe_due \in BOOLEAN,
         NEW m \in Asks(n, probe_due) \cup Tells(n)
  PROVE  /\ m \in Segment /\ m.to = Peer(n) /\ m.una = rcv_nxt[n]
         /\ m.cmd \in {"WASK", "WINS"}
<1>1. m = Outgoing(n, "WASK", 0, NoData) \/ m = Outgoing(n, "WINS", 0, NoData)
  BY DEF Asks, Tells
<1>2. NoData \in Payload
  BY DEF NoData, Payload
<1> QED BY <1>1, <1>2, OutgoingFacts

LEMMA FlushInv ==
  ASSUME IInv, NEW n \in Node, NEW due \in SUBSET snd_buf[n],
         NEW probe_due \in BOOLEAN, Flush(n, due, probe_due)
  PROVE  IInv'
<1> DEFINE k == Admitted(n)
           added == SubSeq(snd_queue[n], 1, k)
<1>t. TypeOK
  BY DEF IInv
<1>1. /\ k \in 0 .. Len(snd_queue[n]) /\ k \in Nat
      /\ snd_nxt[n] + k <= snd_una[n] + SndWnd
  BY AdmittedFacts, <1>t DEF TypeOK
<1>2. /\ snd_queue[n] \in Seq(Payload) /\ hist[n] \in Seq(Payload)
      /\ snd_nxt[n] \in Nat /\ rcv_nxt[n] \in Nat /\ Len(hist[n]) = snd_nxt[n]
  BY <1>t DEF TypeOK, IInv, SendBufferGenuine
<1>3. /\ snd_buf' = [snd_buf EXCEPT ![n] = @ \cup Fresh(n)]
      /\ snd_nxt' = [snd_nxt EXCEPT ![n] = @ + k]
      /\ hist' = [hist EXCEPT ![n] = @ \o added]
      /\ snd_queue' = [snd_queue EXCEPT ![n] = SubSeq(@, k + 1, Len(@))]
      /\ acklist' = [acklist EXCEPT ![n] = << >>]
      /\ snd_una' = snd_una /\ rcv_nxt' = rcv_nxt /\ rcv_buf' = rcv_buf
      /\ rcv_queue' = rcv_queue /\ delivered' = delivered
  BY DEF Flush, receiving
<1>4. Fresh(n) = {[sn |-> snd_nxt[n] + i - 1, data |-> snd_queue[n][i]] : i \in 1 .. k}
  BY DEF Fresh
<1> HIDE DEF k
<1>5. /\ added \in Seq(Payload) /\ Len(added) = k
      /\ \A i \in 1 .. k : added[i] = snd_queue[n][i]
  <2>1. /\ 1 \in 1 .. Len(snd_queue[n]) + 1 /\ 1 <= k + 1
        /\ k - 1 + 1 = k /\ \A i \in 1 .. k : 1 + i - 1 = i
    BY <1>1, <1>2
  <2> QED BY <1>1, <1>2, <2>1, Pieces
<1> HIDE DEF added
<1>6. /\ hist[n] \o added \in Seq(Payload)
      /\ Len(hist[n] \o added) = snd_nxt[n] + k
      /\ \A i \in 1 .. snd_nxt[n] : (hist[n] \o added)[i] = hist[n][i]
      /\ \A i \in 1 .. k : (hist[n] \o added)[snd_nxt[n] + i] = added[i]
  <2> DEFINE h == hist[n]
  <2>1. h \in Seq(Payload) /\ Len(h) = snd_nxt[n]
    BY <1>2
  <2> HIDE DEF h
  <2>2. /\ h \o added \in Seq(Payload) /\ Len(h \o added) = Len(h) + Len(added)
        /\ \A i \in 1 .. Len(h) : (h \o added)[i] = h[i]
        /\ \A i \in 1 .. Len(added) : (h \o added)[Len(h) + i] = added[i]
    <3>1. added \in Seq(Payload)
      BY <1>5
    <3> QED BY <2>1, <3>1, Joined
  <2>3. /\ h \o added \in Seq(Payload) /\ Len(h \o added) = snd_nxt[n] + k
        /\ \A i \in 1 .. snd_nxt[n] : (h \o added)[i] = h[i]
        /\ \A i \in 1 .. k : (h \o added)[snd_nxt[n] + i] = added[i]
    <3>1. Len(added) = k
      BY <1>5
    <3> QED BY <2>1, <2>2, <3>1, Zenon
  <2> QED BY <2>3 DEF h
<1>7. /\ hist'[n] = hist[n] \o added /\ snd_nxt'[n] = snd_nxt[n] + k
      /\ snd_buf'[n] = snd_buf[n] \cup Fresh(n)
      /\ \A x \in Node \ {n} : /\ hist'[x] = hist[x] /\ snd_nxt'[x] = snd_nxt[x]
                               /\ snd_buf'[x] = snd_buf[x]
                               /\ acklist'[x] = acklist[x]
      /\ acklist'[n] = << >>
  BY <1>t, <1>3 DEF TypeOK
<1>8. ASSUME NEW x \in Node, NEW sn \in Nat, NEW data, Genuine(x, sn, data)
      PROVE  Genuine(x, sn, data)'
  <2>1. CASE x = n
    <3>1. sn + 1 \in 1 .. snd_nxt[n] /\ sn < snd_nxt[n] + k
      BY <1>1, <1>2, <1>8, <2>1 DEF Genuine
    <3> QED BY <1>6, <1>7, <1>8, <2>1, <3>1 DEF Genuine
  <2>2. CASE x # n
    BY <1>7, <1>8, <2>2 DEF Genuine
  <2> QED BY <2>1, <2>2
<1>9. ASSUME NEW s \in Fresh(n)
      PROVE  /\ s \in Kept /\ snd_nxt[n] <= s.sn /\ Genuine(n, s.sn, s.data)'
  <2>1. PICK i \in 1 .. k : s = [sn |-> snd_nxt[n] + i - 1, data |-> snd_queue[n][i]]
    BY <1>4
  <2>2. /\ snd_nxt[n] + i - 1 \in Nat /\ snd_nxt[n] <= snd_nxt[n] + i - 1
        /\ snd_nxt[n] + i - 1 < snd_nxt[n] + k
        /\ (snd_nxt[n] + i - 1) + 1 = snd_nxt[n] + i
        /\ i \in 1 .. Len(snd_queue[n])
    BY <1>1, <1>2
  <2>3. s.sn = snd_nxt[n] + i - 1 /\ s.data = snd_queue[n][i]
    BY <2>1
  <2>4. snd_queue[n][i] \in Payload
    BY <1>2, <2>2
  <2>5. hist'[n][s.sn + 1] = snd_queue[n][i]
    <3>1. hist'[n][snd_nxt[n] + i] = added[i]
      BY <1>6, <1>7
    <3>2. s.sn + 1 = snd_nxt[n] + i
      BY <2>2, <2>3
    <3> QED BY <1>5, <3>1, <3>2
  <2>6. s \in Kept
    BY <2>1, <2>2, <2>4 DEF Kept
  <2> QED BY <1>7, <2>2, <2>3, <2>5, <2>6 DEF Genuine
<1>10. ASSUME NEW m \in net' \ net
       PROVE  /\ m \in Segment /\ m.to = Peer(n) /\ m.una = rcv_nxt[n]
              /\ m.cmd = "PUSH" => Genuine(n, m.sn, m.data)'
              /\ m.cmd = "ACK" => Got(n, m.sn)
  <2>1. CASE m \in Acks(n, Len(acklist[n]))
    <3>1. Len(acklist[n]) \in 0 .. Len(acklist[n])
      BY <1>t DEF TypeOK
    <3> QED BY <2>1, <3>1, AcksFacts
  <2>3. CASE m \in Asks(n, probe_due) \cup Tells(n)
    BY <1>t, <2>3, ProbesFacts
  <2>4. CASE m \in Pushes(n, Fresh(n) \cup due)
    <3>1. PICK s \in Fresh(n) \cup due : m = Outgoing(n, "PUSH", s.sn, s.data)
      BY <2>4 DEF Pushes
    <3>2. s \in Kept /\ Genuine(n, s.sn, s.data)'
      <4>1. CASE s \in Fresh(n)
        BY <1>9, <4>1
      <4>2. CASE s \in due
        <5>1. s \in Kept /\ s.sn \in Nat /\ Genuine(n, s.sn, s.data)
          BY <1>t, <4>2 DEF TypeOK, Kept, IInv, SendBufferGenuine
        <5> QED BY <5>1, <1>8
      <4> QED BY <4>1, <4>2
    <3>3. s.sn \in Nat /\ s.data \in Payload
      BY <3>2 DEF Kept
    <3>4. /\ m \in Segment /\ m.to = Peer(n) /\ m.una = rcv_nxt[n]
          /\ m.cmd = "PUSH" /\ m.sn = s.sn /\ m.data = s.data
      <4>1. "PUSH" \in {"PUSH", "ACK", "WASK", "WINS"}
        OBVIOUS
      <4> QED BY <1>t, <3>1, <3>3, <4>1, OutgoingFacts
    <3> QED BY <3>2, <3>4
  <2>5. net' = net \cup Acks(n, Len(acklist[n])) \cup Asks(n, probe_due)
                 \cup Tells(n) \cup Pushes(n, Fresh(n) \cup due)
    BY DEF Flush, Emit
  <2> QED BY <2>1, <2>3, <2>4, <2>5
<1>11. TypeOK'
  <2>1. snd_queue' \in [Node -> Seq(Payload)]
    <3>1. SubSeq(snd_queue[n], k + 1, Len(snd_queue[n])) \in Seq(Payload)
      BY <1>1, <1>2, Cut
    <3> QED BY <1>t, <1>3, <3>1 DEF TypeOK
  <2>2. hist' \in [Node -> Seq(Payload)]
    BY <1>t, <1>3, <1>6 DEF TypeOK
  <2>3. snd_buf' \in [Node -> SUBSET Kept]
    <3>1. Fresh(n) \subseteq Kept
      BY <1>9
    <3> QED BY <1>t, <1>3, <3>1 DEF TypeOK
  <2>4. snd_nxt' \in [Node -> Nat] /\ snd_una' \in [Node -> Nat]
    BY <1>t, <1>1, <1>3 DEF TypeOK
  <2>5. net' \subseteq Segment
    BY <1>t, <1>10 DEF TypeOK
  <2>6. acklist' \in [Node -> Seq(Nat)]
    BY <1>t, <1>3 DEF TypeOK
  <2>7. /\ sent' \in [Node -> Nat] /\ rmt_wnd' \in [Node -> Nat]
        /\ probing' \in [Node -> BOOLEAN] /\ ask_tell' \in [Node -> BOOLEAN]
        /\ ask_send' \in [Node -> BOOLEAN]
    BY <1>t, Zenon DEF TypeOK, Flush, ProbeTimer
  <2>8. /\ rcv_nxt' \in [Node -> Nat] /\ rcv_buf' \in [Node -> SUBSET Kept]
        /\ rcv_queue' \in [Node -> Seq(Payload)]
        /\ delivered' \in [Node -> Seq(Payload)]
    BY <1>t, <1>3 DEF TypeOK
  <2> QED BY <2>1, <2>2, <2>3, <2>4, <2>5, <2>6, <2>7, <2>8 DEF TypeOK
<1>12. InOrder'
  <2> SUFFICES ASSUME NEW x \in Node
               PROVE  /\ rcv_nxt[x] <= snd_nxt'[Peer(x)]
                      /\ delivered[x] \o rcv_queue[x] = SubSeq(hist'[Peer(x)], 1, rcv_nxt[x])
    BY <1>3 DEF InOrder
  <2>1. /\ rcv_nxt[x] <= snd_nxt[Peer(x)] /\ rcv_nxt[x] \in Nat
        /\ delivered[x] \o rcv_queue[x] = SubSeq(hist[Peer(x)], 1, rcv_nxt[x])
        /\ Peer(x) \in Node
    BY <1>t, PeerFacts DEF IInv, InOrder, TypeOK
  <2>2. CASE Peer(x) = n
    <3>1. rcv_nxt[x] \in 0 .. Len(hist[n])
      BY <1>2, <2>1, <2>2
    <3>2. SubSeq(hist[n] \o added, 1, rcv_nxt[x]) = SubSeq(hist[n], 1, rcv_nxt[x])
      BY <1>2, <1>5, <3>1, PrefixStays
    <3>3. rcv_nxt[x] <= snd_nxt[n] + k
      BY <1>1, <1>2, <2>1, <2>2
    <3> QED BY <1>7, <2>1, <2>2, <3>2, <3>3
  <2>3. CASE Peer(x) # n
    BY <1>7, <2>1, <2>3
  <2> QED BY <2>2, <2>3
<1>13. NothingLost'
  <2> SUFFICES ASSUME NEW x \in Node, NEW sn \in 0 .. snd_nxt'[x] - 1
               PROVE  sn \in Numbers(snd_buf'[x]) \/ Got(Peer(x), sn)
    BY <1>3 DEF NothingLost, Got
  <2>1. CASE sn \in 0 .. snd_nxt[x] - 1
    <3>1. sn \in Numbers(snd_buf[x]) \/ Got(Peer(x), sn)
      BY <2>1 DEF IInv, NothingLost
    <3>2. snd_buf[x] \subseteq snd_buf'[x]
      BY <1>7
    <3> QED BY <3>1, <3>2 DEF Numbers
  <2>2. CASE sn \notin 0 .. snd_nxt[x] - 1
    <3>0. x = n
      BY <1>7, <2>2
    <3>1. /\ x = n /\ sn - snd_nxt[n] + 1 \in 1 .. k
          /\ snd_nxt[n] + (sn - snd_nxt[n] + 1) - 1 = sn
      <4>1. sn \in 0 .. (snd_nxt[n] + k) - 1 /\ sn \notin 0 .. snd_nxt[n] - 1
        BY <1>7, <2>2, <3>0
      <4> QED BY <1>1, <1>2, <3>0, <4>1
    <3>2. [sn |-> sn, data |-> snd_queue[n][sn - snd_nxt[n] + 1]] \in Fresh(n)
      BY <1>4, <3>1
    <3>3. sn \in Numbers(Fresh(n))
      BY <3>2 DEF Numbers
    <3> QED BY <1>7, <3>1, <3>3 DEF Numbers
  <2> QED BY <2>1, <2>2
<1>14. WindowsKept'
  <2>1. \A x \in Node : /\ snd_una[x] \in Nat /\ snd_nxt[x] \in Nat
    BY <1>t DEF TypeOK
  <2>2. \A x \in Node : snd_una[x] <= snd_nxt'[x] /\ snd_nxt'[x] <= snd_una[x] + SndWnd
    BY <1>1, <1>7, <2>1, WindowAssumption DEF IInv, WindowsKept
  <2> QED BY <1>3, <2>2 DEF IInv, WindowsKept, InWindow
<1>15. SendBufferGenuine'
  <2> SUFFICES ASSUME NEW x \in Node
               PROVE  /\ snd_nxt'[x] = Len(hist'[x])
                      /\ \A s \in snd_buf'[x] : snd_una[x] <= s.sn /\ Genuine(x, s.sn, s.data)'
    BY <1>3 DEF SendBufferGenuine, Genuine
  <2>1. snd_nxt'[x] = Len(hist'[x])
    BY <1>6, <1>7 DEF IInv, SendBufferGenuine
  <2>2. ASSUME NEW s \in snd_buf[x]
        PROVE  snd_una[x] <= s.sn /\ Genuine(x, s.sn, s.data)'
    <3>1. snd_una[x] <= s.sn /\ Genuine(x, s.sn, s.data)
      BY DEF IInv, SendBufferGenuine
    <3>2. s.sn \in Nat
      <4>1. snd_buf[x] \subseteq Kept
        BY <1>t DEF TypeOK
      <4> QED BY <4>1 DEF Kept
    <3> QED BY <3>1, <3>2, <1>8
  <2>3. ASSUME NEW s \in Fresh(n)
        PROVE  snd_una[n] <= s.sn /\ Genuine(n, s.sn, s.data)'
    <3>1. s.sn \in Nat /\ snd_una[n] \in Nat /\ snd_una[n] <= snd_nxt[n]
      BY <1>t, <1>9 DEF TypeOK, Kept, IInv, WindowsKept
    <3> QED BY <1>2, <1>9, <3>1
  <2> QED BY <1>7, <2>1, <2>2, <2>3
<1>16. ReceiveBufferGenuine'
  <2> SUFFICES ASSUME NEW x \in Node, NEW s \in rcv_buf[x]
               PROVE  Genuine(Peer(x), s.sn, s.data)'
    BY <1>3 DEF ReceiveBufferGenuine, Genuine
  <2>1. s.sn \in Nat /\ Peer(x) \in Node /\ Genuine(Peer(x), s.sn, s.data)
    BY <1>t, PeerFacts DEF TypeOK, Kept, IInv, ReceiveBufferGenuine
  <2> QED BY <2>1, <1>8
<1>17. AcksTrue'
  <2> SUFFICES ASSUME NEW x \in Node, NEW i \in DOMAIN acklist'[x]
               PROVE  Got(x, acklist'[x][i])
    BY <1>3 DEF AcksTrue, Got
  <2>1. x # n
    BY <1>7
  <2> QED BY <1>7, <2>1 DEF IInv, AcksTrue
<1>18. InFlightTrue'
  <2> SUFFICES ASSUME NEW x \in Node, NEW m \in net', m.to = Peer(x)
               PROVE  /\ m.una <= rcv_nxt[x]
                      /\ m.cmd = "PUSH" => Genuine(x, m.sn, m.data)'
                      /\ m.cmd = "ACK" => Got(x, m.sn)
    BY <1>3 DEF InFlightTrue, Genuine, Got
  <2>1. CASE m \in net
    <3>1. m.sn \in Nat
      BY <1>t, <2>1 DEF TypeOK, Segment
    <3> QED BY <1>8, <2>1, <3>1 DEF IInv, InFlightTrue
  <2>2. CASE m \notin net
    <3>1. /\ m.to = Peer(n) /\ m.una = rcv_nxt[n]
          /\ (m.cmd = "PUSH" => Genuine(n, m.sn, m.data)')
          /\ (m.cmd = "ACK" => Got(n, m.sn))
      BY <1>10, <2>2
    <3>2. x = n
      BY <3>1, PeerFacts
    <3> QED BY <1>2, <3>1, <3>2
  <2> QED BY <2>1, <2>2
<1> QED BY <1>11, <1>12, <1>13, <1>14, <1>15, <1>16, <1>17, <1>18 DEF IInv

\* A flush that stops early puts out true acknowledgements and probes, and
\* forgets acknowledgements, nothing else.
LEMMA FlushRefusedInv ==
  ASSUME IInv, NEW n \in Node, FlushRefused(n)
  PROVE  IInv'
<1>t. TypeOK
  BY DEF IInv
<1>1. \A out \in 0 .. Len(acklist[n]) : \A m \in Acks(n, out) :
        /\ m \in Segment /\ m.to = Peer(n) /\ m.una = rcv_nxt[n]
        /\ m.cmd # "PUSH" /\ Got(n, m.sn)
  BY AcksFacts
<1>2. \A probe_due \in BOOLEAN : \A m \in Asks(n, probe_due) :
        /\ m \in Segment /\ m.to = Peer(n) /\ m.una = rcv_nxt[n]
        /\ m.cmd # "PUSH" /\ m.cmd # "ACK"
  BY <1>t, ProbesFacts
<1>3. /\ UNCHANGED <<sending, snd_buf, snd_una, snd_nxt, rmt_wnd, ask_tell,
                     receiving, delivered>>
      /\ probing' \in [Node -> BOOLEAN] /\ ask_send' \in [Node -> BOOLEAN]
      /\ \E k \in 0 .. Len(acklist[n]) :
           acklist' = [acklist EXCEPT ![n] = SubSeq(@, k + 1, Len(@))]
      /\ \A m \in net' \ net : /\ m \in Segment /\ m.to = Peer(n)
                               /\ m.una = rcv_nxt[n] /\ m.cmd # "PUSH"
                               /\ m.cmd = "ACK" => Got(n, m.sn)
  <2>0. /\ probing \in [Node -> BOOLEAN] /\ ask_send \in [Node -> BOOLEAN]
        /\ acklist[n] \in Seq(Nat)
    BY <1>t DEF TypeOK
  <2>1. PICK out \in 0 .. Len(acklist[n]) :
          \/ \E encoded \in out .. Len(acklist[n]) - 1 : FlushStopsAtAck(n, out, encoded)
          \/ \E probe_due \in BOOLEAN : FlushStopsAtProbe(n, out, probe_due)
    BY DEF FlushRefused
  <2>2. ASSUME NEW encoded \in out .. Len(acklist[n]) - 1, FlushStopsAtAck(n, out, encoded)
        PROVE  <1>3!:
    <3>1. encoded \in 0 .. Len(acklist[n])
      BY <2>0
    <3>2. net' = net \cup Acks(n, out)
      BY <2>2 DEF FlushStopsAtAck, Emit
    <3> QED BY <1>1, <2>0, <2>2, <3>1, <3>2 DEF FlushStopsAtAck, probes
  <2>3. ASSUME NEW probe_due \in BOOLEAN, FlushStopsAtProbe(n, out, probe_due)
        PROVE  <1>3!:
    <3>1. net' \subseteq net \cup Acks(n, out) \cup Asks(n, probe_due)
      BY <2>3 DEF FlushStopsAtProbe, Emit
    <3>2. \E k \in 0 .. Len(acklist[n]) :
            acklist' = [acklist EXCEPT ![n] = SubSeq(@, k + 1, Len(@))]
      <4>1. SubSeq(acklist[n], Len(acklist[n]) + 1, Len(acklist[n])) = << >>
        BY <2>0, SubSeqEmpty
      <4> DEFINE all == Len(acklist[n])
      <4>2. all \in 0 .. Len(acklist[n])
        BY <2>0
      <4>3. SubSeq(acklist[n], all + 1, Len(acklist[n])) = << >>
        BY <4>1
      <4>4. acklist' = [acklist EXCEPT ![n] = << >>]
        BY <2>3 DEF FlushStopsAtProbe
      <4> HIDE DEF all
      <4>5. acklist' = [acklist EXCEPT ![n] = SubSeq(@, all + 1, Len(@))]
        BY <4>3, <4>4
      <4> QED BY <4>2, <4>5
    <3>3. probing' \in [Node -> BOOLEAN] /\ ask_send' \in [Node -> BOOLEAN]
      BY <2>0, <2>3, Zenon DEF FlushStopsAtProbe, ProbeTimer
    <3> QED BY <1>1, <1>2, <2>3, <3>1, <3>2, <3>3 DEF FlushStopsAtProbe
  <2> QED BY <2>1, <2>2, <2>3
<1>4. PICK k \in 0 .. Len(acklist[n]) :
        acklist' = [acklist EXCEPT ![n] = SubSeq(@, k + 1, Len(@))]
  BY <1>3
<1>5. /\ acklist' \in [Node -> Seq(Nat)]
      /\ \A x \in Node : \A i \in DOMAIN acklist'[x] :
           \E j \in DOMAIN acklist[x] : acklist'[x][i] = acklist[x][j]
  <2> DEFINE rest == SubSeq(acklist[n], k + 1, Len(acklist[n]))
  <2>1. acklist \in [Node -> Seq(Nat)] /\ acklist[n] \in Seq(Nat)
    BY <1>t DEF TypeOK
  <2>2. /\ k + 1 \in 1 .. Len(acklist[n]) + 1
        /\ Len(acklist[n]) \in 0 .. Len(acklist[n])
        /\ k + 1 <= Len(acklist[n]) + 1
    BY <2>1
  <2>3. /\ rest \in Seq(Nat) /\ Len(rest) = Len(acklist[n]) - (k + 1) + 1
        /\ \A j \in 1 .. Len(acklist[n]) - (k + 1) + 1 :
             rest[j] = acklist[n][(k + 1) + j - 1]
    BY <2>1, <2>2, Pieces
  <2>4. acklist' = [acklist EXCEPT ![n] = rest]
    BY <1>4
  <2> HIDE DEF rest
  <2>5. \A i \in DOMAIN rest : \E j \in DOMAIN acklist[n] : rest[i] = acklist[n][j]
    <3> SUFFICES ASSUME NEW i \in DOMAIN rest
                 PROVE  \E j \in DOMAIN acklist[n] : rest[i] = acklist[n][j]
      OBVIOUS
    <3>1. DOMAIN rest = 1 .. Len(rest) /\ DOMAIN acklist[n] = 1 .. Len(acklist[n])
      BY <2>1, <2>3
    <3>2. i \in 1 .. Len(acklist[n]) - (k + 1) + 1
      BY <2>3, <3>1
    <3>3. rest[i] = acklist[n][(k + 1) + i - 1]
      BY <2>3, <3>2
    <3>4. (k + 1) + i - 1 \in 1 .. Len(acklist[n])
      BY <2>1, <2>2, <3>2
    <3> QED BY <3>1, <3>3, <3>4
  <2> QED BY <2>1, <2>3, <2>4, <2>5
<1>6. TypeOK'
  BY <1>t, <1>3, <1>5 DEF TypeOK, sending, receiving
<1>7. AcksTrue'
  BY <1>3, <1>5 DEF IInv, AcksTrue, Got, receiving
<1>8. InFlightTrue'
  <2> SUFFICES ASSUME NEW x \in Node, NEW m \in net', m.to = Peer(x)
               PROVE  /\ m.una <= rcv_nxt[x]
                      /\ m.cmd = "PUSH" => Genuine(x, m.sn, m.data)
                      /\ m.cmd = "ACK" => Got(x, m.sn)
    BY <1>3 DEF InFlightTrue, Genuine, Got, receiving, sending
  <2>1. CASE m \in net
    BY <2>1 DEF IInv, InFlightTrue
  <2>2. CASE m \notin net
    <3>1. x = n
      BY <1>3, <2>2, PeerFacts
    <3>2. rcv_nxt[n] \in Nat
      BY <1>t DEF TypeOK
    <3> QED BY <1>3, <2>2, <3>1, <3>2
  <2> QED BY <2>1, <2>2
<1>9. /\ InOrder' /\ NothingLost' /\ WindowsKept' /\ SendBufferGenuine'
      /\ ReceiveBufferGenuine'
  BY <1>3 DEF IInv, sending, receiving, InOrder, NothingLost, WindowsKept, InWindow,
              SendBufferGenuine, ReceiveBufferGenuine, Genuine, Got
<1> QED BY <1>6, <1>7, <1>8, <1>9 DEF IInv

\* Got, after the step.
GotNext(n, sn) == sn < rcv_nxt'[n] \/ sn \in Numbers(rcv_buf'[n])

\* What a step of the receiver leaves true of it.
ReceiverKept ==
  /\ rcv_nxt' \in [Node -> Nat] /\ rcv_buf' \in [Node -> SUBSET Kept]
  /\ rcv_queue' \in [Node -> Seq(Payload)]
  /\ \A x \in Node : /\ rcv_nxt[x] <= rcv_nxt'[x] /\ Len(rcv_queue'[x]) <= RcvWnd
                     /\ \A s \in rcv_buf'[x] : /\ rcv_nxt'[x] <= s.sn
                                               /\ s.sn < rcv_nxt'[x] + RcvWnd
                                               /\ Genuine(Peer(x), s.sn, s.data)
  /\ \A x \in Node, sn \in Nat : Got(x, sn) => GotNext(x, sn)
  /\ InOrder'

\* d and queue hold what n has delivered and queued so far.
Regrouped(n, d, queue) == d \o queue = delivered[n] \o rcv_queue[n]

\* Moving payloads from rcv_buf to rcv_queue.
LEMMA MoveFacts ==
  ASSUME IInv, NEW n \in Node, NEW queue \in Seq(Payload), NEW d \in Seq(Payload),
         NEW buf \in SUBSET Kept, rcv_buf[n] \subseteq buf,
         \A s \in buf : /\ rcv_nxt[n] <= s.sn /\ InWindow(n, s.sn)
                        /\ Genuine(Peer(n), s.sn, s.data),
         Len(queue) <= RcvWnd, Regrouped(n, d, queue),
         MoveInOrder(n, buf, queue), UNCHANGED <<hist, snd_nxt>>,
         delivered' = [delivered EXCEPT ![n] = d]
  PROVE  ReceiverKept /\ \A sn \in Numbers(buf) : GotNext(n, sn)
<1>t. TypeOK
  BY DEF IInv
<1>0. /\ rcv_nxt[n] \in Nat /\ RcvWnd \in Nat /\ Peer(n) \in Node
      /\ hist[Peer(n)] \in Seq(Payload) /\ snd_nxt[Peer(n)] = Len(hist[Peer(n)])
      /\ rcv_nxt[n] <= snd_nxt[Peer(n)]
  BY <1>t, PeerFacts, WindowAssumption DEF TypeOK, IInv, SendBufferGenuine, InOrder
<1>1. PICK j \in 0 .. RcvWnd :
        /\ CanMove(n, buf, queue, j)
        /\ rcv_queue' = [rcv_queue EXCEPT ![n] = queue \o Run(n, buf, j)]
        /\ rcv_buf' = [rcv_buf EXCEPT ![n] = {s \in buf : s.sn >= rcv_nxt[n] + j}]
        /\ rcv_nxt' = [rcv_nxt EXCEPT ![n] = @ + j]
  BY DEF MoveInOrder
<1>2. /\ j \in Nat /\ j <= RcvWnd - Len(queue)
      /\ \A i \in 0 .. j - 1 : rcv_nxt[n] + i \in Numbers(buf)
  BY <1>0, <1>1 DEF CanMove
<1> DEFINE r == Run(n, buf, j)
<1>3. ASSUME NEW i \in 1 .. j
      PROVE  /\ (CHOOSE s \in buf : s.sn = rcv_nxt[n] + i - 1).data
                   = hist[Peer(n)][rcv_nxt[n] + i]
             /\ rcv_nxt[n] + i <= snd_nxt[Peer(n)]
             /\ hist[Peer(n)][rcv_nxt[n] + i] \in Payload
  <2>1. /\ i - 1 \in 0 .. j - 1 /\ rcv_nxt[n] + (i - 1) = rcv_nxt[n] + i - 1
        /\ (rcv_nxt[n] + i - 1) + 1 = rcv_nxt[n] + i
    BY <1>0, <1>2
  <2>2. \E s \in buf : s.sn = rcv_nxt[n] + i - 1
    BY <1>2, <2>1 DEF Numbers
  <2> DEFINE c == CHOOSE s \in buf : s.sn = rcv_nxt[n] + i - 1
  <2>3. c \in buf /\ c.sn = rcv_nxt[n] + i - 1
    BY <2>2
  <2> HIDE DEF c
  <2>4. c.sn < snd_nxt[Peer(n)] /\ c.data = hist[Peer(n)][c.sn + 1]
    BY <2>3 DEF Genuine
  <2>5. rcv_nxt[n] + i \in 1 .. Len(hist[Peer(n)])
    BY <1>0, <2>3, <2>4
  <2>6. hist[Peer(n)][rcv_nxt[n] + i] \in Payload
    BY <1>0, <2>5
  <2>7. c.data = hist[Peer(n)][rcv_nxt[n] + i] /\ rcv_nxt[n] + i <= snd_nxt[Peer(n)]
    BY <1>0, <2>1, <2>3, <2>4, <2>5
  <2> QED BY <2>6, <2>7 DEF c
<1>4. /\ r \in Seq(Payload) /\ Len(r) = j
      /\ \A i \in 1 .. j : r[i] = hist[Peer(n)][rcv_nxt[n] + i]
  <2>1. r = [i \in 1 .. j |-> (CHOOSE s \in buf : s.sn = rcv_nxt[n] + i - 1).data]
    BY DEF Run
  <2>2. \A i \in 1 .. j : r[i] = hist[Peer(n)][rcv_nxt[n] + i] /\ r[i] \in Payload
    BY <1>3, <2>1
  <2>3. r \in [1 .. j -> Payload]
    BY <2>1, <2>2
  <2> HIDE DEF r
  <2> QED BY <1>2, <2>2, <2>3
<1>5. rcv_nxt[n] + j <= snd_nxt[Peer(n)]
  <2>1. CASE j = 0
    BY <1>0, <2>1
  <2>2. CASE j > 0
    BY <1>2, <1>3, <2>2
  <2> QED BY <1>2, <2>1, <2>2
<1> HIDE DEF r
<1>6. /\ queue \o r \in Seq(Payload) /\ Len(queue \o r) = Len(queue) + j
  BY <1>4, Joined
<1>7. /\ rcv_queue'[n] = queue \o r /\ rcv_nxt'[n] = rcv_nxt[n] + j
      /\ rcv_buf'[n] = {s \in buf : s.sn >= rcv_nxt[n] + j} /\ delivered'[n] = d
      /\ \A x \in Node \ {n} : /\ rcv_queue'[x] = rcv_queue[x] /\ rcv_nxt'[x] = rcv_nxt[x]
                               /\ rcv_buf'[x] = rcv_buf[x] /\ delivered'[x] = delivered[x]
  BY <1>t, <1>1 DEF TypeOK, r
<1>8. /\ rcv_nxt' \in [Node -> Nat] /\ rcv_buf' \in [Node -> SUBSET Kept]
      /\ rcv_queue' \in [Node -> Seq(Payload)]
  <2> DEFINE longer == queue \o r
  <2>1. rcv_queue' = [rcv_queue EXCEPT ![n] = longer]
    BY <1>1 DEF r
  <2>4. longer \in Seq(Payload)
    BY <1>6
  <2> HIDE DEF longer
  <2>2. rcv_queue' \in [Node -> Seq(Payload)]
    <3>1. rcv_queue \in [Node -> Seq(Payload)]
      BY <1>t DEF TypeOK
    <3> QED BY <2>1, <2>4, <3>1
  <2>3. rcv_nxt' \in [Node -> Nat]
    <3>1. rcv_nxt \in [Node -> Nat]
      BY <1>t DEF TypeOK
    <3>2. rcv_nxt' = [rcv_nxt EXCEPT ![n] = @ + j] /\ j \in Nat
      BY <1>1, <1>2
    <3> QED BY <3>1, <3>2
  <2>5. rcv_buf' \in [Node -> SUBSET Kept]
    <3>1. rcv_buf \in [Node -> SUBSET Kept]
      BY <1>t DEF TypeOK
    <3>2. rcv_buf' = [rcv_buf EXCEPT ![n] = {s \in buf : s.sn >= rcv_nxt[n] + j}]
      BY <1>1
    <3>3. {s \in buf : s.sn >= rcv_nxt[n] + j} \subseteq Kept
      OBVIOUS
    <3> QED BY <3>1, <3>2, <3>3
  <2> QED BY <2>2, <2>3, <2>5
<1>9. ASSUME NEW sn \in Nat, sn < rcv_nxt[n] \/ sn \in Numbers(buf)
      PROVE  GotNext(n, sn)
  <2>1. CASE sn < rcv_nxt[n] + j
    BY <1>7, <2>1 DEF GotNext
  <2>2. CASE ~(sn < rcv_nxt[n] + j)
    <3>1. sn \in Numbers(buf) /\ sn >= rcv_nxt[n] + j
      BY <1>0, <1>2, <1>9, <2>2
    <3> QED BY <1>7, <3>1 DEF GotNext, Numbers
  <2> QED BY <2>1, <2>2
<1>10. ASSUME NEW x \in Node
       PROVE  /\ rcv_nxt[x] <= rcv_nxt'[x] /\ Len(rcv_queue'[x]) <= RcvWnd
              /\ \A s \in rcv_buf'[x] : /\ rcv_nxt'[x] <= s.sn
                                        /\ s.sn < rcv_nxt'[x] + RcvWnd
                                        /\ Genuine(Peer(x), s.sn, s.data)
  <2>1. CASE x = n
    <3>1. rcv_nxt[n] <= rcv_nxt'[n] /\ Len(rcv_queue'[n]) <= RcvWnd
      BY <1>0, <1>2, <1>6, <1>7
    <3>2. ASSUME NEW s \in rcv_buf'[n]
          PROVE  /\ rcv_nxt'[n] <= s.sn /\ s.sn < rcv_nxt'[n] + RcvWnd
                 /\ Genuine(Peer(n), s.sn, s.data)
      <4>1. s \in buf /\ s.sn \in Nat /\ s.sn >= rcv_nxt[n] + j
        BY <1>7 DEF Kept
      <4>2. s.sn < rcv_nxt[n] + RcvWnd
        BY <4>1 DEF InWindow
      <4> QED BY <1>0, <1>2, <1>7, <4>1, <4>2
    <3> QED BY <2>1, <3>1, <3>2
  <2>2. CASE x # n
    <3>1. /\ rcv_queue'[x] = rcv_queue[x] /\ rcv_nxt'[x] = rcv_nxt[x]
          /\ rcv_buf'[x] = rcv_buf[x] /\ rcv_nxt[x] \in Nat
      BY <1>t, <1>7, <2>2 DEF TypeOK
    <3>2. /\ Len(rcv_queue[x]) <= RcvWnd
          /\ \A s \in rcv_buf[x] : /\ rcv_nxt[x] <= s.sn
                                   /\ s.sn < rcv_nxt[x] + RcvWnd
                                   /\ Genuine(Peer(x), s.sn, s.data)
      BY DEF IInv, WindowsKept, ReceiveBufferGenuine, InWindow
    <3>3. rcv_nxt[x] <= rcv_nxt'[x]
      BY <3>1
    <3> QED BY <3>1, <3>2, <3>3
  <2> QED BY <2>1, <2>2
<1>11. ASSUME NEW x \in Node, NEW sn \in Nat, Got(x, sn)
       PROVE  GotNext(x, sn)
  <2>1. CASE x = n
    BY <1>9, <1>11, <2>1 DEF Got, Numbers
  <2>2. CASE x # n
    BY <1>7, <1>11, <2>2 DEF Got, GotNext
  <2> QED BY <2>1, <2>2
<1>12. InOrder'
  <2> SUFFICES ASSUME NEW x \in Node
               PROVE  /\ rcv_nxt'[x] <= snd_nxt[Peer(x)]
                      /\ delivered'[x] \o rcv_queue'[x] = SubSeq(hist[Peer(x)], 1, rcv_nxt'[x])
    BY DEF InOrder
  <2>1. CASE x = n
    <3>1. d \o (queue \o r) = (d \o queue) \o r
      <4>1. r \in Seq(Payload)
        BY <1>4
      <4>2. d \in Seq(Payload) /\ queue \in Seq(Payload)
        OBVIOUS
      <4> QED BY <4>1, <4>2, Regroup
    <3>2. d \o queue = SubSeq(hist[Peer(n)], 1, rcv_nxt[n])
      BY DEF IInv, InOrder, Regrouped
    <3>3. SubSeq(hist[Peer(n)], 1, rcv_nxt[n]) \o r = SubSeq(hist[Peer(n)], 1, rcv_nxt[n] + j)
      <4> DEFINE h == hist[Peer(n)]
                 y == rcv_nxt[n]
      <4>1. /\ h \in Seq(Payload) /\ r \in Seq(Payload) /\ y \in Nat
            /\ y + Len(r) <= Len(h) /\ \A i \in 1 .. Len(r) : r[i] = h[y + i]
        BY <1>0, <1>4, <1>5
      <4> HIDE DEF h, y
      <4>2. SubSeq(h, 1, y) \o r = SubSeq(h, 1, y + Len(r))
        BY <4>1, PrefixGrows
      <4> QED BY <1>4, <4>2 DEF h, y
    <3> QED BY <1>5, <1>7, <2>1, <3>1, <3>2, <3>3
  <2>2. CASE x # n
    BY <1>7, <2>2 DEF IInv, InOrder
  <2> QED BY <2>1, <2>2
<1>13. \A sn \in Numbers(buf) : sn \in Nat
  BY DEF Numbers, Kept
<1> QED BY <1>8, <1>9, <1>10, <1>11, <1>12, <1>13 DEF ReceiverKept

\* What taking acknowledgements leaves true of the sender: what it drops, the
\* peer has got.
SenderKept ==
  \A x \in Node : /\ snd_una[x] <= snd_una'[x] /\ snd_una'[x] <= snd_nxt[x]
                  /\ snd_buf'[x] \subseteq snd_buf[x]
                  /\ \A s \in snd_buf'[x] : snd_una'[x] <= s.sn
                  /\ \A s \in snd_buf[x] \ snd_buf'[x] : Got(Peer(x), s.sn)

LEMMA KeptStep ==
  ASSUME IInv, TypeOK', ReceiverKept, SenderKept, AcksTrue', net' \subseteq net,
         UNCHANGED <<snd_nxt, hist>>
  PROVE  IInv'
<1>t. TypeOK
  BY DEF IInv
<1>1. snd_nxt' = snd_nxt /\ hist' = hist
  OBVIOUS
<1>2. InOrder'
  BY DEF ReceiverKept
<1>3. ASSUME NEW x \in Node, NEW sn \in Nat, Got(x, sn)
      PROVE  GotNext(x, sn)
  BY <1>3 DEF ReceiverKept
<1>4. NothingLost'
  <2> SUFFICES ASSUME NEW x \in Node, NEW sn \in 0 .. snd_nxt[x] - 1
               PROVE  sn \in Numbers(snd_buf'[x]) \/ GotNext(Peer(x), sn)
    BY <1>1 DEF NothingLost, Got, GotNext
  <2>1. sn \in Numbers(snd_buf[x]) \/ Got(Peer(x), sn)
    BY DEF IInv, NothingLost
  <2>2. sn \in Numbers(snd_buf[x]) => sn \in Numbers(snd_buf'[x]) \/ Got(Peer(x), sn)
    <3> SUFFICES ASSUME NEW s \in snd_buf[x], s.sn = sn
                 PROVE  sn \in Numbers(snd_buf'[x]) \/ Got(Peer(x), sn)
      BY DEF Numbers
    <3>1. CASE s \in snd_buf'[x]
      BY <3>1 DEF Numbers
    <3>2. CASE s \notin snd_buf'[x]
      <4>1. Got(Peer(x), s.sn)
        BY <3>2, Zenon DEF SenderKept
      <4> QED BY <4>1
    <3> QED BY <3>1, <3>2
  <2>3. sn \in Nat /\ Peer(x) \in Node
    BY <1>t, PeerFacts DEF TypeOK
  <2> QED BY <1>3, <2>1, <2>2, <2>3
<1>5. WindowsKept'
  <2> SUFFICES ASSUME NEW x \in Node
               PROVE  /\ snd_una'[x] <= snd_nxt[x] /\ snd_nxt[x] <= snd_una'[x] + SndWnd
                      /\ Len(rcv_queue'[x]) <= RcvWnd
                      /\ \A s \in rcv_buf'[x] : rcv_nxt'[x] <= s.sn /\ s.sn < rcv_nxt'[x] + RcvWnd
    BY <1>1 DEF WindowsKept, InWindow
  <2>1. /\ snd_una[x] \in Nat /\ snd_una'[x] \in Nat /\ snd_nxt[x] \in Nat
        /\ SndWnd \in Nat /\ snd_nxt[x] <= snd_una[x] + SndWnd
    BY <1>t, WindowAssumption DEF TypeOK, IInv, WindowsKept
  <2>2. snd_una[x] <= snd_una'[x] /\ snd_una'[x] <= snd_nxt[x]
    BY DEF SenderKept
  <2>3. snd_nxt[x] <= snd_una'[x] + SndWnd
    BY <2>1, <2>2
  <2> QED BY <2>2, <2>3 DEF ReceiverKept
<1>6. SendBufferGenuine'
  BY <1>1 DEF IInv, SendBufferGenuine, Genuine, SenderKept
<1>7. ReceiveBufferGenuine'
  BY <1>1 DEF ReceiverKept, ReceiveBufferGenuine, Genuine
<1>9. InFlightTrue'
  <2> SUFFICES ASSUME NEW x \in Node, NEW m \in net, m.to = Peer(x)
               PROVE  /\ m.una <= rcv_nxt'[x]
                      /\ m.cmd = "PUSH" => Genuine(x, m.sn, m.data)'
                      /\ m.cmd = "ACK" => GotNext(x, m.sn)
    BY <1>1 DEF InFlightTrue, Genuine, Got, GotNext
  <2>1. /\ m.sn \in Nat /\ m.una \in Nat /\ rcv_nxt[x] \in Nat /\ rcv_nxt'[x] \in Nat
        /\ rcv_nxt[x] <= rcv_nxt'[x]
    BY <1>t DEF TypeOK, Segment, ReceiverKept
  <2>2. /\ m.una <= rcv_nxt[x] /\ (m.cmd = "PUSH" => Genuine(x, m.sn, m.data))
        /\ (m.cmd = "ACK" => Got(x, m.sn))
    BY DEF IInv, InFlightTrue
  <2>3. m.cmd = "ACK" => GotNext(x, m.sn)
    BY <1>3, <2>1, <2>2
  <2>4. m.una <= rcv_nxt'[x]
    BY <2>1, <2>2
  <2> QED BY <1>1, <2>2, <2>3, <2>4 DEF Genuine
<1> QED BY <1>2, <1>4, <1>5, <1>6, <1>7, <1>9 DEF IInv

LEMMA RecvInv ==
  ASSUME IInv, NEW n \in Node, NEW k \in 0 .. Len(rcv_queue[n]), Recv(n, k)
  PROVE  IInv'
<1> DEFINE rest == SubSeq(rcv_queue[n], k + 1, Len(rcv_queue[n]))
           d == delivered[n] \o SubSeq(rcv_queue[n], 1, k)
<1>t. TypeOK
  BY DEF IInv
<1>1. /\ rcv_queue[n] \in Seq(Payload) /\ delivered[n] \in Seq(Payload)
      /\ rcv_buf[n] \in SUBSET Kept /\ Len(rcv_queue[n]) <= RcvWnd
  BY <1>t DEF TypeOK, IInv, WindowsKept
<1>2. /\ rest \in Seq(Payload) /\ Len(rest) = Len(rcv_queue[n]) - k
      /\ d \o rest = delivered[n] \o rcv_queue[n]
      /\ SubSeq(rcv_queue[n], 1, k) \in Seq(Payload)
  <2> DEFINE q == rcv_queue[n]
             e == delivered[n]
  <2>1. q \in Seq(Payload) /\ e \in Seq(Payload) /\ k \in 0 .. Len(q)
    BY <1>1
  <2> HIDE DEF q, e
  <2>2. /\ SubSeq(q, 1, k) \in Seq(Payload)
        /\ SubSeq(q, k + 1, Len(q)) \in Seq(Payload)
        /\ Len(SubSeq(q, k + 1, Len(q))) = Len(q) - k
    BY <2>1, Cut
  <2>3. (e \o SubSeq(q, 1, k)) \o SubSeq(q, k + 1, Len(q)) = e \o q
    BY <2>1, CutAndJoin
  <2> QED BY <2>2, <2>3 DEF q, e
<1>3. d \in Seq(Payload)
  BY <1>1, <1>2
<1>4. /\ MoveInOrder(n, rcv_buf[n], rest) /\ UNCHANGED <<hist, snd_nxt>>
      /\ delivered' = [delivered EXCEPT ![n] = d]
      /\ UNCHANGED <<sending, snd_buf, snd_una, snd_nxt, rmt_wnd, probing, ask_send,
                     acklist, net>>
      /\ ask_tell' \in [Node -> BOOLEAN]
  <2>1. ask_tell' = [ask_tell EXCEPT ![n] =
                       @ \/ (Len(rcv_queue[n]) >= RcvWnd /\ Len(rcv_queue'[n]) < RcvWnd)]
    BY DEF Recv
  <2>2. ask_tell' \in [Node -> BOOLEAN]
    BY <1>t, <2>1, Zenon DEF TypeOK
  <2> QED BY <2>2 DEF Recv, sending
<1>5. Len(rest) <= RcvWnd
  BY <1>1, <1>2, WindowAssumption
<1>6. \A s \in rcv_buf[n] : /\ rcv_nxt[n] <= s.sn /\ InWindow(n, s.sn)
                            /\ Genuine(Peer(n), s.sn, s.data)
  BY DEF IInv, WindowsKept, ReceiveBufferGenuine
<1> HIDE DEF rest, d
<1>7. ReceiverKept
  BY <1>1, <1>2, <1>3, <1>4, <1>5, <1>6, MoveFacts DEF Regrouped
<1>8. TypeOK'
  <2>1. delivered' \in [Node -> Seq(Payload)]
    BY <1>t, <1>3, <1>4 DEF TypeOK
  <2> QED BY <1>t, <1>4, <1>7, <2>1 DEF TypeOK, ReceiverKept, sending
<1>9. SenderKept
  <2>1. ASSUME NEW x \in Node
        PROVE  /\ snd_una[x] <= snd_una[x] /\ snd_una[x] <= snd_nxt[x]
               /\ \A s \in snd_buf[x] : snd_una[x] <= s.sn
    <3>1. snd_una[x] \in Nat
      BY <1>t DEF TypeOK
    <3>2. snd_una[x] <= snd_nxt[x]
      BY DEF IInv, WindowsKept
    <3>3. \A s \in snd_buf[x] : snd_una[x] <= s.sn
      BY DEF IInv, SendBufferGenuine
    <3> QED BY <3>1, <3>2, <3>3
  <2>2. snd_una' = snd_una /\ snd_buf' = snd_buf
    BY <1>4
  <2> QED BY <2>1, <2>2 DEF SenderKept
<1>10. AcksTrue'
  <2> SUFFICES ASSUME NEW x \in Node, NEW i \in DOMAIN acklist[x]
               PROVE  GotNext(x, acklist[x][i])
    BY <1>4 DEF AcksTrue, Got, GotNext
  <2>1. acklist[x] \in Seq(Nat)
    BY <1>t DEF TypeOK
  <2>2. acklist[x][i] \in Nat /\ Got(x, acklist[x][i])
    BY <2>1 DEF IInv, AcksTrue
  <2> QED BY <1>7, <2>2 DEF ReceiverKept
<1> QED BY <1>4, <1>7, <1>8, <1>9, <1>10, KeptStep DEF sending

\* ikcp_input: what a segment says is true of its sender.
LEMMA InputFacts ==
  ASSUME IInv, NEW m \in net
  PROVE  /\ m \in Segment /\ m.to \in Node /\ m.sn \in Nat /\ m.una \in Nat
         /\ m.wnd \in Nat /\ m.data \in Payload /\ Peer(m.to) \in Node
         /\ m.una <= rcv_nxt[Peer(m.to)]
         /\ m.cmd = "PUSH" => Genuine(Peer(m.to), m.sn, m.data)
         /\ m.cmd = "ACK" => Got(Peer(m.to), m.sn)
<1>1. /\ m \in Segment /\ m.to \in Node /\ m.sn \in Nat /\ m.una \in Nat
      /\ m.wnd \in Nat /\ m.data \in Payload
  BY DEF IInv, TypeOK, Segment
<1>2. Peer(m.to) \in Node /\ m.to = Peer(Peer(m.to))
  BY <1>1, PeerFacts
<1> QED BY <1>1, <1>2 DEF IInv, InFlightTrue

LEMMA UnackedFacts ==
  ASSUME IInv, NEW m \in net, Shrink(m.to, Unacked(m.to, m))
  PROVE  /\ SenderKept /\ snd_buf' \in [Node -> SUBSET Kept]
         /\ snd_una' \in [Node -> Nat]
<1> DEFINE n == m.to
           buf == Unacked(n, m)
<1>t. TypeOK
  BY DEF IInv
<1>1. /\ n \in Node /\ Peer(n) \in Node /\ m.una \in Nat
      /\ m.una <= rcv_nxt[Peer(n)] /\ (m.cmd = "ACK" => Got(Peer(n), m.sn))
  BY InputFacts
<1>2. /\ buf \subseteq snd_buf[n] /\ buf \subseteq Kept
      /\ \A s \in snd_buf[n] \ buf : Got(Peer(n), s.sn)
  <2>1. snd_buf[n] \subseteq Kept /\ rcv_nxt[Peer(n)] \in Nat
    BY <1>t, <1>1 DEF TypeOK
  <2>2. ASSUME NEW s \in snd_buf[n] \ buf
        PROVE  Got(Peer(n), s.sn)
    <3>1. s.sn \in Nat
      BY <2>1 DEF Kept
    <3>2. ~(s.sn >= m.una) \/ (m.cmd = "ACK" /\ s.sn = m.sn)
      BY DEF Unacked
    <3> QED BY <1>1, <2>1, <3>1, <3>2 DEF Got
  <2> QED BY <2>1, <2>2 DEF Unacked
<1>3. PICK u \in Numbers(buf) \cup {snd_nxt[n]} :
        /\ \A s \in buf : u <= s.sn
        /\ snd_buf' = [snd_buf EXCEPT ![n] = buf]
        /\ snd_una' = [snd_una EXCEPT ![n] = u]
  BY DEF Shrink
<1> HIDE DEF n, buf
<1>4. /\ u \in Nat /\ snd_una[n] <= u /\ u <= snd_nxt[n]
  <2>1. /\ snd_nxt[n] \in Nat /\ snd_una[n] \in Nat /\ snd_una[n] <= snd_nxt[n]
    BY <1>t, <1>1 DEF TypeOK, IInv, WindowsKept
  <2>2. \A s \in buf : s.sn \in Nat /\ snd_una[n] <= s.sn /\ s.sn < snd_nxt[n]
    BY <1>1, <1>2 DEF Kept, IInv, SendBufferGenuine, Genuine
  <2> QED BY <1>3, <2>1, <2>2 DEF Numbers
<1>5. /\ snd_buf \in [Node -> SUBSET Kept] /\ snd_una \in [Node -> Nat]
      /\ snd_nxt \in [Node -> Nat]
  BY <1>t DEF TypeOK
<1>6. /\ snd_buf'[n] = buf /\ snd_una'[n] = u
      /\ \A x \in Node \ {n} : snd_buf'[x] = snd_buf[x] /\ snd_una'[x] = snd_una[x]
  BY <1>1, <1>3, <1>5
<1>7. SenderKept
  <2> SUFFICES ASSUME NEW x \in Node
               PROVE  /\ snd_una[x] <= snd_una'[x] /\ snd_una'[x] <= snd_nxt[x]
                      /\ snd_buf'[x] \subseteq snd_buf[x]
                      /\ \A s \in snd_buf'[x] : snd_una'[x] <= s.sn
                      /\ \A s \in snd_buf[x] \ snd_buf'[x] : Got(Peer(x), s.sn)
    BY DEF SenderKept
  <2>1. CASE x = n
    BY <1>2, <1>3, <1>4, <1>6, <2>1
  <2>2. CASE x # n
    <3>1. /\ snd_una[x] \in Nat /\ snd_una[x] <= snd_nxt[x]
          /\ \A s \in snd_buf[x] : snd_una[x] <= s.sn
      BY <1>5 DEF IInv, WindowsKept, SendBufferGenuine
    <3> QED BY <1>6, <2>2, <3>1
  <2> QED BY <2>1, <2>2
<1> QED BY <1>1, <1>2, <1>3, <1>4, <1>5, <1>7

\* Nothing moves at the receiver.
LEMMA ReceiverIdle ==
  ASSUME IInv, UNCHANGED <<receiving, snd_nxt, hist, delivered>>
  PROVE  ReceiverKept
<1>1. /\ rcv_nxt' = rcv_nxt /\ rcv_buf' = rcv_buf /\ rcv_queue' = rcv_queue
      /\ snd_nxt' = snd_nxt /\ hist' = hist /\ delivered' = delivered
  BY DEF receiving
<1>2. InOrder'
  BY <1>1 DEF IInv, InOrder
<1>3. \A x \in Node, sn \in Nat : Got(x, sn) => GotNext(x, sn)
  BY <1>1 DEF Got, GotNext
<1>4. /\ rcv_nxt \in [Node -> Nat] /\ rcv_buf \in [Node -> SUBSET Kept]
      /\ rcv_queue \in [Node -> Seq(Payload)]
  BY DEF IInv, TypeOK
<1>5. ASSUME NEW x \in Node
      PROVE  /\ rcv_nxt[x] <= rcv_nxt[x] /\ Len(rcv_queue[x]) <= RcvWnd
             /\ \A s \in rcv_buf[x] : /\ rcv_nxt[x] <= s.sn
                                      /\ s.sn < rcv_nxt[x] + RcvWnd
                                      /\ Genuine(Peer(x), s.sn, s.data)
  BY <1>4 DEF IInv, WindowsKept, ReceiveBufferGenuine, InWindow
<1> QED BY <1>1, <1>2, <1>3, <1>4, <1>5 DEF ReceiverKept

\* parse_data keeps what the receiver holds genuine and within its window.
LEMMA StoreFacts ==
  ASSUME IInv, NEW m \in net, m.cmd = "PUSH", InWindow(m.to, m.sn),
         m.sn >= rcv_nxt[m.to],
         MoveInOrder(m.to, WithSegment(m.to, m), rcv_queue[m.to]),
         UNCHANGED <<snd_nxt, hist, delivered>>
  PROVE  ReceiverKept /\ GotNext(m.to, m.sn)
<1> DEFINE n == m.to
           buf == WithSegment(n, m)
           new == [sn |-> m.sn, data |-> m.data]
<1>t. TypeOK
  BY DEF IInv
<1>1. /\ n \in Node /\ m.sn \in Nat /\ m.data \in Payload
      /\ Genuine(Peer(n), m.sn, m.data)
  BY InputFacts
<1>2. /\ rcv_buf[n] \subseteq Kept /\ rcv_queue[n] \in Seq(Payload)
      /\ delivered[n] \in Seq(Payload) /\ rcv_nxt[n] \in Nat
      /\ delivered \in [Node -> Seq(Payload)]
  BY <1>t, <1>1 DEF TypeOK
<1>3. new \in Kept /\ new.sn = m.sn /\ new.data = m.data
  BY <1>1 DEF Kept
<1>4. /\ rcv_buf[n] \subseteq buf /\ buf \subseteq rcv_buf[n] \cup {new}
      /\ m.sn \in Numbers(buf)
  <2>1. ~(m.sn < rcv_nxt[n])
    BY <1>1, <1>2
  <2> QED BY <1>3, <2>1 DEF WithSegment, Numbers
<1> HIDE DEF new, buf
<1>5. buf \in SUBSET Kept
  BY <1>2, <1>3, <1>4
<1>6. \A s \in buf : /\ rcv_nxt[n] <= s.sn /\ InWindow(n, s.sn)
                     /\ Genuine(Peer(n), s.sn, s.data)
  <2>1. \A s \in rcv_buf[n] : /\ rcv_nxt[n] <= s.sn /\ InWindow(n, s.sn)
                              /\ Genuine(Peer(n), s.sn, s.data)
    BY <1>1 DEF IInv, WindowsKept, ReceiveBufferGenuine
  <2> QED BY <1>1, <1>2, <1>3, <1>4, <2>1
<1>7. Len(rcv_queue[n]) <= RcvWnd
  BY <1>1 DEF IInv, WindowsKept
<1>8. Regrouped(n, delivered[n], rcv_queue[n])
  BY DEF Regrouped
<1>9. /\ delivered' = [delivered EXCEPT ![n] = delivered[n]]
      /\ UNCHANGED <<hist, snd_nxt>> /\ MoveInOrder(n, buf, rcv_queue[n])
  BY <1>2 DEF buf
<1> HIDE DEF n
<1>10. ReceiverKept /\ \A sn \in Numbers(buf) : GotNext(n, sn)
  BY <1>1, <1>2, <1>4, <1>5, <1>6, <1>7, <1>8, <1>9, MoveFacts
<1> QED BY <1>4, <1>10 DEF n

LEMMA InputInv ==
  ASSUME IInv, NEW m \in net, Input(m)
  PROVE  IInv'
<1> DEFINE n == m.to
<1>t. TypeOK
  BY DEF IInv
<1>1. /\ n \in Node /\ m.sn \in Nat /\ m.wnd \in Nat
  BY InputFacts
<1>2. /\ SenderKept /\ snd_buf' \in [Node -> SUBSET Kept] /\ snd_una' \in [Node -> Nat]
  BY UnackedFacts DEF Input, Acknowledge
<1>3. /\ net' \subseteq net /\ UNCHANGED <<snd_nxt, hist, delivered>>
      /\ UNCHANGED <<sent, snd_queue, probing, ask_send>>
  BY DEF Input, sending
<1>4. ReceiverKept /\ AcksTrue' /\ acklist' \in [Node -> Seq(Nat)]
  <2>0. acklist \in [Node -> Seq(Nat)]
    BY <1>t DEF TypeOK
  <2>1. \A x \in Node : \A i \in DOMAIN acklist[x] :
          acklist[x][i] \in Nat /\ Got(x, acklist[x][i])
    <3> SUFFICES ASSUME NEW x \in Node, NEW i \in DOMAIN acklist[x]
                 PROVE  acklist[x][i] \in Nat /\ Got(x, acklist[x][i])
      OBVIOUS
    <3>1. acklist[x] \in Seq(Nat)
      BY <2>0
    <3> QED BY <3>1 DEF IInv, AcksTrue
  <2>2. CASE UNCHANGED <<acklist, receiving>>
    <3>1. ReceiverKept
      BY <1>3, <2>2, ReceiverIdle
    <3>2. \A x \in Node : \A i \in DOMAIN acklist[x] : GotNext(x, acklist[x][i])
      BY <2>1, <3>1 DEF ReceiverKept
    <3> QED BY <2>0, <2>2, <3>1, <3>2 DEF AcksTrue, Got, GotNext
  <2>3. CASE /\ m.cmd = "PUSH" /\ InWindow(n, m.sn)
             /\ acklist' = [acklist EXCEPT ![n] = Append(@, m.sn)]
             /\ IF m.sn >= rcv_nxt[n]
                THEN MoveInOrder(n, WithSegment(n, m), rcv_queue[n])
                ELSE UNCHANGED receiving
    <3>1. ReceiverKept /\ GotNext(n, m.sn)
      <4>1. CASE m.sn >= rcv_nxt[n]
        BY <1>3, <2>3, <4>1, StoreFacts
      <4>2. CASE ~(m.sn >= rcv_nxt[n])
        <5>1. ReceiverKept
          BY <1>3, <2>3, <4>2, ReceiverIdle
        <5>2. rcv_nxt[n] \in Nat
          BY <1>t, <1>1 DEF TypeOK
        <5>3. Got(n, m.sn)
          BY <1>1, <4>2, <5>2 DEF Got
        <5> QED BY <1>1, <5>1, <5>3 DEF ReceiverKept
      <4> QED BY <4>1, <4>2
    <3>2. acklist' \in [Node -> Seq(Nat)]
      <4>1. Append(acklist[n], m.sn) \in Seq(Nat)
        BY <1>1, <2>0, AppendProperties
      <4> QED BY <2>0, <2>3, <4>1
    <3>3. AcksTrue'
      <4> SUFFICES ASSUME NEW x \in Node, NEW i \in DOMAIN acklist'[x]
                   PROVE  GotNext(x, acklist'[x][i])
        BY DEF AcksTrue, Got, GotNext
      <4>1. \A j \in DOMAIN acklist[x] : GotNext(x, acklist[x][j])
        BY <2>1, <3>1 DEF ReceiverKept
      <4>2. CASE x # n
        <5>1. acklist'[x] = acklist[x]
          BY <2>0, <2>3, <4>2
        <5> QED BY <4>1, <5>1
      <4>3. CASE x = n
        <5>1. acklist[n] \in Seq(Nat)
          BY <1>1, <2>0
        <5>2. acklist'[n] = Append(acklist[n], m.sn)
          BY <1>1, <2>0, <2>3
        <5>3. i \in DOMAIN acklist[n] \/ i = Len(acklist[n]) + 1
          BY <1>1, <4>3, <5>1, <5>2, AppendProperties
        <5>4. i \in DOMAIN acklist[n] => acklist'[n][i] = acklist[n][i]
          BY <1>1, <5>1, <5>2, AppendProperties
        <5>5. i = Len(acklist[n]) + 1 => acklist'[n][i] = m.sn
          BY <1>1, <5>1, <5>2, AppendProperties
        <5> QED BY <3>1, <4>1, <4>3, <5>3, <5>4, <5>5
      <4> QED BY <4>2, <4>3
    <3> QED BY <3>1, <3>2, <3>3
  <2>4. \/ m.cmd = "PUSH" /\ ReceivePush(n, m)
        \/ m.cmd # "PUSH" /\ UNCHANGED <<acklist, receiving>>
    BY DEF Input
  <2> QED BY <2>2, <2>3, <2>4 DEF ReceivePush
<1>5. TypeOK'
  <2>1. rmt_wnd' \in [Node -> Nat]
    <3>1. rmt_wnd' = [rmt_wnd EXCEPT ![n] = m.wnd]
      BY DEF Input
    <3> QED BY <1>t, <1>1, <3>1 DEF TypeOK
  <2>2. ask_tell' \in [Node -> BOOLEAN]
    <3>1. ask_tell' = [ask_tell EXCEPT ![n] = @ \/ m.cmd = "WASK"]
      BY DEF Input
    <3> QED BY <1>t, <3>1, Zenon DEF TypeOK
  <2> QED BY <1>t, <1>2, <1>3, <1>4, <2>1, <2>2 DEF TypeOK, ReceiverKept
<1> QED BY <1>2, <1>3, <1>4, <1>5, KeptStep

-----------------------------------------------------------------------------
(* The theorems *)

LEMMA StepInv == IInv /\ [Next]_vars => IInv'
<1> SUFFICES ASSUME IInv, [Next]_vars PROVE IInv'
  OBVIOUS
<1>1. ASSUME NEW n \in Node, NEW len \in 1 .. MaxSend, Send(n, len) PROVE IInv'
  BY <1>1, SendInv
<1>2. ASSUME NEW n \in Node, NEW due \in SUBSET snd_buf[n],
             NEW probe_due \in BOOLEAN, Flush(n, due, probe_due)
      PROVE  IInv'
  BY <1>2, FlushInv
<1>7. ASSUME NEW n \in Node, FlushRefused(n) PROVE IInv'
  BY <1>7, FlushRefusedInv
<1>3. ASSUME NEW n \in Node, NEW k \in 0 .. Len(rcv_queue[n]), Recv(n, k) PROVE IInv'
  BY <1>3, RecvInv
<1>4. ASSUME NEW m \in net, Input(m) PROVE IInv'
  BY <1>4, InputInv
<1>5. ASSUME NEW m \in net, Lose(m) PROVE IInv'
  BY <1>5, LoseInv
<1>6. CASE UNCHANGED vars
  <2>1. UNCHANGED Protocol
    BY <1>6 DEF vars, Protocol, sending
  <2>2. TypeOK'
    BY <1>6 DEF vars, sending, receiving, probes, IInv, TypeOK
  <2> QED BY <2>1, <2>2, ProtocolUnchanged DEF IInv
<1> QED BY <1>1, <1>2, <1>3, <1>4, <1>5, <1>6, <1>7 DEF Next

\* The inductive invariant holds in every reachable state.
THEOREM InvariantHolds == Spec => []IInv
<1>1. Init => IInv
  BY InitInv
<1>2. IInv /\ [Next]_vars => IInv'
  BY StepInv
<1> QED BY <1>1, <1>2, PTL DEF Spec

\* Every variable keeps its type: no length or window is ever negative.
THEOREM TypeCorrect == Spec => []TypeOK
<1>1. IInv => TypeOK
  BY DEF IInv
<1> QED BY <1>1, InvariantHolds, PTL

\* What ikcp_recv delivers and queues is the peer's stream below rcv_nxt, in
\* order and each payload once, whatever the network does.
THEOREM DeliveredInOrder == Spec => []InOrder
<1>1. IInv => InOrder
  BY DEF IInv
<1> QED BY <1>1, InvariantHolds, PTL

\* ikcp_parse_una and ikcp_parse_ack release only what the peer holds.
THEOREM NothingIsLost == Spec => []NothingLost
<1>1. IInv => NothingLost
  BY DEF IInv
<1> QED BY <1>1, InvariantHolds, PTL

\* Both ends keep to their windows.
THEOREM WindowsAreKept == Spec => []WindowsKept
<1>1. IInv => WindowsKept
  BY DEF IInv
<1> QED BY <1>1, InvariantHolds, PTL

\* The numbers _itimediff compares are at most two windows apart.
THEOREM NumbersAreClose == Spec => []NumbersStayClose
<1>1. IInv => NumbersStayClose
  <2> SUFFICES ASSUME IInv, NEW n \in Node
               PROVE  /\ snd_una[n] <= rcv_nxt[Peer(n)] + RcvWnd
                      /\ snd_nxt[n] <= rcv_nxt[Peer(n)] + RcvWnd + SndWnd
                      /\ rcv_nxt[Peer(n)] <= snd_nxt[n]
    BY DEF NumbersStayClose
  <2>1. /\ Peer(n) \in Node /\ Peer(Peer(n)) = n
        /\ snd_una[n] \in Nat /\ snd_nxt[n] \in Nat /\ rcv_nxt[Peer(n)] \in Nat
        /\ SndWnd \in Nat /\ RcvWnd \in Nat
    BY PeerFacts, WindowAssumption DEF IInv, TypeOK
  <2>2. /\ snd_una[n] <= snd_nxt[n] /\ snd_nxt[n] <= snd_una[n] + SndWnd
        /\ \A s \in rcv_buf[Peer(n)] : s.sn < rcv_nxt[Peer(n)] + RcvWnd
    BY <2>1 DEF IInv, WindowsKept, InWindow
  <2>3. snd_una[n] <= rcv_nxt[Peer(n)] + RcvWnd
    <3>1. CASE snd_una[n] = 0
      BY <2>1, <3>1
    <3>2. CASE snd_una[n] # 0
      <4> DEFINE sn == snd_una[n] - 1
      <4>1. sn \in 0 .. snd_nxt[n] - 1 /\ sn < snd_una[n]
        BY <2>1, <2>2, <3>2
      <4>2. sn \notin Numbers(snd_buf[n])
        <5>1. \A s \in snd_buf[n] : snd_una[n] <= s.sn /\ s.sn \in Nat
          BY DEF IInv, SendBufferGenuine, TypeOK, Kept
        <5> QED BY <2>1, <4>1, <5>1 DEF Numbers
      <4>3. Got(Peer(n), sn)
        BY <4>1, <4>2 DEF IInv, NothingLost
      <4>4. sn < rcv_nxt[Peer(n)] + RcvWnd
        BY <2>1, <2>2, <4>1, <4>3 DEF Got, Numbers
      <4> QED BY <2>1, <4>4
    <3> QED BY <3>1, <3>2
  <2>4. snd_nxt[n] <= rcv_nxt[Peer(n)] + RcvWnd + SndWnd
    BY <2>1, <2>2, <2>3
  <2>5. rcv_nxt[Peer(n)] <= snd_nxt[n]
    <3>1. rcv_nxt[Peer(n)] <= snd_nxt[Peer(Peer(n))]
      BY <2>1 DEF IInv, InOrder
    <3> QED BY <2>1, <3>1
  <2> QED BY <2>3, <2>4, <2>5
<1> QED BY <1>1, InvariantHolds, PTL

LEMMA MoveForward ==
  ASSUME TypeOK, NEW n \in Node, NEW buf, NEW queue, MoveInOrder(n, buf, queue)
  PROVE  \A x \in Node : rcv_nxt'[x] >= rcv_nxt[x]
<1>1. PICK j \in 0 .. RcvWnd : rcv_nxt' = [rcv_nxt EXCEPT ![n] = @ + j]
  BY DEF MoveInOrder
<1>2. rcv_nxt \in [Node -> Nat] /\ j \in Nat
  BY <1>1, WindowAssumption DEF TypeOK
<1> QED BY <1>1, <1>2

\* What was acknowledged or received stays so, however late or out of order
\* the network delivers.
THEOREM NumbersNeverGoBack == Spec => NeverGoesBack
<1> DEFINE Forward == \A n \in Node : snd_una'[n] >= snd_una[n] /\ rcv_nxt'[n] >= rcv_nxt[n]
<1>1. IInv /\ [Next]_vars => Forward
  <2> SUFFICES ASSUME IInv, [Next]_vars PROVE Forward
    OBVIOUS
  <2>0. TypeOK /\ \A n \in Node : snd_una[n] \in Nat /\ rcv_nxt[n] \in Nat
    BY DEF IInv, TypeOK
  <2>1. CASE UNCHANGED <<snd_una, rcv_nxt>>
    BY <2>0, <2>1
  <2>2. ASSUME NEW n \in Node, NEW k \in 0 .. Len(rcv_queue[n]), Recv(n, k)
        PROVE  Forward
    <3>1. \A x \in Node : rcv_nxt'[x] >= rcv_nxt[x]
      BY <2>0, <2>2, MoveForward DEF Recv
    <3>2. snd_una' = snd_una
      BY <2>2 DEF Recv
    <3> QED BY <2>0, <3>1, <3>2
  <2>3. ASSUME NEW m \in net, Input(m)
        PROVE  Forward
    <3>1. \A x \in Node : snd_una'[x] >= snd_una[x]
      <4>1. SenderKept /\ snd_una' \in [Node -> Nat]
        BY <2>3, UnackedFacts DEF Input, Acknowledge
      <4> QED BY <2>0, <4>1 DEF SenderKept
    <3>2. \A x \in Node : rcv_nxt'[x] >= rcv_nxt[x]
      <4>1. m.to \in Node
        BY InputFacts
      <4>2. CASE rcv_nxt' = rcv_nxt
        BY <2>0, <4>2
      <4>3. CASE MoveInOrder(m.to, WithSegment(m.to, m), rcv_queue[m.to])
        BY <2>0, <4>1, <4>3, MoveForward
      <4> QED BY <2>3, <4>2, <4>3 DEF Input, ReceivePush, receiving
    <3> QED BY <3>1, <3>2
  <2>4. ASSUME NEW n \in Node, NEW len \in 1 .. MaxSend, Send(n, len)
        PROVE  UNCHANGED <<snd_una, rcv_nxt>>
    BY <2>4 DEF Send, receiving
  <2>5. ASSUME NEW n \in Node, NEW due \in SUBSET snd_buf[n],
               NEW probe_due \in BOOLEAN, Flush(n, due, probe_due)
        PROVE  UNCHANGED <<snd_una, rcv_nxt>>
    BY <2>5 DEF Flush, receiving
  <2>8. ASSUME NEW n \in Node, FlushRefused(n)
        PROVE  UNCHANGED <<snd_una, rcv_nxt>>
    BY <2>8 DEF FlushRefused, FlushStopsAtAck, FlushStopsAtProbe, receiving
  <2>6. ASSUME NEW m \in net, Lose(m)
        PROVE  UNCHANGED <<snd_una, rcv_nxt>>
    BY <2>6 DEF Lose, receiving
  <2>7. CASE UNCHANGED vars
    BY <2>1, <2>7 DEF vars, receiving
  <2> HIDE DEF Forward
  <2> QED BY <2>1, <2>2, <2>3, <2>4, <2>5, <2>6, <2>7, <2>8 DEF Next
<1>2. IInv /\ [Next]_vars => [Forward]_vars
  BY <1>1
<1> QED BY <1>2, InvariantHolds, PTL DEF Spec, NeverGoesBack

-----------------------------------------------------------------------------
(* The refinement of ReliableStream *)

\* The payloads that have a number and those that wait for one are the bytes
\* ikcp_send was given so far, and those that wait are packed.
StreamsCut ==
  \A n \in Node : \E mid \in Nat : /\ Stretch(hist[n], 0, mid)
                                    /\ Stretch(snd_queue[n], mid, sent[n])
                                    /\ Packed(snd_queue[n])

LEMMA StreamsCutInit == Init => StreamsCut
<1>1. Stretch(<< >>, 0, 0) /\ Packed(<< >>)
  BY EmptyStretch
<1> QED BY <1>1 DEF Init, StreamsCut

LEMMA StreamsCutSend ==
  ASSUME TypeOK, StreamsCut, NEW n \in Node, NEW len \in 1 .. MaxSend, Send(n, len)
  PROVE  StreamsCut'
<1>1. PICK mid \in Nat : /\ Stretch(hist[n], 0, mid)
                         /\ Stretch(snd_queue[n], mid, sent[n])
                         /\ Packed(snd_queue[n])
  BY DEF StreamsCut
<1>2. sent[n] + len \in Nat /\ sent[n] <= sent[n] + len
  BY BoundAssumption DEF TypeOK
<1> DEFINE queue == Queued(snd_queue[n], sent[n], sent[n] + len)
<1>3. Stretch(queue, mid, sent[n] + len) /\ Packed(queue)
  BY <1>1, <1>2, SendKeepsTheStream
<1>4. /\ snd_queue'[n] = queue /\ sent'[n] = sent[n] + len /\ hist' = hist
      /\ \A x \in Node : x # n => snd_queue'[x] = snd_queue[x] /\ sent'[x] = sent[x]
  <2> HIDE DEF queue
  <2>1. /\ snd_queue' = [snd_queue EXCEPT ![n] = queue]
        /\ sent' = [sent EXCEPT ![n] = sent[n] + len] /\ hist' = hist
    BY DEF Send, queue
  <2> QED BY <2>1 DEF TypeOK
<1> HIDE DEF queue
<1> SUFFICES ASSUME NEW x \in Node
             PROVE  \E m \in Nat : /\ Stretch(hist'[x], 0, m)
                                   /\ Stretch(snd_queue'[x], m, sent'[x])
                                   /\ Packed(snd_queue'[x])
  BY DEF StreamsCut
<1>5. CASE x = n
  BY <1>1, <1>3, <1>4, <1>5
<1>6. CASE x # n
  BY <1>4, <1>6 DEF StreamsCut
<1> QED BY <1>5, <1>6

LEMMA StreamsCutFlush ==
  ASSUME IInv, StreamsCut, NEW n \in Node, NEW due, NEW probe_due, Flush(n, due, probe_due)
  PROVE  StreamsCut'
<1>1. PICK mid \in Nat : /\ Stretch(hist[n], 0, mid)
                         /\ Stretch(snd_queue[n], mid, sent[n])
                         /\ Packed(snd_queue[n])
  BY DEF StreamsCut
<1> DEFINE queue == snd_queue[n]
           k == Admitted(n)
           taken == SubSeq(queue, 1, k)
           rest == SubSeq(queue, k + 1, Len(queue))
           next == IF k = 0 THEN mid ELSE queue[k][2]
<1>2. k \in 0 .. Len(queue)
  BY AdmittedFacts
<1>3. Stretch(taken, mid, next) /\ Stretch(rest, next, sent[n]) /\ Packed(rest)
  <2> HIDE DEF k
  <2> QED BY <1>1, <1>2, StretchCut
<1>4. Stretch(hist[n] \o taken, 0, next)
  BY <1>1, <1>3, StretchesJoin
<1>5. next \in Nat
  BY <1>3 DEF Stretch
<1>6. /\ snd_queue'[n] = rest /\ hist'[n] = hist[n] \o taken /\ sent' = sent
      /\ \A x \in Node : x # n => snd_queue'[x] = snd_queue[x] /\ hist'[x] = hist[x]
  <2>1. TypeOK
    BY DEF IInv
  <2> QED BY <2>1 DEF TypeOK, Flush
<1> HIDE DEF taken, rest, next
<1> SUFFICES ASSUME NEW x \in Node
             PROVE  \E m \in Nat : /\ Stretch(hist'[x], 0, m)
                                   /\ Stretch(snd_queue'[x], m, sent'[x])
                                   /\ Packed(snd_queue'[x])
  BY DEF StreamsCut
<1>7. CASE x = n
  BY <1>3, <1>4, <1>5, <1>6, <1>7
<1>8. CASE x # n
  BY <1>6, <1>8 DEF StreamsCut
<1> QED BY <1>7, <1>8

\* No other step touches what ikcp_send was given.
LEMMA StreamsCutStep ==
  ASSUME IInv, StreamsCut, [Next]_vars PROVE StreamsCut'
<1>1. CASE UNCHANGED sending
  BY <1>1 DEF sending, StreamsCut
<1>2. ASSUME NEW n \in Node, NEW len \in 1 .. MaxSend, Send(n, len)
      PROVE  StreamsCut'
  BY <1>2, StreamsCutSend DEF IInv
<1>3. ASSUME NEW n \in Node, NEW due \in SUBSET snd_buf[n],
             NEW probe_due \in BOOLEAN, Flush(n, due, probe_due)
      PROVE  StreamsCut'
  BY <1>3, StreamsCutFlush
<1>4. ASSUME NEW n \in Node, FlushRefused(n)
      PROVE  UNCHANGED sending
  BY <1>4 DEF FlushRefused, FlushStopsAtAck, FlushStopsAtProbe
<1>5. ASSUME NEW n \in Node, NEW k \in 0 .. Len(rcv_queue[n]), Recv(n, k)
      PROVE  UNCHANGED sending
  BY <1>5 DEF Recv
<1>6. ASSUME NEW m \in net, Input(m) \/ Lose(m)
      PROVE  UNCHANGED sending
  BY <1>6 DEF Input, Lose
<1>7. CASE UNCHANGED vars
  BY <1>1, <1>7 DEF vars
<1> QED BY <1>1, <1>2, <1>3, <1>4, <1>5, <1>6, <1>7 DEF Next

\* What a prefix of a stream begins with is a stretch from its beginning.
LEMMA PrefixIsStretch ==
  ASSUME NEW d \in Seq(Payload), NEW r \in Seq(Payload), NEW h, NEW mid,
         NEW x \in 0 .. Len(h), d \o r = SubSeq(h, 1, x), Stretch(h, 0, mid)
  PROVE  \E hi \in Nat : Stretch(d, 0, hi) /\ hi <= mid
<1> DEFINE k == Len(d)
<1>1. h \in Seq(Payload) /\ k \in Nat /\ Len(r) \in Nat /\ mid \in Nat
  BY DEF Stretch
<1>2. Len(d \o r) = x /\ \A i \in 1 .. x : (d \o r)[i] = h[i]
  <2>1. /\ 1 \in 1 .. Len(h) + 1 /\ x \in 0 .. Len(h) /\ 1 <= x + 1
        /\ x - 1 + 1 = x
        /\ \A i \in 1 .. x : 1 + i - 1 = i
    BY <1>1
  <2>2. /\ Len(SubSeq(h, 1, x)) = x - 1 + 1
        /\ \A j \in 1 .. x - 1 + 1 : SubSeq(h, 1, x)[j] = h[1 + j - 1]
    BY <1>1, <2>1, Pieces
  <2> QED BY <2>1, <2>2
<1>3. Len(d \o r) = k + Len(r) /\ \A i \in 1 .. k : (d \o r)[i] = d[i]
  BY Joined
<1>4. k <= x /\ k \in 0 .. Len(h)
  BY <1>1, <1>2, <1>3
<1>5. \A i \in 1 .. k : d[i] = h[i]
  <2> TAKE i \in 1 .. k
  <2>1. i \in 1 .. x
    BY <1>1, <1>4
  <2> QED BY <1>2, <1>3, <2>1
<1>6. d = SubSeq(h, 1, k)
  <2>1. /\ SubSeq(h, 1, k) \in Seq(Payload) /\ Len(SubSeq(h, 1, k)) = k
        /\ \A j \in 1 .. k : SubSeq(h, 1, k)[j] = h[j]
    BY <1>1, <1>4
  <2> QED BY <1>5, <2>1, SeqEqual
<1> DEFINE hi == IF k = 0 THEN 0 ELSE h[k][2]
<1>7. Stretch(SubSeq(h, 1, k), 0, hi) /\ Stretch(SubSeq(h, k + 1, Len(h)), hi, mid)
  <2> HIDE DEF k
  <2> QED BY <1>4, StretchCut
<1>8. hi \in Nat /\ hi <= mid
  BY <1>7 DEF Stretch
<1> HIDE DEF hi, k
<1> QED BY <1>6, <1>7, <1>8

\* ikcp_send is a write of the abstract stream.
LEMMA SendWrites ==
  ASSUME TypeOK, NEW n \in Node, NEW len \in 1 .. MaxSend, Send(n, len)
  PROVE  Stream!Write(n)
<1>1. /\ sent' = [sent EXCEPT ![n] = sent[n] + len] /\ delivered' = delivered
      /\ sent[n] \in Nat /\ len \in Nat /\ sent \in [Node -> Nat]
  BY BoundAssumption DEF Send, TypeOK
<1>2. sent'[n] = sent[n] + len /\ sent'[n] >= sent[n]
  BY <1>1
<1> QED BY <1>1, <1>2 DEF Stream!Write

\* ikcp_recv is a read of it.
LEMMA RecvReads ==
  ASSUME IInv, IInv', StreamsCut', NEW n \in Node, NEW k \in 0 .. Len(rcv_queue[n]), Recv(n, k)
  PROVE  Stream!Read(n)
<1> DEFINE new == SubSeq(rcv_queue[n], 1, k)
<1>1. /\ delivered \in [Node -> Seq(Payload)] /\ rcv_queue[n] \in Seq(Payload)
      /\ delivered' = [delivered EXCEPT ![n] = delivered[n] \o new] /\ sent' = sent
  BY DEF IInv, TypeOK, Recv, sending
<1>2. delivered'[n] = delivered[n] \o new /\ delivered[n] \in Seq(Payload) /\ new \in Seq(Payload)
  BY <1>1, Cut
<1>3. delivered' = [delivered EXCEPT ![n] = delivered'[n]]
  BY <1>1, <1>2
<1>4. Stream!Extends(delivered'[n], delivered[n])
  <2> DEFINE d == delivered[n]
  <2> HIDE DEF d, new
  <2>1. d \in Seq(Payload) /\ new \in Seq(Payload)
    BY <1>2 DEF d
  <2>2. Len(d \o new) = Len(d) + Len(new)
    BY <2>1
  <2>3. SubSeq(d \o new, 1, Len(d)) = d
    <3>1. SubSeq(d \o new, 1, Len(d)) = SubSeq(d, 1, Len(d))
      BY <2>1, PrefixStays
    <3> QED BY <2>1, <3>1, SubSeqFull
  <2>4. Len(d) <= Len(d \o new)
    BY <2>1, <2>2
  <2> QED BY <1>2, <2>3, <2>4 DEF d, Stream!Extends
<1>a. Peer(n) \in Node
  BY PeerFacts
<1>b. PICK mid \in Nat : /\ Stretch(hist'[Peer(n)], 0, mid)
                         /\ Stretch(snd_queue'[Peer(n)], mid, sent'[Peer(n)])
  BY <1>a DEF StreamsCut
<1>c. /\ delivered'[n] \in Seq(Payload) /\ rcv_queue'[n] \in Seq(Payload)
      /\ rcv_nxt'[n] \in 0 .. Len(hist'[Peer(n)])
      /\ delivered'[n] \o rcv_queue'[n] = SubSeq(hist'[Peer(n)], 1, rcv_nxt'[n])
  <2>1. /\ delivered'[n] \in Seq(Payload) /\ rcv_queue'[n] \in Seq(Payload)
        /\ rcv_nxt'[n] \in Nat
    BY DEF IInv, TypeOK
  <2>2. /\ rcv_nxt'[n] <= snd_nxt'[Peer(n)]
        /\ delivered'[n] \o rcv_queue'[n] = SubSeq(hist'[Peer(n)], 1, rcv_nxt'[n])
    BY DEF IInv, InOrder
  <2>3. snd_nxt'[Peer(n)] = Len(hist'[Peer(n)]) /\ snd_nxt'[Peer(n)] \in Nat
    BY <1>a DEF IInv, SendBufferGenuine, TypeOK
  <2> QED BY <2>1, <2>2, <2>3
<1>5. PICK hi \in Nat : Stretch(delivered'[n], 0, hi) /\ hi <= sent'[Peer(n)]
  <2>1. PICK hi \in Nat : Stretch(delivered'[n], 0, hi) /\ hi <= mid
    BY <1>b, <1>c, PrefixIsStretch
  <2>2. mid <= sent'[Peer(n)] /\ sent'[Peer(n)] \in Nat
    BY <1>b DEF Stretch
  <2> QED BY <2>1, <2>2
<1>6. Spans(delivered'[n], 0, hi)
  BY <1>5 DEF Stretch
<1>7. Stream!Total(delivered'[n]) = hi /\ Stream!Contiguous(delivered'[n], hi)
  BY <1>6 DEF Spans, Stream!Total, Stream!Contiguous
<1> QED BY <1>1, <1>3, <1>4, <1>5, <1>7 DEF Stream!Read

LEMMA StreamStep ==
  ASSUME IInv, IInv', StreamsCut', [Next]_vars
  PROVE  Stream!Next \/ UNCHANGED <<sent, delivered>>
<1>1. ASSUME NEW n \in Node, NEW len \in 1 .. MaxSend, Send(n, len)
      PROVE  Stream!Next
  <2>1. Stream!Write(n)
    BY <1>1, SendWrites DEF IInv
  <2> QED BY <2>1 DEF Stream!Next
<1>2. ASSUME NEW n \in Node, NEW k \in 0 .. Len(rcv_queue[n]), Recv(n, k)
      PROVE  Stream!Next
  <2>1. Stream!Read(n)
    BY <1>2, RecvReads
  <2> QED BY <2>1 DEF Stream!Next
<1>3. ASSUME NEW n \in Node, NEW due \in SUBSET snd_buf[n],
             NEW probe_due \in BOOLEAN, Flush(n, due, probe_due)
      PROVE  UNCHANGED <<sent, delivered>>
  BY <1>3 DEF Flush
<1>4. ASSUME NEW n \in Node, FlushRefused(n)
      PROVE  UNCHANGED <<sent, delivered>>
  BY <1>4 DEF FlushRefused, FlushStopsAtAck, FlushStopsAtProbe, sending
<1>5. ASSUME NEW m \in net, Input(m) \/ Lose(m)
      PROVE  UNCHANGED <<sent, delivered>>
  BY <1>5 DEF Input, Lose, sending
<1>6. CASE UNCHANGED vars
  BY <1>6 DEF vars, sending
<1> QED BY <1>1, <1>2, <1>3, <1>4, <1>5, <1>6 DEF Next

\* The protocol implements the abstract stream: over a network that loses,
\* repeats and reorders, ikcp_recv returns the bytes that the peer gave to
\* ikcp_send, in order, each once.
THEOREM Refinement == Spec => ImplementsStream
<1>1. Init => Stream!Init
  BY DEF Init, Stream!Init
<1>2. Init => StreamsCut
  BY StreamsCutInit
<1>3. IInv /\ StreamsCut /\ [Next]_vars => StreamsCut'
  BY StreamsCutStep
<1>4. IInv /\ IInv' /\ StreamsCut' /\ [Next]_vars => [Stream!Next]_<<sent, delivered>>
  BY StreamStep
<1>5. Spec => []IInv
  BY InvariantHolds
<1> QED BY <1>1, <1>2, <1>3, <1>4, <1>5, PTL DEF Spec, ImplementsStream, Stream!Spec
=============================================================================
