--------------------------------- MODULE Kcp --------------------------------
(***************************************************************************)
(* The reliable-stream protocol of src/ikcp.c, as ConnectionManager sets   *)
(* it up (src/network_connection_manager.cpp, NewKcp): stream mode, window *)
(* 64/64, no congestion window, one segment per ikcp_input.  Two endpoints *)
(* run the same code over UDP, which loses, duplicates and reorders.       *)
(*                                                                         *)
(* How a stream is cut into segments is the module Segments.               *)
(* Time.  Retransmission timers, fast resend and the probe timer are       *)
(* choices of ikcp_flush: any segment sent before may be due, and so may   *)
(* the probe.  The segments of one datagram travel apart, which allows     *)
(* more than the code does.  Over TCP, KcpCanOutput may refuse: then       *)
(* ikcp_flush returns early and loses what it had encoded but not put out. *)
(* When it refuses is the module KcpFlush; here it is a choice.            *)
(* Sequence numbers do not wrap.                                           *)
(***************************************************************************)
EXTENDS Segments, FiniteSets

CONSTANTS
  A, B,                \* the two endpoints
  SndWnd, RcvWnd,      \* snd_wnd and rcv_wnd, in segments
  FirstRmtWnd,         \* rmt_wnd before the peer has announced a window
  MaxSend,             \* most bytes one ikcp_send is given
  StreamLimit,         \* bound: bytes an endpoint sends in all
  MaxNet,              \* bound: segments in flight, each way
  MaxAcks,             \* bound: acknowledgements waiting for a flush
  MayDuplicate,        \* may the network deliver a segment twice?
  MayRefuse            \* over TCP: may KcpCanOutput refuse?

Node == {A, B}
Peer(n) == IF n = A THEN B ELSE A

ASSUME NodeAssumption   == A # B
ASSUME WindowAssumption == /\ SndWnd \in Nat \ {0} /\ RcvWnd \in Nat \ {0}
                           /\ FirstRmtWnd \in Nat
ASSUME BoundAssumption  == /\ MaxSend \in Nat \ {0} /\ StreamLimit \in [Node -> Nat]
                           /\ MaxNet \in Nat /\ MaxAcks \in Nat
                           /\ MayDuplicate \in BOOLEAN /\ MayRefuse \in BOOLEAN

VARIABLES
  sent,                \* bytes given to ikcp_send so far
  snd_queue,           \* payloads waiting for room in the send window
  snd_buf,             \* segments sent and not yet acknowledged
  snd_una, snd_nxt,    \* oldest unacknowledged and next sequence number
  rmt_wnd,             \* window the peer last announced
  probing,             \* probe_wait # 0: the window probe timer runs
  ask_send, ask_tell,  \* IKCP_ASK_SEND and IKCP_ASK_TELL are set in probe
  rcv_nxt,             \* next sequence number to move to rcv_queue
  rcv_buf,             \* segments received ahead of rcv_nxt
  rcv_queue,           \* payloads in order, for ikcp_recv
  acklist,             \* sequence numbers to acknowledge, oldest first
  net,                 \* segments in flight
  hist,                \* history: the payload each sequence number got
  delivered            \* history: the payloads ikcp_recv handed over

sending   == <<sent, snd_queue, hist>>
receiving == <<rcv_nxt, rcv_buf, rcv_queue>>
probes    == <<probing, ask_send, ask_tell>>
vars == <<sending, snd_buf, snd_una, snd_nxt, rmt_wnd, probes, receiving,
          acklist, net, delivered>>

Kept == [sn : Nat, data : Payload]          \* what snd_buf and rcv_buf hold
Segment == [to : Node, cmd : {"PUSH", "ACK", "WASK", "WINS"},
            sn : Nat, una : Nat, wnd : Nat, data : Payload]

Numbers(buf) == {s.sn : s \in buf}

Init ==
  /\ sent = [n \in Node |-> 0]
  /\ snd_queue = [n \in Node |-> << >>]
  /\ snd_buf = [n \in Node |-> {}]
  /\ snd_una = [n \in Node |-> 0]
  /\ snd_nxt = [n \in Node |-> 0]
  /\ rmt_wnd = [n \in Node |-> FirstRmtWnd]
  /\ probing = [n \in Node |-> FALSE]
  /\ ask_send = [n \in Node |-> FALSE]
  /\ ask_tell = [n \in Node |-> FALSE]
  /\ rcv_nxt = [n \in Node |-> 0]
  /\ rcv_buf = [n \in Node |-> {}]
  /\ rcv_queue = [n \in Node |-> << >>]
  /\ acklist = [n \in Node |-> << >>]
  /\ net = {}
  /\ hist = [n \in Node |-> << >>]
  /\ delivered = [n \in Node |-> << >>]

-----------------------------------------------------------------------------
(* ikcp_send, called by FlushSendDataToKcp with all that m_send_queue holds *)

Send(n, len) ==
  /\ Len(snd_queue[n]) < SndWnd
  /\ sent[n] + len <= StreamLimit[n]
  /\ snd_queue' = [snd_queue EXCEPT ![n] = Queued(@, sent[n], sent[n] + len)]
  /\ sent' = [sent EXCEPT ![n] = @ + len]
  /\ UNCHANGED <<hist, snd_buf, snd_una, snd_nxt, rmt_wnd, probes, receiving,
                 acklist, net, delivered>>

-----------------------------------------------------------------------------
(* ikcp_flush *)

\* Mutant of WndUnused: one slot is held back, unguarded.
WndUnusedLessOne(n) == RcvWnd - Len(rcv_queue[n]) - 1

WndUnused(n) ==
  IF Len(rcv_queue[n]) < RcvWnd THEN RcvWnd - Len(rcv_queue[n]) ELSE 0

\* How many payloads move from snd_queue to snd_buf: those that the smaller
\* window still has room for.
Admitted(n) ==
  LET limit == snd_una[n] + Smaller(SndWnd, rmt_wnd[n])
  IN  IF limit <= snd_nxt[n] THEN 0
      ELSE Smaller(limit - snd_nxt[n], Len(snd_queue[n]))

Fresh(n) ==
  {[sn |-> snd_nxt[n] + i - 1, data |-> snd_queue[n][i]] : i \in 1 .. Admitted(n)}

\* Mutant of Outgoing: una is taken from the sender's own direction.
OutgoingOwnUna(n, cmd, sn, data) ==
  [to |-> Peer(n), cmd |-> cmd, sn |-> sn, una |-> snd_nxt[n],
   wnd |-> WndUnused(n), data |-> data]

\* Every segment of one flush carries the same una and wnd.
Outgoing(n, cmd, sn, data) ==
  [to |-> Peer(n), cmd |-> cmd, sn |-> sn, una |-> rcv_nxt[n],
   wnd |-> WndUnused(n), data |-> data]

\* The first k acknowledgements.
Acks(n, k) == {Outgoing(n, "ACK", acklist[n][i], NoData) : i \in 1 .. k}

\* Mutant of Asked: a closed window is never probed.
AskedNever(n, probe_due) == ask_send[n]

\* A probe of a closed window falls due, or was refused last time.
Asked(n, probe_due) == ask_send[n] \/ (rmt_wnd[n] = 0 /\ probing[n] /\ probe_due)

Asks(n, probe_due) ==
  IF Asked(n, probe_due) THEN {Outgoing(n, "WASK", 0, NoData)} ELSE {}
Tells(n)  == IF ask_tell[n] THEN {Outgoing(n, "WINS", 0, NoData)} ELSE {}
Pushes(n, segments) == {Outgoing(n, "PUSH", s.sn, s.data) : s \in segments}

\* Put out as one or more datagrams, or through m_un_send_queue.
Emit(n, segments) ==
  /\ net' = net \cup segments
  /\ Cardinality({m \in net' : m.to = Peer(n)}) <= MaxNet

ProbeTimer(n) == probing' = [probing EXCEPT ![n] = rmt_wnd[n] = 0]

\* due: the segments sent before that a timer or fast resend sends again.
\* A refusal among the data segments is as if the network lost the rest.
Flush(n, due, probe_due) ==
  /\ Emit(n, Acks(n, Len(acklist[n])) \cup Asks(n, probe_due) \cup Tells(n)
               \cup Pushes(n, Fresh(n) \cup due))
  /\ acklist' = [acklist EXCEPT ![n] = << >>]
  /\ ProbeTimer(n)
  /\ ask_send' = [ask_send EXCEPT ![n] = FALSE]
  /\ ask_tell' = [ask_tell EXCEPT ![n] = FALSE]
  /\ snd_buf' = [snd_buf EXCEPT ![n] = @ \cup Fresh(n)]
  /\ snd_nxt' = [snd_nxt EXCEPT ![n] = @ + Admitted(n)]
  /\ hist' = [hist EXCEPT ![n] = @ \o SubSeq(snd_queue[n], 1, Admitted(n))]
  /\ snd_queue' = [snd_queue EXCEPT ![n] =
                     SubSeq(@, Admitted(n) + 1, Len(@))]
  /\ UNCHANGED <<sent, snd_una, rmt_wnd, receiving, delivered>>

\* Refused after encoding some acknowledgements, of which out are put out:
\* the others encoded are lost, those not encoded stay.
FlushStopsAtAck(n, out, encoded) ==
  /\ Emit(n, Acks(n, out))
  /\ acklist' = [acklist EXCEPT ![n] = SubSeq(@, encoded + 1, Len(@))]
  /\ UNCHANGED <<sending, snd_buf, snd_una, snd_nxt, rmt_wnd, probes,
                 receiving, delivered>>

\* Refused at the probe, or after it at the announcement: acklist is empty
\* already, though only out of it may be put out.
FlushStopsAtProbe(n, out, probe_due) ==
  /\ \/ /\ Asked(n, probe_due) /\ Emit(n, Acks(n, out))
        /\ ask_send' = [ask_send EXCEPT ![n] = TRUE]
     \/ /\ ask_tell[n]
        /\ \E asks \in {{}, Asks(n, probe_due)} : Emit(n, Acks(n, out) \cup asks)
        /\ ask_send' = [ask_send EXCEPT ![n] = FALSE]
  /\ acklist' = [acklist EXCEPT ![n] = << >>]
  /\ ProbeTimer(n)
  /\ UNCHANGED <<sending, snd_buf, snd_una, snd_nxt, rmt_wnd, ask_tell,
                 receiving, delivered>>

FlushRefused(n) ==
  /\ MayRefuse
  /\ \E out \in 0 .. Len(acklist[n]) :
       \/ \E encoded \in out .. Len(acklist[n]) - 1 : FlushStopsAtAck(n, out, encoded)
       \/ \E probe_due \in BOOLEAN : FlushStopsAtProbe(n, out, probe_due)

-----------------------------------------------------------------------------
(* ikcp_input and ikcp_recv *)

\* Mutant of CanMove: the room in rcv_queue is not looked at.
CanMoveUnbounded(n, buf, queue, j) ==
  \A i \in 0 .. j - 1 : rcv_nxt[n] + i \in Numbers(buf)

\* From rcv_buf to rcv_queue, in order, while the next one is there and
\* rcv_queue has room: j payloads, no more and no fewer.
CanMove(n, buf, queue, j) ==
  /\ j <= RcvWnd - Len(queue)
  /\ \A i \in 0 .. j - 1 : rcv_nxt[n] + i \in Numbers(buf)

\* Mutant of Run: moved to the head of rcv_queue, not to its tail.
RunReversed(n, buf, j) ==
  [i \in 1 .. j |->
     (CHOOSE s \in buf : s.sn = rcv_nxt[n] + j - i).data]

Run(n, buf, j) ==
  [i \in 1 .. j |->
     (CHOOSE s \in buf : s.sn = rcv_nxt[n] + i - 1).data]

\* Mutant of MoveInOrder: rcv_nxt is counted up before the test, not after.
MoveInOrderPast(n, buf, queue) ==
  \E j \in 0 .. RcvWnd :
    /\ CanMove(n, buf, queue, j) /\ ~CanMove(n, buf, queue, j + 1)
    /\ rcv_queue' = [rcv_queue EXCEPT ![n] = queue \o Run(n, buf, j)]
    /\ rcv_buf' = [rcv_buf EXCEPT ![n] = {s \in buf : s.sn > rcv_nxt[n] + j}]
    /\ rcv_nxt' = [rcv_nxt EXCEPT ![n] = @ + j + 1]

MoveInOrder(n, buf, queue) ==
  \E j \in 0 .. RcvWnd :
    /\ CanMove(n, buf, queue, j) /\ ~CanMove(n, buf, queue, j + 1)
    /\ rcv_queue' = [rcv_queue EXCEPT ![n] = queue \o Run(n, buf, j)]
    /\ rcv_buf' = [rcv_buf EXCEPT ![n] = {s \in buf : s.sn >= rcv_nxt[n] + j}]
    /\ rcv_nxt' = [rcv_nxt EXCEPT ![n] = @ + j]

\* Mutant of Unacked: una itself counts as acknowledged.
UnackedPastUna(n, m) ==
  {s \in snd_buf[n] : s.sn > m.una /\ (m.cmd = "ACK" => s.sn # m.sn)}

\* parse_una, and parse_ack for an ACK, whose bounds on sn only skip numbers
\* that no segment of snd_buf has.
Unacked(n, m) ==
  {s \in snd_buf[n] : s.sn >= m.una /\ (m.cmd = "ACK" => s.sn # m.sn)}

\* shrink_buf
Shrink(n, buf) ==
  \E u \in Numbers(buf) \cup {snd_nxt[n]} :
    /\ \A s \in buf : u <= s.sn
    /\ buf # {} => u \in Numbers(buf)
    /\ snd_buf' = [snd_buf EXCEPT ![n] = buf]
    /\ snd_una' = [snd_una EXCEPT ![n] = u]

\* Mutant of Acknowledge: snd_una is set to the una that arrived.
AcknowledgeAsTold(n, m) ==
  /\ snd_buf' = [snd_buf EXCEPT ![n] = Unacked(n, m)]
  /\ snd_una' = [snd_una EXCEPT ![n] = m.una]

Acknowledge(n, m) == Shrink(n, Unacked(n, m))

InWindow(n, sn) == sn < rcv_nxt[n] + RcvWnd

\* parse_data: a segment received before is dropped, but acknowledged again.
WithSegment(n, m) ==
  IF m.sn < rcv_nxt[n] \/ m.sn \in Numbers(rcv_buf[n]) THEN rcv_buf[n]
  ELSE rcv_buf[n] \cup {[sn |-> m.sn, data |-> m.data]}

\* Mutant of ReceivePush: a segment received before is not acknowledged again.
ReceivePushOnce(n, m) ==
  \/ /\ InWindow(n, m.sn) /\ m.sn >= rcv_nxt[n]
     /\ acklist' = [acklist EXCEPT ![n] = Append(@, m.sn)]
     /\ MoveInOrder(n, WithSegment(n, m), rcv_queue[n])
  \/ /\ ~InWindow(n, m.sn) \/ m.sn < rcv_nxt[n]
     /\ UNCHANGED <<acklist, receiving>>

ReceivePush(n, m) ==
  \/ /\ InWindow(n, m.sn)
     /\ acklist' = [acklist EXCEPT ![n] = Append(@, m.sn)]
     /\ IF m.sn >= rcv_nxt[n]
        THEN MoveInOrder(n, WithSegment(n, m), rcv_queue[n])
        ELSE UNCHANGED receiving
  \/ /\ ~InWindow(n, m.sn)
     /\ UNCHANGED <<acklist, receiving>>

\* The network hands m over, and may keep a copy.
Input(m) ==
  LET n == m.to
  IN  /\ Len(acklist[n]) < MaxAcks
      /\ net' = net \ {m} \/ (MayDuplicate /\ net' = net)
      /\ rmt_wnd' = [rmt_wnd EXCEPT ![n] = m.wnd]
      /\ Acknowledge(n, m)
      /\ \/ m.cmd = "PUSH" /\ ReceivePush(n, m)
         \/ m.cmd # "PUSH" /\ UNCHANGED <<acklist, receiving>>
      /\ ask_tell' = [ask_tell EXCEPT ![n] = @ \/ m.cmd = "WASK"]
      /\ UNCHANGED <<sending, snd_nxt, probing, ask_send, delivered>>

\* k: the payloads that fit in the free space of m_receive_queue.
Recv(n, k) ==
  LET rest == SubSeq(rcv_queue[n], k + 1, Len(rcv_queue[n]))
  IN  /\ rcv_queue[n] # << >>
      /\ delivered' = [delivered EXCEPT ![n] = @ \o SubSeq(rcv_queue[n], 1, k)]
      /\ MoveInOrder(n, rcv_buf[n], rest)
      /\ ask_tell' = [ask_tell EXCEPT ![n] =
                        @ \/ /\ Len(rcv_queue[n]) >= RcvWnd
                             /\ Len(rcv_queue'[n]) < RcvWnd]
      /\ UNCHANGED <<sending, snd_buf, snd_una, snd_nxt, rmt_wnd, probing,
                     ask_send, acklist, net>>

-----------------------------------------------------------------------------
(* The network *)

Lose(m) ==
  /\ net' = net \ {m}
  /\ UNCHANGED <<sending, snd_buf, snd_una, snd_nxt, rmt_wnd, probes,
                 receiving, acklist, delivered>>

Next ==
  \/ \E n \in Node :
       \/ \E len \in 1 .. MaxSend : Send(n, len)
       \/ \E due \in SUBSET snd_buf[n], probe_due \in BOOLEAN :
            Flush(n, due, probe_due)
       \/ FlushRefused(n)
       \/ \E k \in 0 .. Len(rcv_queue[n]) : Recv(n, k)
  \/ \E m \in net : Input(m) \/ Lose(m)

Spec == Init /\ [][Next]_vars

-----------------------------------------------------------------------------
(* Properties *)

\* Type invariant.
TypeOK ==
  /\ sent \in [Node -> Nat]
  /\ snd_queue \in [Node -> Seq(Payload)]
  /\ snd_buf \in [Node -> SUBSET Kept]
  /\ snd_una \in [Node -> Nat] /\ snd_nxt \in [Node -> Nat]
  /\ rmt_wnd \in [Node -> Nat]
  /\ probing \in [Node -> BOOLEAN] /\ ask_send \in [Node -> BOOLEAN]
  /\ ask_tell \in [Node -> BOOLEAN]
  /\ rcv_nxt \in [Node -> Nat]
  /\ rcv_buf \in [Node -> SUBSET Kept]
  /\ rcv_queue \in [Node -> Seq(Payload)]
  /\ acklist \in [Node -> Seq(Nat)]
  /\ net \subseteq Segment
  /\ hist \in [Node -> Seq(Payload)]
  /\ delivered \in [Node -> Seq(Payload)]

Stream == INSTANCE ReliableStream WITH written <- sent, read <- delivered

\* Refinement: whatever the network loses, repeats or reorders, and however
\* sends, flushes and reads interleave, ikcp_recv returns the bytes given to
\* the peer's ikcp_send, in order, each once.
ImplementsStream == Stream!Spec

\* What n has received of its peer's stream: what it has delivered and queued
\* is exactly the payloads numbered below rcv_nxt.
InOrder ==
  \A n \in Node :
    /\ rcv_nxt[n] <= snd_nxt[Peer(n)]
    /\ delivered[n] \o rcv_queue[n] = SubSeq(hist[Peer(n)], 1, rcv_nxt[n])

\* n holds segment sn of its peer's stream for good.
Got(n, sn) == sn < rcv_nxt[n] \/ sn \in Numbers(rcv_buf[n])

\* A segment leaves snd_buf only once the peer holds it: no acknowledgement,
\* however late, repeated or out of order, releases one that could still be
\* needed.
NothingLost ==
  \A n \in Node : \A sn \in 0 .. snd_nxt[n] - 1 :
    sn \in Numbers(snd_buf[n]) \/ Got(Peer(n), sn)

\* Both ends keep to their windows: no more than snd_wnd numbers are in use at
\* the sender; the receiver queues at most rcv_wnd payloads and buffers
\* nothing outside the rcv_wnd numbers from rcv_nxt on.
WindowsKept ==
  \A n \in Node :
    /\ snd_una[n] <= snd_nxt[n] /\ snd_nxt[n] <= snd_una[n] + SndWnd
    /\ Len(rcv_queue[n]) <= RcvWnd
    /\ \A s \in rcv_buf[n] : rcv_nxt[n] <= s.sn /\ InWindow(n, s.sn)

\* The numbers the two ends compare never drift further apart than the two
\* windows together, although single acknowledgements let snd_una overtake a
\* receiver whose queue is full.  _itimediff compares numbers modulo 2^32 and
\* is right only for numbers less than 2^31 apart.
NumbersStayClose ==
  \A n \in Node :
    /\ snd_una[n] <= rcv_nxt[Peer(n)] + RcvWnd
    /\ snd_nxt[n] <= rcv_nxt[Peer(n)] + RcvWnd + SndWnd
    /\ rcv_nxt[Peer(n)] <= snd_nxt[n]

\* Action property: late and reordered una fields never take back what was
\* acknowledged or received before.
NeverGoesBack ==
  [][\A n \in Node : snd_una'[n] >= snd_una[n] /\ rcv_nxt'[n] >= rcv_nxt[n]]_vars

-----------------------------------------------------------------------------
(* The inductive invariant behind the properties above *)

\* Whoever holds segment sn of n's stream holds the payload n gave it.
Genuine(n, sn, data) == sn < snd_nxt[n] /\ data = hist[n][sn + 1]

SendBufferGenuine ==
  \A n \in Node :
    /\ snd_nxt[n] = Len(hist[n])
    /\ \A s \in snd_buf[n] : snd_una[n] <= s.sn /\ Genuine(n, s.sn, s.data)

ReceiveBufferGenuine ==
  \A n \in Node : \A s \in rcv_buf[n] : Genuine(Peer(n), s.sn, s.data)

AcksTrue ==
  \A n \in Node : \A i \in DOMAIN acklist[n] : Got(n, acklist[n][i])

\* A segment in flight was true of its sender when it left, and still is.
InFlightTrue ==
  \A n \in Node : \A m \in net :
    m.to = Peer(n) => /\ m.una <= rcv_nxt[n]
                      /\ m.cmd = "PUSH" => Genuine(n, m.sn, m.data)
                      /\ m.cmd = "ACK" => Got(n, m.sn)

\* Inductive invariant of the protocol.
IInv ==
  /\ TypeOK /\ InOrder /\ NothingLost /\ WindowsKept
  /\ SendBufferGenuine /\ ReceiveBufferGenuine /\ AcksTrue /\ InFlightTrue
=============================================================================
