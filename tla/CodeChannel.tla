----------------------------- MODULE CodeChannel -----------------------------
(***************************************************************************)
(* A code from SendOneCode at one end to ReceiveOneCode at the other       *)
(* (src/network_connection_manager.cpp), through the four places that hold *)
(* its bytes on the way: m_send_queue, snd_queue of the sender's kcp,      *)
(* rcv_queue of the receiver's, m_receive_queue.  A code enters and leaves *)
(* whole, kcp moves whole segments, and segments know nothing of codes.    *)
(*                                                                         *)
(* Between the two kcp the segments arrive each once and in order: that is *)
(* what the module Kcp shows.  Both ends run the code of the client.  The  *)
(* session is one: neither end calls ChangeAddress or CloseLogicConnect,   *)
(* but the receiver's connection may end and be made again.                *)
(* Payloads are those of the module Segments: bytes lo + 1 .. hi of what   *)
(* the sender has written in all.                                          *)
(***************************************************************************)
EXTENDS Segments, FiniteSets

CONSTANTS
  Capacity,            \* bytes m_send_queue and m_receive_queue can hold
  SndWnd, RcvWnd,      \* snd_wnd and rcv_wnd, in segments
  Prefix,              \* bytes of a code that hold its length: 4
  CodeSizes,           \* lengths of the codes given to SendOneCode
  MaxBytes             \* bound: bytes of all codes sent

ASSUME ChannelAssumption ==
  /\ Capacity \in Nat /\ SndWnd \in Nat \ {0} /\ RcvWnd \in Nat \ {0}
  /\ Prefix \in Nat /\ CodeSizes \subseteq Nat /\ MaxBytes \in Nat

VARIABLES
  sender,              \* [m_send, snd_queue, flight], see Sender
  refused,             \* the code that WriteOneCode refused last, or NoCode
  rcv_queue,           \* payloads for ikcp_recv
  moved,               \* bytes ikcp_recv has moved to m_receive_queue
  taken,               \* bytes GetOneCode has taken out of it
  reading,             \* ReceiveOneCode is in its loop
  connected,           \* the receiver: not UNCONNECT, and over TCP or UDP
  told,                \* the receiver was told to exit
  ends                 \* history: the offsets at which a code ends

receiver == <<rcv_queue, moved, taken, reading, connected, told>>
vars == <<sender, refused, receiver, ends>>

\* A code, as far as WriteOneCode looks at it; its first bytes should hold its
\* length, and prefixed says that they do.
Code == [len : CodeSizes, prefixed : BOOLEAN]

NoCode == [len |-> -1, prefixed |-> TRUE]

\* The sender's m_kcp_status is KCP_CONNECT_EXIT_STATUS.
failed == refused # NoCode

\* m_send: the bytes of m_send_queue.  flight: payloads that have left
\* snd_queue and are not yet in the receiver's rcv_queue.
Sender == [m_send : Payload, snd_queue : Seq(Payload), flight : Seq(Payload)]

Init ==
  /\ sender = [m_send |-> NoData, snd_queue |-> << >>, flight |-> << >>]
  /\ refused = NoCode
  /\ rcv_queue = << >> /\ moved = 0 /\ taken = 0
  /\ reading = FALSE /\ connected = TRUE /\ told = FALSE
  /\ ends = {}

-----------------------------------------------------------------------------
(* The sender *)

\* Mutant of Flushed: ikcp_check_sendque_full is not asked.
FlushedAlways(s) ==
  IF Length(s.m_send) = 0 THEN s
  ELSE [s EXCEPT !.snd_queue = Queued(@, s.m_send[1], s.m_send[2]),
                 !.m_send = <<s.m_send[2], s.m_send[2]>>]

\* Mutant of Flushed: the queue counts as full one payload early.
FlushedEarly(s) ==
  IF Len(s.snd_queue) + 1 >= SndWnd \/ Length(s.m_send) = 0 THEN s
  ELSE [s EXCEPT !.snd_queue = Queued(@, s.m_send[1], s.m_send[2]),
                 !.m_send = <<s.m_send[2], s.m_send[2]>>]

\* FlushSendDataToKcp: all of m_send_queue goes to ikcp_send, unless snd_queue
\* is full.
Flushed(s) ==
  IF Len(s.snd_queue) >= SndWnd \/ Length(s.m_send) = 0 THEN s
  ELSE [s EXCEPT !.snd_queue = Queued(@, s.m_send[1], s.m_send[2]),
                 !.m_send = <<s.m_send[2], s.m_send[2]>>]

\* ikcp_update: it flushes k payloads, as many as the window admits or fewer,
\* for it may not be time to flush, or KcpCanOutput may refuse.
Admitted(s, k) ==
  [s EXCEPT !.flight = @ \o SubSeq(s.snd_queue, 1, k),
            !.snd_queue = SubSeq(@, k + 1, Len(@))]

Admissible(s) == 0 .. Smaller(SndWnd - Len(s.flight), Len(s.snd_queue))

\* Mutant of Updated: Update does not call FlushSendDataToKcp.
UpdatedUnflushed(s) == {Admitted(s, k) : k \in Admissible(s)}

\* What Update may make of the sender.
Updated(s) == {Flushed(Admitted(Flushed(s), k)) : k \in Admissible(Flushed(s))}

\* The code is longer than its length field, which holds its length.
WellFormed(code) == code.len > Prefix /\ code.prefixed

\* WriteOneCode's answer.
Accepts(s, code) == WellFormed(code) /\ code.len <= Capacity - Length(s.m_send)

Written(s, len) == [s EXCEPT !.m_send = <<@[1], @[2] + len>>]

\* A refused code is not written, and ends the session: Update does nothing
\* from then on.
SendOneCode(code) ==
  /\ \/ /\ ~Accepts(Flushed(sender), code)
        /\ sender' = Flushed(sender)
        /\ refused' = code
        /\ UNCHANGED ends
     \/ /\ Accepts(Flushed(sender), code)
        /\ sender.m_send[2] + code.len <= MaxBytes
        /\ ends' = ends \cup {sender.m_send[2] + code.len}
        /\ IF failed THEN sender' = Flushed(Written(Flushed(sender), code.len))
           ELSE sender' \in Updated(Flushed(Written(Flushed(sender), code.len)))
        /\ UNCHANGED refused
  /\ UNCHANGED receiver

SenderUpdate ==
  /\ ~failed
  /\ sender' \in Updated(sender)
  /\ UNCHANGED <<refused, receiver, ends>>

-----------------------------------------------------------------------------
(* The receiver *)

\* Mutant of Fit: the room in m_receive_queue is not looked at.
FitAlways(queue, j) == j <= Len(queue)

\* The first j payloads fit in m_receive_queue.
Fit(queue, j) ==
  j <= Len(queue) /\ \A i \in 1 .. j : queue[i][2] - taken <= Capacity

\* Update: over a connection, of what is in flight arrived payloads come in,
\* and the connection may end behind them, or an order to exit come with them;
\* then ikcp_recv moves whole payloads, as many as fit.
ReceiverUpdate(arrived) ==
  LET queue == rcv_queue \o SubSeq(sender.flight, 1, arrived)
  IN  /\ arrived <= Len(sender.flight)
      /\ arrived = 0 \/ (connected /\ Len(queue) <= RcvWnd)
      /\ connected' \in BOOLEAN /\ told' \in BOOLEAN
      /\ (connected' \/ told') => connected
      /\ sender' = [sender EXCEPT !.flight = SubSeq(@, arrived + 1, Len(@))]
      /\ \E j \in 0 .. Len(queue) :
           /\ Fit(queue, j) /\ ~Fit(queue, j + 1)
           /\ moved' = IF j = 0 THEN moved ELSE queue[j][2]
           /\ rcv_queue' = SubSeq(queue, j + 1, Len(queue))

\* Mutant of Whole: the last byte of m_receive_queue is not counted.
WholeStrictly(e, upto) == taken < e /\ e < upto

\* A code that ends at e is the next and complete.
Whole(e, upto) == taken < e /\ e <= upto

\* GetOneCode: the next code, if it is complete.
GetOneCode(upto) ==
  \/ /\ \E e \in ends : /\ Whole(e, upto)
                        /\ \A d \in ends : taken < d => e <= d
                        /\ taken' = e
  \/ /\ \A e \in ends : ~Whole(e, upto)
     /\ UNCHANGED taken

\* ReceiveOneCode looks into m_receive_queue first and returns what it finds;
\* when it finds nothing, it starts to call Update.  Without a connection it
\* returns 0, and told to exit -1, and changes nothing.
ReceiveOneCode ==
  /\ connected /\ ~told /\ ~reading
  /\ GetOneCode(moved)
  /\ reading' = (taken' = taken)
  /\ UNCHANGED <<sender, refused, rcv_queue, moved, connected, told, ends>>

\* It calls Update while that brings bytes, then looks again, though the
\* connection has ended meanwhile.  After an order to exit the next Update
\* returns -1.
ReceiveLoop(arrived) ==
  /\ reading
  /\ ReceiverUpdate(arrived)
  /\ \/ moved' > moved /\ reading' = ~told' /\ UNCHANGED taken
     \/ moved' = moved /\ reading' = FALSE /\ GetOneCode(moved)
  /\ UNCHANGED <<refused, ends>>

\* SendOneCode at the receiver's end calls Update once, connected or not.
UpdateAlone(arrived) ==
  /\ ~told /\ ~reading
  /\ ReceiverUpdate(arrived)
  /\ UNCHANGED <<refused, reading, taken, ends>>

\* ConnectLogicServer at the receiver's end: kcp and m_receive_queue stay.
ReconnectLogicServer ==
  /\ ~connected /\ ~reading
  /\ connected' = TRUE
  /\ UNCHANGED <<sender, refused, rcv_queue, moved, taken, reading, told, ends>>

Next ==
  \/ \E code \in Code : SendOneCode(code)
  \/ SenderUpdate
  \/ ReceiveOneCode
  \/ \E arrived \in 0 .. RcvWnd : ReceiveLoop(arrived) \/ UpdateAlone(arrived)
  \/ ReconnectLogicServer

Spec == Init /\ [][Next]_vars

\* Each application calls ReceiveOneCode for ever: at the one end it updates
\* the sender, at the other it takes the codes, and reconnects first when the
\* connection has ended.  What a window admits is flushed in the end, and what
\* is in flight arrives (the liveness of Kcp).
Fairness ==
  /\ WF_vars(SenderUpdate /\ sender'.flight # sender.flight)
  /\ WF_vars(ReconnectLogicServer)
  /\ SF_vars(ReceiveOneCode)
  /\ WF_vars(ReceiveLoop(0))
  /\ SF_vars(\E arrived \in 1 .. RcvWnd : ReceiveLoop(arrived))

FairSpec == Spec /\ Fairness

-----------------------------------------------------------------------------
(* Properties *)

\* Type invariant; neither of the two queues holds more than it can.
TypeOK ==
  /\ sender \in Sender
  /\ Length(sender.m_send) \in 0 .. Capacity
  /\ Len(sender.flight) \in 0 .. SndWnd
  /\ rcv_queue \in Seq(Payload)
  /\ taken \in Nat /\ moved \in Nat /\ moved - taken \in 0 .. Capacity
  /\ refused \in Code \cup {NoCode}
  /\ reading \in BOOLEAN /\ connected \in BOOLEAN /\ told \in BOOLEAN
  /\ ends \subseteq Nat

\* The bytes a queue of payloads stretches to, if it starts at lo.
Upto(queue, lo) == IF queue = << >> THEN lo ELSE queue[Len(queue)][2]

Arrived == Upto(rcv_queue, moved)
Flown   == Upto(sender.flight, Arrived)

\* The queues between the two ends hold one stretch of the stream after the
\* other: no byte is lost, repeated or overtaken between any two of them.
OneStream ==
  /\ taken \in ends \cup {0}
  /\ Spans(rcv_queue, moved, Arrived)
  /\ Spans(sender.flight, Arrived, Flown)
  /\ Spans(sender.snd_queue, Flown, sender.m_send[1])

\* Stream mode pays: every payload of snd_queue but the last is full.
SegmentsPacked ==
  \A i \in DOMAIN sender.snd_queue :
    /\ Length(sender.snd_queue[i]) <= Mss
    /\ i < Len(sender.snd_queue) => Length(sender.snd_queue[i]) = Mss

\* snd_queue does not grow with what the application sends: a full one takes
\* no more, and one that is not full at most one m_send_queue.
SendQueueBounded ==
  Len(sender.snd_queue) <= SndWnd - 1 + (Capacity + Mss - 1) \div Mss

\* Action property: SendOneCode refuses a code, and so ends the session, only
\* if the code is malformed or larger than m_send_queue, or under back pressure:
\* snd_wnd segments wait in snd_queue and m_send_queue has no room for it.
\* Never because of how earlier codes were cut up.
ExitsUnderPressure ==
  [][refused' # refused => \/ ~WellFormed(refused') \/ refused'.len > Capacity
                           \/ /\ Len(sender'.snd_queue) >= SndWnd
                              /\ sender'.m_send[2] - Flown' > (SndWnd - 1) * Mss]_vars

\* Action property: a ReceiveOneCode that got past its guards returns 0 only if
\* no whole code has arrived, in m_receive_queue or in rcv_queue behind it,
\* though the connection ended or an order to exit came while it looked.
ZeroMeansNone ==
  [][reading /\ ~reading' /\ moved' = moved /\ taken' = taken
       => \A e \in ends : e <= taken \/ e > Arrived']_vars

\* Liveness: everything accepted is returned in the end, codes that came with
\* the end of a connection too, unless an end exits.  (The bound MaxBytes ends
\* the sending.)
AllReceived == <>[](taken = sender.m_send[2] \/ failed \/ told)
=============================================================================
