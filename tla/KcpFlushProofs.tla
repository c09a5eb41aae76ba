---------------------------- MODULE KcpFlushProofs ---------------------------
(***************************************************************************)
(* Proofs about KcpFlush, for every capacity of the queue, every datagram  *)
(* size and any number of segments and acknowledgements.                   *)
(*                                                                         *)
(* The inductive invariant says, besides the properties, that the queue    *)
(* has room for the buffer whenever the buffer is not empty, and at which  *)
(* steps of the flush the buffer can hold what: an answer to a probe and   *)
(* segments only after the last step that can abandon it.                  *)
(***************************************************************************)
EXTENDS KcpFlush, TLAPS

USE FlushAssumption

\* The queue has room for the buffer.
RoomPromised == size = 0 \/ size < Capacity - used

\* Acknowledgements are encoded in the order they were asked for, and the
\* list is empty once they all are.
Ascending ==
  /\ \A i, j \in DOMAIN acklist : i < j => acklist[i] < acklist[j]
  /\ \A i \in DOMAIN acklist : acklist[i] <= given
  /\ step # "acks" => encoded = 0

Filled ==
  /\ step = "idle" => size = 0
  /\ size = 0 => held = Nothing
  /\ step \notin {"data", "rest"} => held.segs = {}
  /\ step \in {"acks", "WASK", "WINS"} => "WINS" \notin held.probes
  /\ step = "data" => \A g \in held.segs : g < at

IInv ==
  /\ TypeOK /\ NeverExits /\ OneDatagram /\ AcksAccounted /\ XmitTrue /\ AnswerKept
  /\ RoomPromised /\ Ascending /\ Filled

\* What Fits does to the queue and the buffer: either the buffer goes into the
\* queue and the segment starts a new one, or the segment joins it.
PutOut(what) ==
  /\ held' = what
  /\ put' = put \cup held.acks
  /\ times' = [g \in Numbers |-> times[g] + (IF g \in held.segs THEN 1 ELSE 0)]
  /\ owed' = (owed /\ "WINS" \notin held.probes)

Joined(what) ==
  /\ held' = With(what)
  /\ put' = put /\ times' = times /\ owed' = owed

LEMMA WithFacts ==
  ASSUME TypeOK, NEW what \in Contents
  PROVE  /\ With(what) \in Contents
         /\ With(what).acks = held.acks \cup what.acks
         /\ With(what).probes = held.probes \cup what.probes
         /\ With(what).segs = held.segs \cup what.segs
BY DEF TypeOK, Contents, With

LEMMA ClearedFacts ==
  ASSUME TypeOK, NEW len \in Nat, NEW left \in Cleared(len)
  PROVE  left \in 0 .. Capacity /\ left <= used
BY DEF TypeOK, Cleared

LEMMA FitsFacts ==
  ASSUME IInv, NEW need \in Nat \ {0}, need <= Mtu, NEW what \in Contents,
         NEW left \in Cleared(need + size), Fits(need, what, left)
  PROVE  /\ NeverExits' /\ exited' \in BOOLEAN
         /\ used' \in 0 .. Capacity /\ size' \in Nat \ {0}
         /\ size' <= Mtu /\ size' < Capacity - used'
         /\ PutOut(what) \/ Joined(what)
<1>1. need + size \in Nat /\ left \in 0 .. Capacity /\ left <= used
      /\ need + size < Capacity - left
  BY ClearedFacts DEF IInv, TypeOK, Fits, Room, HasRoom
<1>2. CASE size + need > Mtu /\ Output(left) /\ size' = need /\ held' = what
  <2>1. ~(size > Capacity - left)
    BY <1>1 DEF IInv, TypeOK
  <2>2. /\ used' \in 0 .. left + size /\ exited' = exited
        /\ PutOut(what)
    BY <1>2, <2>1 DEF Output, PutOut
  <2>3. NeverExits' /\ exited' \in BOOLEAN
    BY <2>2 DEF IInv, TypeOK, NeverExits
  <2>4. used' \in 0 .. Capacity /\ size' \in Nat \ {0} /\ size' < Capacity - used'
    <3>1. PICK n \in Nat : size = n
      BY <1>1 DEF IInv, TypeOK
    <3>2. PICK u \in 0 .. left + n : used' = u
      BY <2>2, <3>1
    <3>3. u \in 0 .. Capacity /\ need < Capacity - u
      BY <1>1, <2>1, <3>1
    <3> QED  BY <1>2, <3>2, <3>3
  <2> QED  BY <1>2, <2>2, <2>3, <2>4
<1>3. CASE /\ size + need <= Mtu /\ size' = size + need /\ held' = With(what)
           /\ used' = left /\ UNCHANGED <<put, owed, times, exited>>
  <2>1. NeverExits' /\ exited' \in BOOLEAN /\ Joined(what)
    BY <1>3 DEF IInv, TypeOK, NeverExits, Joined
  <2>2. used' \in 0 .. Capacity /\ size' \in Nat \ {0} /\ size' < Capacity - used'
    BY <1>1, <1>3 DEF IInv, TypeOK
  <2> QED  BY <1>3, <2>1, <2>2
<1> QED  BY <1>2, <1>3 DEF Fits, Encode

\* The conjuncts about the buffer and the queue, after something fitted.
LEMMA FitsKeeps ==
  ASSUME IInv, NEW need \in Nat \ {0}, need <= Mtu, NEW what \in Contents,
         NEW left \in Cleared(need + size), Fits(need, what, left)
  PROVE  /\ NeverExits' /\ OneDatagram' /\ RoomPromised'
         /\ used' \in 0 .. Capacity /\ size' \in Nat \ {0} /\ exited' \in BOOLEAN
         /\ owed' \in BOOLEAN /\ put' \subseteq Nat
         /\ times' \in [Numbers -> Nat] /\ held' \in Contents
         /\ held'.acks \cup put' = held.acks \cup put \cup what.acks
         /\ held'.acks \cap put' \subseteq (held.acks \cap put) \cup (what.acks \cap (held.acks \cup put))
         /\ held'.segs \subseteq held.segs \cup what.segs
         /\ held'.probes \subseteq held.probes \cup what.probes
         /\ what.probes \subseteq held'.probes
         /\ owed' => owed /\ (held.probes \subseteq held'.probes \/ "WINS" \notin held.probes)
<1>1. PutOut(what) \/ Joined(what)
  BY FitsFacts
<1>2. NeverExits' /\ OneDatagram' /\ RoomPromised'
      /\ used' \in 0 .. Capacity /\ size' \in Nat \ {0} /\ exited' \in BOOLEAN
  BY FitsFacts DEF NeverExits, OneDatagram, RoomPromised
<1>3. held.acks \in SUBSET Nat /\ held.segs \in SUBSET Numbers
      /\ owed \in BOOLEAN /\ put \subseteq Nat /\ times \in [Numbers -> Nat]
  BY DEF IInv, TypeOK, Contents
<1>4. CASE PutOut(what)
  <2>1. times' \in [Numbers -> Nat]
    BY <1>3, <1>4 DEF PutOut
  <2>2. owed' \in BOOLEAN
    BY <1>4 DEF PutOut
  <2> QED  BY <1>2, <1>3, <1>4, <2>1, <2>2 DEF PutOut
<1>5. CASE Joined(what)
  <2>1. /\ held' \in Contents
        /\ held'.acks = held.acks \cup what.acks
        /\ held'.probes = held.probes \cup what.probes
        /\ held'.segs = held.segs \cup what.segs
    BY <1>5, WithFacts DEF IInv, Joined
  <2> QED  BY <1>2, <1>3, <1>5, <2>1 DEF Joined
<1> QED  BY <1>1, <1>4, <1>5

\* A segment that fitted is counted where the transmissions are.
LEMMA FitsCounts ==
  ASSUME IInv, NEW need \in Nat \ {0}, need <= Mtu, NEW what \in Contents,
         NEW left \in Cleared(need + size), Fits(need, what, left),
         what.segs \cap held.segs = {}
  PROVE  \A g \in Numbers :
           times'[g] + (IF g \in held'.segs THEN 1 ELSE 0)
             = xmit[g] + (IF g \in what.segs THEN 1 ELSE 0)
<1>1. PutOut(what) \/ Joined(what)
  BY FitsFacts
<1>2. /\ times \in [Numbers -> Nat] /\ xmit \in [Numbers -> Nat]
      /\ \A g \in Numbers : xmit[g] = times[g] + (IF g \in held.segs THEN 1 ELSE 0)
  BY DEF IInv, TypeOK, XmitTrue
<1> TAKE g \in Numbers
<1>3. CASE PutOut(what)
  <2>1. times'[g] = times[g] + (IF g \in held.segs THEN 1 ELSE 0) /\ held'.segs = what.segs
    BY <1>3 DEF PutOut
  <2> QED  BY <1>2, <2>1
<1>4. CASE Joined(what)
  <2>1. times'[g] = times[g] /\ held'.segs = held.segs \cup what.segs
    BY <1>4, WithFacts DEF IInv, Joined
  <2> QED  BY <1>2, <2>1
<1> QED  BY <1>1, <1>3, <1>4

\* An abandoned buffer holds acknowledgements and at most the probe.
LEMMA AbandonKeeps ==
  ASSUME IInv, step \in {"acks", "WASK", "WINS"},
         NEW len \in Nat, NEW left \in Cleared(len), Abandon(left)
  PROVE  /\ NeverExits' /\ OneDatagram' /\ RoomPromised' /\ Filled'
         /\ used' \in 0 .. Capacity /\ size' \in Nat /\ exited' \in BOOLEAN
         /\ owed' = owed /\ put' = put /\ times' = times /\ held' = Nothing
         /\ lost' = lost \cup held.acks /\ lost' \subseteq Nat
         /\ held.segs = {} /\ "WINS" \notin held.probes
         /\ step' = "idle" /\ Nothing \in Contents
<1>1. left \in 0 .. Capacity
  BY ClearedFacts DEF IInv
<1>2. held.acks \subseteq Nat /\ lost \subseteq Nat
  BY DEF IInv, TypeOK, Contents
<1>3. Nothing \in Contents /\ Nothing.segs = {} /\ Nothing.probes = {}
  BY DEF Nothing, Contents
<1>4. /\ step' = "idle" /\ size' = 0 /\ held' = Nothing /\ lost' = lost \cup held.acks
      /\ used' = left /\ UNCHANGED <<put, owed, times, exited>>
  BY DEF Abandon
<1>5. NeverExits' /\ exited' \in BOOLEAN
  BY <1>4 DEF IInv, TypeOK, NeverExits
<1>6. OneDatagram' /\ RoomPromised' /\ Filled'
  BY <1>3, <1>4 DEF OneDatagram, RoomPromised, Filled
<1>7. held.segs = {} /\ "WINS" \notin held.probes
  BY DEF IInv, Filled
<1> QED  BY <1>1, <1>2, <1>3, <1>4, <1>5, <1>6, <1>7

LEMMA InitInv == Init => IInv
<1> SUFFICES ASSUME Init PROVE IInv
  OBVIOUS
<1>1. Nothing \in Contents /\ Nothing.acks = {} /\ Nothing.segs = {} /\ Nothing.probes = {}
  BY DEF Nothing, Contents
<1>20. /\ exited \in BOOLEAN /\ owed \in BOOLEAN /\ NeverExits
  BY DEF Init, NeverExits
<1>21. /\ xmit \in [Numbers -> Nat] /\ times \in [Numbers -> Nat]
       /\ acklist \in Seq(Nat) /\ encoded \in 0 .. Len(acklist)
  BY DEF Init
<1>2. TypeOK /\ NeverExits
  BY <1>1, <1>20, <1>21 DEF Init, TypeOK
<1>3. OneDatagram /\ XmitTrue /\ AnswerKept /\ RoomPromised /\ Ascending /\ Filled
  BY <1>1 DEF Init, OneDatagram, XmitTrue, AnswerKept, RoomPromised, Ascending, Filled
<1>4. Waiting = {}
  BY DEF Init, Waiting
<1>5. AcksAccounted
  BY <1>1, <1>4 DEF Init, AcksAccounted
<1> QED  BY <1>2, <1>3, <1>5 DEF IInv

-----------------------------------------------------------------------------
(* Each step keeps the invariant *)

LEMMA StartFlushInv == IInv /\ StartFlush => IInv'
BY DEF StartFlush, out, data, IInv, TypeOK, NeverExits, OneDatagram, AcksAccounted, Waiting,
       XmitTrue, AnswerKept, RoomPromised, Ascending, Filled, Nothing

LEMMA FlushAckInv == IInv /\ FlushAck => IInv'
<1> SUFFICES ASSUME IInv, FlushAck PROVE IInv'
  OBVIOUS
<1> DEFINE ack == acklist[encoded + 1]
           what == [Nothing EXCEPT !.acks = {ack}]
<1>1. /\ step = "acks" /\ encoded < Len(acklist)
      /\ UNCHANGED <<given, probe, snd_buf, snd_nxt, due, at, xmit>>
  BY DEF FlushAck, data
<1>2. /\ acklist \in Seq(Nat) /\ encoded \in 0 .. Len(acklist) /\ size \in Nat
      /\ encoded + 1 \in DOMAIN acklist /\ ack \in Nat
  BY <1>1 DEF IInv, TypeOK
<1>3. /\ what \in Contents /\ what.acks = {ack} /\ what.segs = {} /\ what.probes = {}
  BY <1>2 DEF Nothing, Contents
<1>4. ack \in Waiting
  BY <1>1, <1>2 DEF Waiting
<1>5. ASSUME NEW left \in Cleared(Overhead + size), Fits(Overhead, what, left),
             encoded' = encoded + 1, UNCHANGED <<step, acklist, lost>>
      PROVE  IInv'
  <2> HIDE DEF what
  <2>1. /\ NeverExits' /\ OneDatagram' /\ RoomPromised'
        /\ used' \in 0 .. Capacity /\ size' \in Nat \ {0} /\ exited' \in BOOLEAN
        /\ owed' \in BOOLEAN /\ put' \subseteq Nat
        /\ times' \in [Numbers -> Nat] /\ held' \in Contents
    BY <1>3, <1>5, FitsKeeps
  <2>2. /\ held'.acks \cup put' = held.acks \cup put \cup {ack}
        /\ held'.acks \cap put' \subseteq (held.acks \cap put) \cup ({ack} \cap (held.acks \cup put))
        /\ held'.segs \subseteq held.segs
        /\ held'.probes \subseteq held.probes
        /\ owed' => owed /\ (held.probes \subseteq held'.probes \/ "WINS" \notin held.probes)
    BY <1>3, <1>5, FitsKeeps
  <2>3. TypeOK'
    BY <1>1, <1>2, <1>5, <2>1 DEF IInv, TypeOK
  <2>4. Waiting' = Waiting \ {ack}
    <3>1. Waiting' = {acklist[i] : i \in encoded + 2 .. Len(acklist)}
      BY <1>2, <1>5 DEF Waiting
    <3>2. \A i \in encoded + 2 .. Len(acklist) : acklist[i] # ack
      BY <1>2 DEF IInv, Ascending
    <3>3. Waiting = {acklist[i] : i \in encoded + 2 .. Len(acklist)} \cup {ack}
      <4>1. \A i : i \in encoded + 1 .. Len(acklist)
                    <=> i = encoded + 1 \/ i \in encoded + 2 .. Len(acklist)
        BY <1>1, <1>2
      <4> QED  BY <4>1 DEF Waiting
    <3>4. ack \notin {acklist[i] : i \in encoded + 2 .. Len(acklist)}
      BY <3>2
    <3> QED  BY <3>1, <3>3, <3>4
  <2>5. AcksAccounted'
    BY <1>1, <1>4, <1>5, <2>2, <2>4 DEF IInv, AcksAccounted
  <2>6. XmitTrue'
    <3>1. \A g \in Numbers : times'[g] + (IF g \in held'.segs THEN 1 ELSE 0) = xmit[g] + 0
      BY <1>3, <1>5, FitsCounts
    <3> QED  BY <1>1, <2>3, <3>1 DEF XmitTrue, IInv, TypeOK
  <2>7. AnswerKept'
    BY <1>1, <2>2 DEF IInv, AnswerKept
  <2>8. Ascending' /\ Filled'
    BY <1>1, <1>5, <2>1, <2>2 DEF IInv, Ascending, Filled
  <2> QED  BY <2>1, <2>3, <2>5, <2>6, <2>7, <2>8 DEF IInv
<1>6. ASSUME NEW left \in Cleared(Overhead + size), Abandon(left),
             acklist' = AckMove(encoded), encoded' = 0
      PROVE  IInv'
  <2> DEFINE n == Len(acklist) - encoded
  <2>1. /\ NeverExits' /\ OneDatagram' /\ RoomPromised' /\ Filled'
        /\ used' \in 0 .. Capacity /\ size' \in Nat /\ exited' \in BOOLEAN
        /\ owed' = owed /\ put' = put /\ times' = times /\ held' = Nothing
        /\ lost' = lost \cup held.acks /\ lost' \subseteq Nat
        /\ held.segs = {} /\ "WINS" \notin held.probes
        /\ step' = "idle" /\ Nothing \in Contents
    BY <1>1, <1>2, <1>6, AbandonKeeps
  <2>2. /\ acklist' \in Seq(Nat) /\ Len(acklist') = n /\ n \in Nat
        /\ \A i \in 1 .. n : acklist'[i] = acklist[encoded + i]
    BY <1>2, <1>6 DEF AckMove
  <2>3. TypeOK'
    BY <1>1, <1>6, <2>1, <2>2 DEF IInv, TypeOK
  <2>4. Waiting' = Waiting
    <3>1. Waiting' = {acklist'[i] : i \in 1 .. n}
      BY <1>6, <2>2 DEF Waiting
    <3>2. \A x : x \in Waiting => x \in Waiting'
      <4> SUFFICES ASSUME NEW i \in encoded + 1 .. Len(acklist) PROVE acklist[i] \in Waiting'
        BY DEF Waiting
      <4>1. i - encoded \in 1 .. n /\ encoded + (i - encoded) = i
        BY <1>2
      <4> QED  BY <2>2, <3>1, <4>1
    <3>3. \A x : x \in Waiting' => x \in Waiting
      <4> SUFFICES ASSUME NEW i \in 1 .. n PROVE acklist'[i] \in Waiting
        BY <3>1
      <4>1. encoded + i \in encoded + 1 .. Len(acklist)
        BY <1>2
      <4> QED  BY <2>2, <4>1 DEF Waiting
    <3> QED  BY <3>2, <3>3
  <2>5. AcksAccounted'
    BY <1>1, <2>1, <2>4 DEF IInv, AcksAccounted, Nothing
  <2>6. XmitTrue' /\ AnswerKept'
    BY <1>1, <2>1 DEF IInv, XmitTrue, AnswerKept, Nothing
  <2>7. Ascending'
    <3>1. DOMAIN acklist' = 1 .. n /\ \A i \in 1 .. n : encoded + i \in DOMAIN acklist
      BY <1>2, <2>2
    <3>2. \A i, j \in 1 .. n : i < j => acklist[encoded + i] < acklist[encoded + j]
      <4> TAKE i, j \in 1 .. n
      <4>1. i < j => encoded + i < encoded + j
        BY <1>2
      <4> QED  BY <3>1, <4>1 DEF IInv, Ascending
    <3>3. \A i \in 1 .. n : acklist[encoded + i] <= given
      BY <3>1 DEF IInv, Ascending
    <3>4. given' = given
      BY <1>1
    <3> HIDE DEF n
    <3> QED  BY <1>6, <2>2, <3>1, <3>2, <3>3, <3>4 DEF Ascending
  <2> QED  BY <2>1, <2>3, <2>5, <2>6, <2>7 DEF IInv
<1> QED  BY <1>5, <1>6 DEF FlushAck

LEMMA AcksFlushedInv == IInv /\ AcksFlushed => IInv'
<1> SUFFICES ASSUME IInv, AcksFlushed PROVE IInv'
  OBVIOUS
<1>1. /\ step = "acks" /\ encoded = Len(acklist) /\ step' = "WASK"
      /\ acklist' = << >> /\ encoded' = 0
      /\ probe' \in {probe, probe \cup {"WASK"}}
      /\ UNCHANGED <<out, given, lost, data>>
  BY DEF AcksFlushed
<1>2. TypeOK' /\ NeverExits' /\ OneDatagram' /\ XmitTrue' /\ RoomPromised'
  BY <1>1 DEF IInv, out, data, TypeOK, NeverExits, OneDatagram, XmitTrue, RoomPromised
<1>3. Waiting = {} /\ Waiting' = {}
  BY <1>1 DEF Waiting, IInv, TypeOK
<1>4. AcksAccounted'
  BY <1>1, <1>3 DEF IInv, AcksAccounted, out
<1>5. AnswerKept' /\ Ascending' /\ Filled'
  BY <1>1 DEF IInv, out, AnswerKept, Ascending, Filled
<1> QED  BY <1>2, <1>4, <1>5 DEF IInv

LEMMA FlushProbeInv ==
  ASSUME IInv, NEW cmd \in {"WASK", "WINS"}, FlushProbe(cmd)
  PROVE  IInv'
<1> DEFINE what == [Nothing EXCEPT !.probes = {cmd}]
<1>1. /\ step = cmd /\ cmd \in probe
      /\ UNCHANGED <<acklist, encoded, given, snd_buf, snd_nxt, due, at, xmit>>
  BY DEF FlushProbe, data
<1>2. /\ what \in Contents /\ what.acks = {} /\ what.segs = {} /\ what.probes = {cmd}
      /\ size \in Nat
  BY DEF Nothing, Contents, IInv, TypeOK
<1>3. Waiting' = Waiting
  BY <1>1 DEF Waiting
<1>4. ASSUME NEW left \in Cleared(Overhead + size), Fits(Overhead, what, left),
             step' = IF cmd = "WASK" THEN "WINS" ELSE "window",
             probe' = probe \ {cmd}, UNCHANGED lost
      PROVE  IInv'
  <2> HIDE DEF what
  <2>1. /\ NeverExits' /\ OneDatagram' /\ RoomPromised'
        /\ used' \in 0 .. Capacity /\ size' \in Nat \ {0} /\ exited' \in BOOLEAN
        /\ owed' \in BOOLEAN /\ put' \subseteq Nat
        /\ times' \in [Numbers -> Nat] /\ held' \in Contents
    BY <1>2, <1>4, FitsKeeps
  <2>2. /\ held'.acks \cup put' = held.acks \cup put
        /\ held'.acks \cap put' \subseteq held.acks \cap put
        /\ held'.segs \subseteq held.segs
        /\ held'.probes \subseteq held.probes \cup {cmd}
        /\ cmd \in held'.probes
        /\ owed' => owed /\ (held.probes \subseteq held'.probes \/ "WINS" \notin held.probes)
    BY <1>2, <1>4, FitsKeeps
  <2>3. TypeOK'
    BY <1>1, <1>4, <2>1 DEF IInv, TypeOK
  <2>4. AcksAccounted'
    BY <1>1, <1>3, <1>4, <2>2 DEF IInv, AcksAccounted
  <2>5. XmitTrue'
    <3>1. \A g \in Numbers : times'[g] + (IF g \in held'.segs THEN 1 ELSE 0) = xmit[g] + 0
      BY <1>2, <1>4, FitsCounts
    <3> QED  BY <1>1, <2>3, <3>1 DEF XmitTrue, IInv, TypeOK
  <2>6. AnswerKept' /\ Ascending' /\ Filled'
    BY <1>1, <1>4, <2>1, <2>2 DEF IInv, AnswerKept, Ascending, Filled
  <2> QED  BY <2>1, <2>3, <2>4, <2>5, <2>6 DEF IInv
<1>5. ASSUME NEW left \in Cleared(Overhead + size), Abandon(left), UNCHANGED probe
      PROVE  IInv'
  <2>1. /\ NeverExits' /\ OneDatagram' /\ RoomPromised' /\ Filled'
        /\ used' \in 0 .. Capacity /\ size' \in Nat /\ exited' \in BOOLEAN
        /\ owed' = owed /\ put' = put /\ times' = times /\ held' = Nothing
        /\ lost' = lost \cup held.acks /\ lost' \subseteq Nat
        /\ held.segs = {} /\ "WINS" \notin held.probes
        /\ step' = "idle" /\ Nothing \in Contents
    BY <1>1, <1>2, <1>5, AbandonKeeps
  <2>2. TypeOK'
    BY <1>1, <1>5, <2>1 DEF IInv, TypeOK
  <2>3. AcksAccounted'
    BY <1>1, <1>3, <2>1 DEF IInv, AcksAccounted, Nothing
  <2>4. XmitTrue' /\ AnswerKept' /\ Ascending'
    BY <1>1, <1>5, <2>1 DEF IInv, XmitTrue, AnswerKept, Ascending, Nothing
  <2> QED  BY <2>1, <2>2, <2>3, <2>4 DEF IInv
<1> QED  BY <1>4, <1>5 DEF FlushProbe

LEMMA NoProbeInv ==
  ASSUME IInv, NEW cmd \in {"WASK", "WINS"}, NoProbe(cmd)
  PROVE  IInv'
<1>1. Waiting' = Waiting
  BY DEF NoProbe, acks, Waiting
<1>2. TypeOK' /\ NeverExits' /\ OneDatagram' /\ XmitTrue' /\ RoomPromised'
  BY DEF IInv, NoProbe, out, acks, data, TypeOK, NeverExits, OneDatagram, XmitTrue,
         RoomPromised
<1>3. AcksAccounted'
  BY <1>1 DEF IInv, NoProbe, out, acks, AcksAccounted
<1>4. AnswerKept' /\ Ascending' /\ Filled'
  BY DEF IInv, NoProbe, out, acks, data, AnswerKept, Ascending, Filled
<1> QED  BY <1>2, <1>3, <1>4 DEF IInv

LEMMA FlushWindowInv == IInv /\ FlushWindow => IInv'
<1> SUFFICES ASSUME IInv, FlushWindow PROVE IInv'
  OBVIOUS
<1>1. PICK k \in snd_nxt .. Segs + 1 :
        snd_nxt' = k /\ snd_buf' = snd_buf \cup snd_nxt .. k - 1
  BY DEF FlushWindow, StartData
<1>2. /\ step = "window" /\ step' = "data" /\ at' = 1 /\ due' \subseteq snd_buf
      /\ UNCHANGED <<out, acks, probe, xmit>>
  BY DEF FlushWindow, StartData
<1>3. TypeOK'
  BY <1>1, <1>2 DEF IInv, TypeOK, out, acks, Numbers
<1>4. Waiting' = Waiting
  BY <1>2 DEF acks, Waiting
<1>5. NeverExits' /\ OneDatagram' /\ XmitTrue' /\ RoomPromised' /\ AcksAccounted'
  BY <1>2, <1>4 DEF IInv, out, acks, NeverExits, OneDatagram, XmitTrue, RoomPromised,
                    AcksAccounted
<1>6. AnswerKept' /\ Ascending' /\ Filled'
  BY <1>2 DEF IInv, out, acks, AnswerKept, Ascending, Filled
<1> QED  BY <1>3, <1>5, <1>6 DEF IInv

LEMMA FlushSegmentInv == IInv /\ FlushSegment => IInv'
<1> SUFFICES ASSUME IInv, FlushSegment PROVE IInv'
  OBVIOUS
<1> DEFINE what == [Nothing EXCEPT !.segs = {at}]
           need == Overhead + Size[at]
<1>1. /\ step = "data" /\ at <= Segs
      /\ UNCHANGED <<acklist, encoded, given, lost, probe, snd_buf, snd_nxt, due>>
  BY DEF FlushSegment, acks
<1>2. /\ at \in Numbers /\ need \in Nat \ {0} /\ need <= Mtu /\ size \in Nat
  BY <1>1 DEF IInv, TypeOK, Numbers
<1>3. /\ what \in Contents /\ what.acks = {} /\ what.segs = {at} /\ what.probes = {}
  BY <1>2 DEF Nothing, Contents
<1>4. Waiting' = Waiting
  BY <1>1 DEF Waiting
<1>5. ASSUME NEW left \in Cleared(need + size), Fits(need, what, left),
             xmit' = [xmit EXCEPT ![at] = @ + 1], at' = at + 1, UNCHANGED step
      PROVE  IInv'
  <2> HIDE DEF what, need
  <2>1. /\ NeverExits' /\ OneDatagram' /\ RoomPromised'
        /\ used' \in 0 .. Capacity /\ size' \in Nat \ {0} /\ exited' \in BOOLEAN
        /\ owed' \in BOOLEAN /\ put' \subseteq Nat
        /\ times' \in [Numbers -> Nat] /\ held' \in Contents
    BY <1>2, <1>3, <1>5, FitsKeeps
  <2>2. /\ held'.acks \cup put' = held.acks \cup put
        /\ held'.acks \cap put' \subseteq held.acks \cap put
        /\ held'.segs \subseteq held.segs \cup {at}
        /\ owed' => owed /\ (held.probes \subseteq held'.probes \/ "WINS" \notin held.probes)
    BY <1>2, <1>3, <1>5, FitsKeeps
  <2>30. xmit' \in [Numbers -> Nat] /\ at' \in 1 .. Segs + 1
    <3>1. xmit \in [Numbers -> Nat]
      BY DEF IInv, TypeOK
    <3>2. at' \in 1 .. Segs + 1
      BY <1>2, <1>5 DEF Numbers
    <3> QED  BY <1>2, <1>5, <3>1, <3>2
  <2>3. TypeOK'
    BY <1>1, <1>5, <2>1, <2>30 DEF IInv, TypeOK
  <2>4. AcksAccounted'
    BY <1>1, <1>4, <1>5, <2>2 DEF IInv, AcksAccounted
  <2>5. XmitTrue'
    <3>1. what.segs \cap held.segs = {}
      BY <1>1, <1>2, <1>3 DEF IInv, Filled, Numbers
    <3>2. \A g \in Numbers : times'[g] + (IF g \in held'.segs THEN 1 ELSE 0)
                               = xmit[g] + (IF g \in {at} THEN 1 ELSE 0)
      BY <1>2, <1>3, <1>5, <3>1, FitsCounts
    <3>3. \A g \in Numbers : xmit'[g] = xmit[g] + (IF g \in {at} THEN 1 ELSE 0)
      <4>1. xmit \in [Numbers -> Nat]
        BY DEF IInv, TypeOK
      <4>2. ASSUME NEW g \in Numbers
            PROVE  xmit'[g] = IF g = at THEN xmit[g] + 1 ELSE xmit[g]
        BY <1>5, <4>1
      <4>3. ASSUME NEW g \in Numbers PROVE xmit[g] \in Nat
        BY <4>1
      <4> QED  BY <4>2, <4>3
    <3> QED  BY <3>2, <3>3 DEF XmitTrue
  <2>6. AnswerKept' /\ Ascending'
    BY <1>1, <1>5, <2>2 DEF IInv, AnswerKept, Ascending
  <2>7. Filled'
    <3>1. \A g \in held.segs : g \in Nat /\ g < at
      BY <1>1 DEF IInv, Filled, TypeOK, Numbers, Contents
    <3>2. \A g \in held'.segs : g < at'
      <4>1. at \in Nat /\ at' = at + 1
        BY <1>2, <1>5 DEF Numbers
      <4> QED  BY <2>2, <3>1, <4>1
    <3> QED  BY <1>1, <1>5, <2>1, <3>2 DEF Filled
  <2> QED  BY <2>1, <2>3, <2>4, <2>5, <2>6, <2>7 DEF IInv
<1>6. ASSUME NEW left \in Cleared(need + size), step' = "rest", used' = left,
             UNCHANGED <<at, xmit, size, held, put, owed, times, exited>>
      PROVE  IInv'
  <2> HIDE DEF need
  <2>1. need + size \in Nat
    BY <1>2
  <2>2. left \in 0 .. Capacity /\ left <= used
    BY <2>1, ClearedFacts DEF IInv
  <2>3. TypeOK'
    BY <1>1, <1>6, <2>2 DEF IInv, TypeOK
  <2>4. RoomPromised'
    BY <1>2, <1>6, <2>2 DEF IInv, TypeOK, RoomPromised
  <2>5. NeverExits' /\ OneDatagram' /\ AcksAccounted' /\ XmitTrue' /\ AnswerKept'
    BY <1>1, <1>4, <1>6 DEF IInv, NeverExits, OneDatagram, AcksAccounted, XmitTrue, AnswerKept
  <2>6. Ascending' /\ Filled'
    BY <1>1, <1>6 DEF IInv, Ascending, Filled
  <2> QED  BY <2>3, <2>4, <2>5, <2>6 DEF IInv
<1>7. \E left \in Cleared(need + size) :
        \/ /\ Fits(need, what, left)
           /\ xmit' = [xmit EXCEPT ![at] = @ + 1]
           /\ at' = at + 1 /\ UNCHANGED step
        \/ /\ step' = "rest" /\ used' = left
           /\ UNCHANGED <<at, xmit, size, held, put, owed, times, exited>>
  BY DEF FlushSegment
<1> QED  BY <1>5, <1>6, <1>7

LEMMA SkipSegmentInv == IInv /\ SkipSegment => IInv'
<1> SUFFICES ASSUME IInv, SkipSegment PROVE IInv'
  OBVIOUS
<1>1. /\ step = "data" /\ at <= Segs /\ at' = at + 1
      /\ UNCHANGED <<step, out, acks, probe, snd_buf, snd_nxt, due, xmit>>
  BY DEF SkipSegment
<1>2. Waiting' = Waiting
  BY <1>1 DEF acks, Waiting
<1>3. TypeOK' /\ NeverExits' /\ OneDatagram' /\ XmitTrue' /\ RoomPromised'
  BY <1>1 DEF IInv, out, acks, TypeOK, NeverExits, OneDatagram, XmitTrue, RoomPromised
<1>4. AcksAccounted' /\ AnswerKept' /\ Ascending'
  BY <1>1, <1>2 DEF IInv, out, acks, AcksAccounted, AnswerKept, Ascending
<1>5. Filled'
  BY <1>1 DEF IInv, out, Filled, TypeOK, Numbers, Contents
<1> QED  BY <1>3, <1>4, <1>5 DEF IInv

LEMMA FlushRestInv == IInv /\ FlushRest => IInv'
<1> SUFFICES ASSUME IInv, FlushRest PROVE IInv'
  OBVIOUS
<1>1. /\ step \in {"rest", "data"} /\ step' = "idle"
      /\ UNCHANGED <<acks, probe, data>>
  BY DEF FlushRest
<1>2. Waiting' = Waiting
  BY <1>1 DEF acks, Waiting
<1>3. Nothing \in Contents /\ Nothing.acks = {} /\ Nothing.segs = {} /\ Nothing.probes = {}
  BY DEF Nothing, Contents
<1>4. CASE size > 0 /\ Output(used) /\ size' = 0 /\ held' = Nothing
  <2>1. ~(size > Capacity - used)
    BY <1>4 DEF IInv, TypeOK, RoomPromised
  <2>2. /\ used' \in 0 .. used + size /\ exited' = exited /\ PutOut(Nothing)
    BY <1>4, <2>1 DEF Output, PutOut
  <2>3. held.acks \in SUBSET Nat /\ held.segs \in SUBSET Numbers
        /\ owed \in BOOLEAN /\ times \in [Numbers -> Nat]
    BY DEF IInv, TypeOK, Contents
  <2>40. owed' \in BOOLEAN
    BY <2>2 DEF PutOut
  <2>41. times' \in [Numbers -> Nat]
    BY <2>2, <2>3 DEF PutOut
  <2>4. times' \in [Numbers -> Nat] /\ owed' \in BOOLEAN /\ put' \subseteq Nat
    BY <2>2, <2>3, <2>40, <2>41 DEF PutOut, IInv, TypeOK
  <2>5. used' \in 0 .. Capacity
    BY <2>1, <2>2 DEF IInv, TypeOK
  <2>6. TypeOK'
    BY <1>1, <1>3, <1>4, <2>2, <2>4, <2>5 DEF IInv, TypeOK, acks, data
  <2>7. NeverExits' /\ OneDatagram' /\ RoomPromised'
    BY <1>4, <2>2 DEF IInv, NeverExits, OneDatagram, RoomPromised
  <2>8. AcksAccounted'
    BY <1>1, <1>2, <1>3, <2>2 DEF IInv, AcksAccounted, PutOut, acks
  <2>9. XmitTrue'
    <3>1. \A g \in Numbers : times'[g] = times[g] + (IF g \in held.segs THEN 1 ELSE 0)
                             /\ times'[g] \in Nat
      BY <2>2, <2>4 DEF PutOut
    <3>2. \A g \in Numbers : xmit'[g] = times[g] + (IF g \in held.segs THEN 1 ELSE 0)
      BY <1>1 DEF IInv, XmitTrue, data
    <3> QED  BY <1>3, <1>4, <3>1, <3>2 DEF XmitTrue
  <2>10. AnswerKept'
    BY <1>1, <2>2 DEF IInv, AnswerKept, PutOut
  <2>11. Ascending' /\ Filled'
    BY <1>1, <1>3, <1>4 DEF IInv, Ascending, Filled, acks
  <2> QED  BY <2>6, <2>7, <2>8, <2>9, <2>10, <2>11 DEF IInv
<1>5. CASE size = 0 /\ UNCHANGED out
  <2>1. held = Nothing
    BY <1>5 DEF IInv, Filled
  <2>2. TypeOK' /\ NeverExits' /\ OneDatagram' /\ XmitTrue' /\ RoomPromised'
    BY <1>1, <1>5 DEF IInv, out, acks, data, TypeOK, NeverExits, OneDatagram, XmitTrue,
                      RoomPromised
  <2>3. AcksAccounted' /\ AnswerKept' /\ Ascending' /\ Filled'
    BY <1>1, <1>2, <1>3, <1>5, <2>1 DEF IInv, out, acks, AcksAccounted, AnswerKept, Ascending,
                                        Filled
  <2> QED  BY <2>2, <2>3 DEF IInv
<1> QED  BY <1>4, <1>5 DEF FlushRest

LEMMA BetweenInv ==
  IInv /\ (AskAck \/ AskTell \/ SendData \/ \E g \in Numbers : Acknowledged(g)) => IInv'
<1> SUFFICES ASSUME IInv PROVE (AskAck \/ AskTell \/ SendData \/ \E g \in Numbers : Acknowledged(g)) => IInv'
  OBVIOUS
<1>1. ASSUME AskAck PROVE IInv'
  <2>1. /\ step = "idle" /\ given' = given + 1 /\ acklist' = Append(acklist, given + 1)
        /\ UNCHANGED <<step, out, encoded, lost, probe, data>>
    BY <1>1 DEF AskAck
  <2>2. /\ acklist \in Seq(Nat) /\ given \in Nat /\ encoded = 0
    BY <2>1 DEF IInv, TypeOK, Ascending
  <2>3. /\ acklist' \in Seq(Nat) /\ Len(acklist') = Len(acklist) + 1
        /\ \A i \in 1 .. Len(acklist) : acklist'[i] = acklist[i]
        /\ acklist'[Len(acklist) + 1] = given + 1
    BY <2>1, <2>2
  <2>4. TypeOK' /\ NeverExits' /\ OneDatagram' /\ XmitTrue' /\ RoomPromised'
    BY <2>1, <2>2, <2>3 DEF IInv, out, data, TypeOK, NeverExits, OneDatagram, XmitTrue, RoomPromised
  <2>5. Waiting' = Waiting \cup {given + 1}
    <3>1. Waiting = {acklist[i] : i \in 1 .. Len(acklist)}
      BY <2>2 DEF Waiting
    <3>2. Waiting' = {acklist'[i] : i \in 1 .. Len(acklist) + 1}
      <4>1. encoded' + 1 .. Len(acklist') = 1 .. Len(acklist) + 1
        BY <2>1, <2>2, <2>3
      <4> QED  BY <4>1, Zenon DEF Waiting
    <3>3. \A i : i \in 1 .. Len(acklist) + 1
                  <=> i \in 1 .. Len(acklist) \/ i = Len(acklist) + 1
      BY <2>2
    <3> QED  BY <2>2, <2>3, <3>1, <3>2, <3>3
  <2>6. AcksAccounted'
    <3>1. 1 .. given' = 1 .. given \cup {given + 1} /\ given + 1 \notin 1 .. given
      BY <2>1, <2>2
    <3> QED  BY <2>1, <2>5, <3>1 DEF IInv, AcksAccounted, out
  <2>7. AnswerKept' /\ Filled'
    BY <2>1 DEF IInv, out, data, AnswerKept, Filled
  <2>8. Ascending'
    BY <2>1, <2>2, <2>3 DEF IInv, Ascending
  <2> QED  BY <2>4, <2>6, <2>7, <2>8 DEF IInv
<1>2. ASSUME AskTell PROVE IInv'
  BY <1>2 DEF AskTell, acks, data, IInv, TypeOK, NeverExits, OneDatagram, AcksAccounted, Waiting,
              XmitTrue, AnswerKept, RoomPromised, Ascending, Filled
<1>3. ASSUME SendData PROVE IInv'
  BY <1>3 DEF SendData, acks, data, IInv, TypeOK, NeverExits, OneDatagram, AcksAccounted, Waiting,
              XmitTrue, AnswerKept, RoomPromised, Ascending, Filled
<1>4. ASSUME NEW g \in Numbers, Acknowledged(g) PROVE IInv'
  <2>1. /\ snd_buf' = snd_buf \ {g} /\ UNCHANGED <<step, out, acks, probe, snd_nxt, due, at, xmit>>
    BY <1>4 DEF Acknowledged
  <2>2. Waiting' = Waiting
    BY <2>1 DEF acks, Waiting
  <2>3. TypeOK' /\ NeverExits' /\ OneDatagram' /\ XmitTrue' /\ RoomPromised'
    BY <2>1 DEF IInv, out, acks, TypeOK, NeverExits, OneDatagram, XmitTrue, RoomPromised
  <2>4. AcksAccounted' /\ AnswerKept' /\ Ascending'
    BY <2>1, <2>2 DEF IInv, out, acks, AcksAccounted, AnswerKept, Ascending
  <2>5. Filled'
    BY <2>1 DEF IInv, out, acks, Filled
  <2> QED  BY <2>3, <2>4, <2>5 DEF IInv
<1> QED  BY <1>1, <1>2, <1>3, <1>4

LEMMA StutterInv == IInv /\ UNCHANGED vars => IInv'
BY DEF vars, out, acks, data, IInv, TypeOK, NeverExits, OneDatagram, AcksAccounted, Waiting,
       XmitTrue, AnswerKept, RoomPromised, Ascending, Filled

LEMMA NextInv == IInv /\ [Next]_vars => IInv'
BY StartFlushInv, FlushAckInv, AcksFlushedInv, FlushProbeInv, NoProbeInv, FlushWindowInv,
   FlushSegmentInv, SkipSegmentInv, FlushRestInv, BetweenInv, StutterInv DEF Next

LEMMA Invariance == Spec => []IInv
<1> QED  BY InitInv, NextInv, PTL DEF Spec

-----------------------------------------------------------------------------
(* The theorems *)

\* KcpOutput always finds the room that KcpCanOutput has promised: a flush
\* never ends the session.
THEOREM FlushNeverExits == Spec => []NeverExits
<1>1. IInv => NeverExits
  BY DEF IInv
<1> QED  BY Invariance, <1>1, PTL

\* The buffer never outgrows a datagram.
THEOREM BufferIsOneDatagram == Spec => []OneDatagram
<1>1. IInv => OneDatagram
  BY DEF IInv
<1> QED  BY Invariance, <1>1, PTL

\* Every acknowledgement is in exactly one place, however flushes are refused.
THEOREM AcksAreAccounted == Spec => []AcksAccounted
<1>1. IInv => AcksAccounted
  BY DEF IInv
<1> QED  BY Invariance, <1>1, PTL

\* xmit is the number of times a segment was really put out.
THEOREM XmitIsTrue == Spec => []XmitTrue
<1>1. IInv => XmitTrue
  BY DEF IInv
<1> QED  BY Invariance, <1>1, PTL

\* The answer to a window probe is never lost on the way to the queue.
THEOREM AnswerIsKept == Spec => []AnswerKept
<1>1. IInv => AnswerKept
  BY DEF IInv
<1> QED  BY Invariance, <1>1, PTL

\* Type correctness.
THEOREM FlushTypeCorrect == Spec => []TypeOK
<1>1. IInv => TypeOK
  BY DEF IInv
<1> QED  BY Invariance, <1>1, PTL
=============================================================================
