---------------------------- MODULE MCCodeChannel ----------------------------
(* Small instances of CodeChannel for TLC.  A code no longer than Prefix and   *)
(* one that m_send_queue can never hold are always among those given.          *)
EXTENDS CodeChannel

\* Codes that leave m_receive_queue room for a segment but one byte.
SmallCodes == {Prefix, Prefix + 1, Capacity - Mss + 1, Capacity + 1}

\* Codes as large as WriteOneCode accepts them.
LargeCodes == {Prefix, Prefix + 1, Capacity, Capacity + 1}
=============================================================================
