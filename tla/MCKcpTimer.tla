----------------------------- MODULE MCKcpTimer ------------------------------
(* A small instance of KcpTimer for TLC.                                     *)
EXTENDS KcpTimer

\* The clock starts at zero, or so that it wraps during the run.
SmallStarts == {0, ClockSize - 5}

\* Within Slack and beyond it, both ways.
SmallJumps == {-(Slack + 4), -(Slack - 2), Slack + 4}
=============================================================================
