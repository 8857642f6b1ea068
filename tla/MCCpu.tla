------------------------------- MODULE MCCpu -------------------------------
(* The programs of both kinds together, for TLC.                           *)
EXTENDS IntegerLaws, VectorLaws

IntegerRuns ==
    OrderRuns \cup WideRuns \cup CounterRuns \cup ProductRuns \cup NegateRuns \cup ExtendRuns
    \cup RotateRuns \cup FunnelRuns \cup ScanRuns \cup FlipRuns \cup LockRuns \cup StackRuns
    \cup CopyRuns \cup FillRuns \cup CompareRuns \cup LeaRuns \cup ViewRuns \cup LogicRuns
    \cup CallRuns
VectorRuns ==
    MaskRuns \cup SaturateRuns \cup PackRuns \cup MultiplyRuns \cup ShiftRuns \cup AlignRuns
    \cup LaneRuns \cup ShuffleRuns \cup TestRuns \cup FloatOrderRuns \cup ArithRuns
    \cup ConvertRuns \cup VexRuns \cup YmmRuns \cup MoveRuns \cup AnyRuns
AllRuns == IntegerRuns \cup VectorRuns
=============================================================================
