-------------------------- MODULE MCFlowAggregator --------------------------
(* Instances of FlowAggregator for TLC. *)
EXTENDS FlowAggregator

OneByte == {1}
=============================================================================
