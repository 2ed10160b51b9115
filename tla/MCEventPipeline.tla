-------------------------- MODULE MCEventPipeline --------------------------
(* The instance of EventPipeline for TLC; EventPipeline_reads.cfg has source *)
(* 1 read a ring buffer and source 2 a perf buffer.                          *)
EXTENDS EventPipeline
=============================================================================
