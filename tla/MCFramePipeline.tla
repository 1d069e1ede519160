-------------------------- MODULE MCFramePipeline --------------------------
(* Instances of FramePipeline for TLC. *)
EXTENDS FramePipeline
=============================================================================
