--------------------------- MODULE MCFramePipeline ---------------------------
(* Two connections, two encoders and surfaces, one remap, one lost frame. *)
EXTENDS FramePipeline
===============================================================================
