------------------------- MODULE MCRequestPipeline -------------------------
(* Small instances of RequestPipeline: bodies from empty to one byte over  *)
(* the limit.                                                              *)
EXTENDS RequestPipeline

MCSizes == 0..(MaxRequestSize + 1)

=============================================================================
