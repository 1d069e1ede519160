-------------------------- MODULE MCRasterThreads --------------------------
(* Instances of RasterThreads for TLC.                                       *)
EXTENDS RasterThreads, TLC
=============================================================================
