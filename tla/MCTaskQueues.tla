---------------------------- MODULE MCTaskQueues ----------------------------
(* Instances of TaskQueues for TLC.                                          *)
EXTENDS TaskQueues, TLC

CONSTANTS platform, raster, other

\* What SharedThreadMerger merges, and a third queue under the raster queue, which
\* the guards of Merge must refuse while the platform's owns the raster's, and which
\* makes them refuse the platform's.
Merges == {<<platform, raster>>, <<raster, other>>}
=============================================================================
