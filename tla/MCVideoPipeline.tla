--------------------------- MODULE MCVideoPipeline ---------------------------
(* Three fragments of two frames over queues of one: each queue is full    *)
(* while the thread before it holds the next piece.  The CDM may hold back *)
(* one frame, so that frames cross the border of their sample.             *)
EXTENDS VideoPipeline

MCNumSamples == 3
MCFramesPerSample == 2
MCDemuxedBound == 1
MCFrameBound == 1
MCDecoderDelay == 1
==============================================================================
