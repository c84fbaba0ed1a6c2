--------------------------- MODULE MCAudioPipeline ---------------------------
(* Two fragments of two frames over queues of one: a packet waits while    *)
(* the next one is decrypted and the one before it decoded.                *)
EXTENDS AudioPipeline

MCNumSamples == 2
MCFramesPerSample == 2
MCDemuxedBound == 1
MCFrameBound == 1
==============================================================================
