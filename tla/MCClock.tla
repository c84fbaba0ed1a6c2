------------------------------- MODULE MCClock -------------------------------
(* Audio frames of one unit, video frames of two and a MAX_DELTA of three: *)
(* each medium comes to wait for the other.                                *)
EXTENDS Clock

MCMaxDelta == 3
MCDurations == [m \in Media |-> IF m = "audio" THEN {1} ELSE {2}]
MCNumFrames == [m \in Media |-> IF m = "audio" THEN 8 ELSE 4]
MCBuilds == {{}, {"audio"}}  \* the desktop, the Raspberry Pi
==============================================================================
