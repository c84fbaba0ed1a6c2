--------------------------- MODULE MCWidevineTimers ---------------------------
(* Three timers with every delay up to the end of time, so that a later    *)
(* one overtakes an earlier one, and two CDM instances, the second created *)
(* after a shutdown or after a first Init() that failed half-way.          *)
EXTENDS WidevineTimers

MCMaxTimers == 3
MCMaxTime == 2
MCMaxInstances == 2
==============================================================================
