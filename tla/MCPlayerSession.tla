--------------------------- MODULE MCPlayerSession ---------------------------
(* CTRL+C twice: in the loop and in signal.pause(), during WaitForStream(), *)
(* or before the handler is installed.                                      *)
EXTENDS PlayerSession

MCMaxSignals == 2
==============================================================================
