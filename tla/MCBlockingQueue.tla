--------------------------- MODULE MCBlockingQueue ---------------------------
(* A queue of two slots and a producer of five samples: the queue fills,   *)
(* empties, overflows after the shutdown, and every wait is met.           *)
EXTENDS BlockingQueue

MCUpperBound == 2
MCNumItems == 5
==============================================================================
