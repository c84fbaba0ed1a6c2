--------------------------- MODULE MCBlockingStream ---------------------------
(* Two fragments at a time and four ranges of different sizes: the stream  *)
(* fills up and runs dry, responses come in one or several chunks and may  *)
(* be a byte shorter or longer than their ranges.                          *)
EXTENDS BlockingStream

MCMaxFragments == 2
MCRangeSizes == <<2, 1, 3, 2>>
MCDeviations == {-1, 0, 1}
==============================================================================
