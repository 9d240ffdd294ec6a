--------------------------- MODULE MCLibraryImport ---------------------------
(* The constants of LibraryImport for TLC.                                 *)
EXTENDS LibraryImport, TLC

CONSTANTS a, b             \* two videos

\* Two orders of the same videos; a listing that repeats a video, which makes
\* the hint run ahead of the positions; listings without a common video.
PairListings   == {<<a, b>>, <<b, a>>}
RepeatListings == {<<b, a>>, <<a, a, b>>}
OneListings    == {<<a>>, <<b>>}

\* Runs of different workers are interchangeable.
Symmetry == Permutations(Workers)
=============================================================================
