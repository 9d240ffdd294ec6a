---------------------------- MODULE MCRadioQueue ----------------------------
(* The constants of RadioQueue for TLC.                                    *)
EXTENDS RadioQueue

CONSTANTS a, b             \* two videos

\* A queue that wraps after every entry, and one that wraps after two.
TwoPlaylists == {<<a>>, <<b, a>>}
=============================================================================
