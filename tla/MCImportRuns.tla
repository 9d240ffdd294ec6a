---------------------------- MODULE MCImportRuns ----------------------------
(* The constants of ImportRuns for TLC.                                    *)
EXTENDS ImportRuns, TLC

\* Handlers of the same endpoint are interchangeable.
Symmetry == Permutations(Requests)
=============================================================================
