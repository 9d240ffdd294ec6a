---------------------------- MODULE MusicLibrary ----------------------------
(***************************************************************************)
(* What the library promises to its listeners, whoever imports into it: it *)
(* only grows.  A track is there once and for good, and playable from the  *)
(* moment it is there; a playlist holds a track once, a position holds one *)
(* track, and nothing on a playlist is moved or removed.                   *)
(***************************************************************************)
EXTENDS Naturals

CONSTANT Videos            \* the YouTube videos a track can come from

VARIABLES
    tracks,                \* the videos that are tracks of the library
    playable,              \* the videos whose audio can be streamed
    shelf                  \* set of [playlist, video, position]

vars == <<tracks, playable, shelf>>

Init == tracks = {} /\ playable = {} /\ shelf = {}

AddTrack(v) ==
    /\ v \notin tracks
    /\ tracks' = tracks \union {v}
    /\ playable' = playable \union {v}
    /\ UNCHANGED shelf

Place(p, v, n) ==
    /\ v \in tracks
    /\ \A l \in shelf : l.playlist = p => l.video # v /\ l.position # n
    /\ shelf' = shelf \union {[playlist |-> p, video |-> v, position |-> n]}
    /\ UNCHANGED <<tracks, playable>>

\* A playlist id or a position is any number: the step is read off the row it
\* adds, so that no bound on either is needed.
Next ==
    \/ \E v \in Videos : AddTrack(v)
    \/ \E l \in shelf' \ shelf : Place(l.playlist, l.video, l.position)

Spec == Init /\ [][Next]_vars
=============================================================================
