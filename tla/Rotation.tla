------------------------------ MODULE Rotation ------------------------------
(***************************************************************************)
(* What the imported queue of a radio station promises to whoever asks for *)
(* the next track: entries are handed out one at a time, in turn, starting *)
(* over after the last; a new playlist starts with its first entry.        *)
(***************************************************************************)
EXTENDS Naturals, Sequences

CONSTANTS Stations, Videos

VARIABLES
    queue,         \* the entries of each station's playlist
    cursor,        \* the position that is next
    served         \* what was handed out since the playlist came

vars == <<queue, cursor, served>>

\* The position that follows p in a queue of n entries.
Following(p, n) == IF p >= n THEN 1 ELSE p + 1

Entry(q, p) == [position |-> p, video |-> q[p]]

Init ==
    /\ queue \in [Stations -> Seq(Videos)]
    /\ cursor = [s \in Stations |-> 1]
    /\ served = [s \in Stations |-> << >>]

Serve(s) ==
    /\ queue[s] # << >>
    /\ served' = [served EXCEPT ![s] = Append(@, Entry(queue[s], cursor[s]))]
    /\ cursor' = [cursor EXCEPT ![s] = Following(@, Len(queue[s]))]
    /\ UNCHANGED queue

Replace(s, q) ==
    /\ q # << >>
    /\ queue' = [queue EXCEPT ![s] = q]
    /\ cursor' = [cursor EXCEPT ![s] = 1]
    /\ served' = [served EXCEPT ![s] = << >>]

\* A playlist is any sequence of videos: the new one is read off the step.
Next == \E s \in Stations : Serve(s) \/ Replace(s, queue'[s])

Spec == Init /\ [][Next]_vars
=============================================================================
