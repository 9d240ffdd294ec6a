------------------------------ MODULE RunLedger ------------------------------
(***************************************************************************)
(* What the bookkeeping of the YouTube import promises, without workers,   *)
(* interleavings or failures.                                              *)
(*                                                                         *)
(* The ledger is the table youtube_import_runs: rows are appended, each    *)
(* opens as 'running', is closed at most once and is never edited after.   *)
(* A source is stamped (last_synced_at gets a value) only when the ledger  *)
(* holds a finished run of it: the time shown to an administrator is never *)
(* that of a run that did not end.                                         *)
(***************************************************************************)
EXTENDS Naturals, Sequences

CONSTANT Sources           \* ids of playlist sources

VARIABLES
    ledger,                \* sequence of [source, status], the run's id is its place
    stamped                \* the sources whose last_synced_at has ever been set

vars == <<ledger, stamped>>

FinalStatus == {"ok", "partial", "failed"}

Finished(s) == \E i \in DOMAIN ledger :
                  ledger[i].source = s /\ ledger[i].status \in FinalStatus

Init == ledger = << >> /\ stamped = {}

Open(s) ==
    /\ ledger' = Append(ledger, [source |-> s, status |-> "running"])
    /\ UNCHANGED stamped

Close(i, status) ==
    /\ ledger[i].status = "running"
    /\ ledger' = [ledger EXCEPT ![i].status = status]
    /\ UNCHANGED stamped

Stamp(s) ==
    /\ Finished(s)
    /\ stamped' = stamped \union {s}
    /\ UNCHANGED ledger

Next ==
    \/ \E s \in Sources : Open(s) \/ Stamp(s)
    \/ \E i \in DOMAIN ledger, status \in FinalStatus : Close(i, status)

Spec == Init /\ [][Next]_vars
=============================================================================
