----------------------------- MODULE MCAccounts -----------------------------
(* Two spellings of an ASCII address; two of one whose capital only Rust     *)
(* knows (EVA stands for it); a password with and without blanks, and        *)
(* another one.                                                              *)
EXTENDS Accounts, TLC

MCSpellings == {"Ann", "ann", "EVA", "eva"}
MCRustLower == [a \in MCSpellings |-> IF a \in {"Ann", "ann"} THEN "ann" ELSE "eva"]
MCSqlLower  == [a \in MCSpellings |-> IF a = "Ann" THEN "ann" ELSE a]

MCPasswords == {"secret", " secret", "short"}
MCTrim      == [p \in MCPasswords |-> IF p = " secret" THEN "secret" ELSE p]
MCStrong    == {"secret", " secret"}

MCConfigs == {[email |-> "Ann", password |-> "short"], [email |-> "EVA", password |-> " secret"]}

Interchangeable == Permutations(Clients)

=============================================================================
