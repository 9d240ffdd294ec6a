---------------------------- MODULE AccountBook ----------------------------
(***************************************************************************)
(* What the accounts of the service promise: an account is opened once per *)
(* address, whatever the case it is written in, and never changes or       *)
(* disappears; nobody becomes an administrator while the service runs.     *)
(***************************************************************************)
EXTENDS Naturals, Sequences

CONSTANTS
    Addresses, Secrets,
    Key             \* Key[a] is the same for the spellings of one address

VARIABLES
    accounts,       \* in the order they were opened
    serving         \* requests are answered

Account == [address : Addresses, password : Secrets, admin : BOOLEAN]

Open(new) ==
    /\ \A i \in DOMAIN accounts : Key[accounts[i].address] # Key[new.address]
    /\ accounts' = Append(accounts, new)

Init == accounts = << >> /\ serving = FALSE

StartUp ==
    /\ ~serving /\ serving' = TRUE
    /\ \/ UNCHANGED accounts
       \/ \E new \in Account : new.admin /\ Open(new)

ShutDown == serving' = FALSE /\ UNCHANGED accounts

Register ==
    /\ serving /\ UNCHANGED serving
    /\ \E new \in Account : ~new.admin /\ Open(new)

Next == StartUp \/ ShutDown \/ Register

Spec == Init /\ [][Next]_<<accounts, serving>>

=============================================================================
