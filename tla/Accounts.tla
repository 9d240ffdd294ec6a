------------------------------ MODULE Accounts ------------------------------
(***************************************************************************)
(* Registration, tokens and administrators: create_register and            *)
(* create_token of axum-app/src/handlers/api.rs, require_admin_jwt of      *)
(* axum-app/src/auth.rs and bootstrap_admin_user of axum-app/src/main.rs,  *)
(* each SQL statement one step.                                            *)
(*                                                                         *)
(* Addresses are compared by SQLite's lower(), which changes ASCII letters *)
(* only, and are stored by a registration as Rust's to_lowercase leaves    *)
(* them, which knows all of Unicode.  The two are parameters.              *)
(*                                                                         *)
(* Faults: "stop"     the process dies; only the table survives            *)
(*         "cancel"   a client disconnects and its handler is dropped      *)
(*         "dbError"  a statement fails                                    *)
(***************************************************************************)
EXTENDS Naturals, Sequences, FiniteSets

CONSTANTS
    Spellings,      \* addresses as they are typed, without blanks around
    RustLower,      \* str::to_lowercase of each
    SqlLower,       \* SQLite's lower() of each
    Passwords,
    Trim,           \* a password without the blanks around it
    Strong,         \* passwords of eight bytes or more
    Configs,        \* what BOOTSTRAP_ADMIN_EMAIL and _PASSWORD may be set to
    Clients,        \* requests served at the same time
    Faults,
    MaxEvents       \* BOUND: requests and stops

ASSUME LowerAssumption ==
    /\ RustLower \in [Spellings -> Spellings]
    /\ SqlLower \in [Spellings -> Spellings]
    /\ \A a \in Spellings : SqlLower[RustLower[a]] = RustLower[a]
ASSUME PasswordsAssumption == Trim \in [Passwords -> Passwords] /\ Strong \subseteq Passwords
ASSUME ConfigsAssumption   == Configs \subseteq [email : Spellings, password : Passwords]
ASSUME FaultsAssumption    == Faults \subseteq {"stop", "cancel", "dbError"}
ASSUME MaxEventsAssumption == MaxEvents \in Nat

VARIABLES
    users,          \* the table, the id of a row is its place
    up,             \* main got as far as serving
    call,           \* each client's request
    tokens,         \* the tokens handed out, with what was presented for them
    created,        \* history: the registrations answered 201
    started,        \* history: the configurations the program was started with
    misread,        \* history: starts whose COUNT of administrators failed
    events          \* counted against MaxEvents

vars == <<users, up, call, tokens, created, started, misread, events>>

User  == [address : Spellings, password : Passwords, admin : BOOLEAN]
Token == [user : Nat \ {0}, address : Spellings, password : Passwords]

Phases == {"idle", "check", "insert", "issue",   \* create_register
           "lookup",                             \* create_token
           "admin", "granted"}                   \* require_admin_jwt and its caller

Idle == [at |-> "idle"]
At(c, phase) == call[c].at = phase
Return(c) == call' = [call EXCEPT ![c] = Idle]

\* lower(email_address) = lower(?)
Matching(a) == {i \in DOMAIN users : SqlLower[users[i].address] = SqlLower[a]}
Admins == {i \in DOMAIN users : users[i].admin}

Presented(c, i) == [user |-> i, address |-> call[c].address, password |-> call[c].password]

-----------------------------------------------------------------------------

Init ==
    /\ users = << >> /\ up = FALSE
    /\ call = [c \in Clients |-> Idle]
    /\ tokens = {} /\ created = << >>
    /\ started = {} /\ misread = 0
    /\ events = 0

-----------------------------------------------------------------------------
(* main: bootstrap_admin_user, then serve.                                 *)

\* Slip: a user who is there is made the administrator.
StartPromotes(cfg, failed) ==
    /\ ~up /\ up' = TRUE
    /\ started' = started \union {cfg}
    /\ misread' = IF failed THEN misread + 1 ELSE misread
    /\ users' = IF Admins # {} /\ ~failed THEN users
                ELSE IF Matching(cfg.email) = {}
                THEN Append(users, [address |-> cfg.email, password |-> cfg.password, admin |-> TRUE])
                ELSE [i \in DOMAIN users |-> [users[i] EXCEPT !.admin = @ \/ i \in Matching(cfg.email)]]
    /\ UNCHANGED <<call, tokens, created, events>>

\* Slip: administrators are not counted.
StartAlways(cfg, failed) ==
    /\ ~up /\ up' = TRUE
    /\ started' = started \union {cfg}
    /\ misread' = IF failed THEN misread + 1 ELSE misread
    /\ users' = IF Matching(cfg.email) # {} THEN users
                ELSE Append(users, [address |-> cfg.email, password |-> cfg.password, admin |-> TRUE])
    /\ UNCHANGED <<call, tokens, created, events>>

\* An administrator is created when there is none, or the COUNT fails and
\* unwrap_or(0) says so, and nobody has the address.  The address is stored as
\* it was configured and the password is not trimmed.
Start(cfg, failed) ==
    /\ ~up /\ up' = TRUE
    /\ started' = started \union {cfg}
    /\ misread' = IF failed THEN misread + 1 ELSE misread
    /\ users' = IF (Admins # {} /\ ~failed) \/ Matching(cfg.email) # {} THEN users
                ELSE Append(users, [address |-> cfg.email, password |-> cfg.password, admin |-> TRUE])
    /\ UNCHANGED <<call, tokens, created, events>>

\* No administrator is configured.
StartBare ==
    /\ ~up /\ up' = TRUE
    /\ UNCHANGED <<users, call, tokens, created, started, misread, events>>

Stop ==
    /\ "stop" \in Faults
    /\ up /\ events < MaxEvents
    /\ up' = FALSE
    /\ call' = [c \in Clients |-> Idle]
    /\ events' = events + 1
    /\ UNCHANGED <<users, tokens, created, started, misread>>

-----------------------------------------------------------------------------

Ask(c, request) ==
    /\ up /\ events < MaxEvents
    /\ At(c, "idle")
    /\ call' = [call EXCEPT ![c] = request]
    /\ events' = events + 1
    /\ UNCHANGED <<users, up, tokens, created, started, misread>>

(* POST auth/register.                                                     *)

RegisterRequest(c, a, p) ==
    /\ Trim[p] \in Strong
    /\ Ask(c, [at |-> "check", address |-> a, password |-> p])

\* COUNT(*) of rows with the address, 409 if there is one.
CheckAddress(c) ==
    /\ At(c, "check")
    /\ IF Matching(RustLower[call[c].address]) # {}
       THEN Return(c)
       ELSE call' = [call EXCEPT ![c].at = "insert"]
    /\ UNCHANGED <<users, up, tokens, created, started, misread, events>>

\* Slip: the address is stored as it was typed.
NewUserAsTyped(c) == [address  |-> call[c].address,
                      password |-> Trim[call[c].password], admin |-> FALSE]

\* Slip: the password is stored as it was typed.
NewUserUntrimmed(c) == [address  |-> RustLower[call[c].address],
                        password |-> call[c].password, admin |-> FALSE]

NewUser(c) == [address  |-> RustLower[call[c].address],
               password |-> Trim[call[c].password], admin |-> FALSE]

Taken(a) == \E i \in DOMAIN users : users[i].address = a

Issuing(c, i) ==
    call' = [call EXCEPT ![c] = [at |-> "issue", address |-> @.address,
                                 password |-> @.password, user |-> i]]

\* Slip: INSERT OR IGNORE, and the answer does not depend on it.
InsertOrIgnore(c) ==
    /\ At(c, "insert")
    /\ users' = IF Taken(NewUser(c).address) THEN users ELSE Append(users, NewUser(c))
    /\ Issuing(c, Len(users'))
    /\ UNCHANGED <<up, tokens, created, started, misread, events>>

\* Slip: the id of the newest row before this one.
InsertOldId(c) ==
    /\ At(c, "insert")
    /\ IF Taken(NewUser(c).address)
       THEN Return(c) /\ UNCHANGED users
       ELSE Issuing(c, Len(users)) /\ users' = Append(users, NewUser(c))
    /\ UNCHANGED <<up, tokens, created, started, misread, events>>

\* email_address is UNIQUE, as it is written: a conflict is answered 500.
Insert(c) ==
    /\ At(c, "insert")
    /\ IF Taken(NewUser(c).address)
       THEN Return(c) /\ UNCHANGED users
       ELSE Issuing(c, Len(users) + 1) /\ users' = Append(users, NewUser(c))
    /\ UNCHANGED <<up, tokens, created, started, misread, events>>

\* The handler goes on after the INSERT: 201 with a token.
Issue(c) ==
    /\ At(c, "issue")
    /\ tokens' = tokens \union {Presented(c, call[c].user)}
    /\ created' = Append(created, Presented(c, call[c].user))
    /\ Return(c)
    /\ UNCHANGED <<users, up, started, misread, events>>

(* POST auth/token.                                                        *)

TokenRequest(c, a, p) == Ask(c, [at |-> "lookup", address |-> a, password |-> p])

\* LIMIT 1 without an order: any of the rows with the address; the password is
\* verified as it was sent.
Lookup(c) ==
    /\ At(c, "lookup")
    /\ \/ \E i \in Matching(call[c].address) :
             tokens' = IF users[i].password = call[c].password
                       THEN tokens \union {Presented(c, i)} ELSE tokens
       \/ Matching(call[c].address) = {} /\ UNCHANGED tokens
    /\ Return(c)
    /\ UNCHANGED <<users, up, created, started, misread, events>>

(* A request to the administrator's endpoints.                             *)

AdminRequest(c, t) == Ask(c, [at |-> "admin", token |-> t])

\* SELECT admin for the user the token names, at every request.
CheckAdmin(c) ==
    /\ At(c, "admin")
    /\ IF call[c].token.user \in Admins
       THEN call' = [call EXCEPT ![c].at = "granted"]
       ELSE Return(c)
    /\ UNCHANGED <<users, up, tokens, created, started, misread, events>>

\* The endpoint does its work.
Serve(c) ==
    /\ At(c, "granted")
    /\ Return(c)
    /\ UNCHANGED <<users, up, tokens, created, started, misread, events>>

-----------------------------------------------------------------------------

StatementFails(c) ==
    /\ "dbError" \in Faults
    /\ call[c].at \in {"check", "insert", "lookup", "admin"}
    /\ Return(c)
    /\ UNCHANGED <<users, up, tokens, created, started, misread, events>>

\* Also after the INSERT: the row stays and no token is sent.
ClientDisconnects(c) ==
    /\ "cancel" \in Faults
    /\ ~At(c, "idle")
    /\ Return(c)
    /\ UNCHANGED <<users, up, tokens, created, started, misread, events>>

Step(c) ==
    \/ CheckAddress(c) \/ Insert(c) \/ Issue(c)
    \/ Lookup(c) \/ CheckAdmin(c) \/ Serve(c)
    \/ StatementFails(c) \/ ClientDisconnects(c)

Next ==
    \/ \E cfg \in Configs :
          \E failed \in {f \in BOOLEAN : f => "dbError" \in Faults} : Start(cfg, failed)
    \/ StartBare \/ Stop
    \/ \E c \in Clients :
          \/ \E a \in Spellings, p \in Passwords :
                RegisterRequest(c, a, p) \/ TokenRequest(c, a, p)
          \/ \E t \in tokens : AdminRequest(c, t)
          \/ Step(c)

Spec == Init /\ [][Next]_vars

-----------------------------------------------------------------------------
(* Properties.                                                             *)

Request ==
    {Idle}
    \union [at : {"check", "insert", "lookup"}, address : Spellings, password : Passwords]
    \union [at : {"issue"}, address : Spellings, password : Passwords, user : DOMAIN users]
    \union [at : {"admin", "granted"}, token : tokens]

\* The table, the requests and the tokens hold values the program gives them,
\* and whatever names a user names a row.
TypeOK ==
    /\ users \in Seq(User) /\ up \in BOOLEAN
    /\ call \in [Clients -> Request]
    /\ tokens \subseteq Token /\ \A t \in tokens : t.user \in DOMAIN users
    /\ created \in Seq(Token) /\ \A i \in DOMAIN created : created[i] \in tokens
    /\ started \subseteq Configs /\ misread \in Nat /\ events \in Nat

\* Of the registrations of one address, in whatever case, overlapping or not,
\* one at most is answered 201.
OneCreatedPerAddress ==
    \A i, j \in DOMAIN created :
        RustLower[created[i].address] = RustLower[created[j].address] => i = j

\* create_token would hand out a token.
LogsIn(a, p) == Matching(a) # {} /\ \A i \in Matching(a) : users[i].password = p

\* Whoever was answered 201 can log in with the address as it was typed and the
\* trimmed password, for ever: no later registration or start takes the account
\* away.  Not so for an address in which Unicode has capitals SQLite leaves alone.
RegisteredCanLogIn ==
    \A i \in DOMAIN created :
        LET a == created[i].address
        IN  SqlLower[a] = RustLower[a] => LogsIn(a, Trim[created[i].password])

\* An administrator's request gets past the check only with a token for which
\* the address and password of a configuration were presented that the program
\* has been started with.
OnlyConfiguredAdmins ==
    \A c \in Clients :
        At(c, "granted") =>
            \E cfg \in started : /\ SqlLower[cfg.email] = SqlLower[call[c].token.address]
                                 /\ cfg.password = call[c].token.password

\* Restarts with other settings add no administrator; only a start that could
\* not count them does.
AdminsBound == Cardinality(Admins) <= 1 + misread

Book == INSTANCE AccountBook
        WITH Addresses <- Spellings, Secrets <- Passwords, Key <- SqlLower,
             accounts <- users, serving <- up

\* The handlers and the start of the program implement the book of accounts.
BookRefinement == Book!Spec

=============================================================================
