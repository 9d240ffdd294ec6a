--------------------------- MODULE AccountsProofs ---------------------------
(***************************************************************************)
(* Theorems about Accounts, for all spellings and both ways of lowering    *)
(* them, all passwords, configurations, clients and faults.                *)
(***************************************************************************)
EXTENDS Accounts, SequenceTheorems, FiniteSetTheorems, TLAPS

-----------------------------------------------------------------------------
(* The inductive invariant.                                                *)

\* A row with the address as SQLite compares it has it as it is written, so
\* that UNIQUE notices what an overtaken check did not.
Guarded(a) == \A i \in DOMAIN users : SqlLower[users[i].address] = a => users[i].address = a

\* The row that was inserted for a registration.
Opened(r) == /\ r.user \in DOMAIN users
             /\ users[r.user] = [address |-> RustLower[r.address],
                                 password |-> Trim[r.password], admin |-> FALSE]

\* What a handler knows from the statements behind it.
Knows(r) ==
    /\ r \in Request
    /\ r.at = "insert" => Guarded(RustLower[r.address])
    /\ r.at = "issue" => /\ Opened(r)
                         /\ \A i \in DOMAIN created : created[i].user # r.user
    /\ r.at = "granted" => r.token.user \in Admins

NoTwins == \A i, j \in DOMAIN users :
              SqlLower[users[i].address] = SqlLower[users[j].address] => i = j

CreatedOnce ==
    /\ \A i \in DOMAIN created : Opened(created[i])
    /\ \A i, j \in DOMAIN created : created[i].user = created[j].user => i = j

IssuedOnce == \A c, d \in Clients :
                 At(c, "issue") /\ At(d, "issue") /\ call[c].user = call[d].user => c = d

\* An administrator's token was given for his address and password.
TokensEarned ==
    \A t \in tokens : users[t.user].admin =>
        /\ SqlLower[t.address] = SqlLower[users[t.user].address]
        /\ t.password = users[t.user].password

AdminsConfigured ==
    \A i \in Admins : [email |-> users[i].address, password |-> users[i].password] \in started

IInv ==
    /\ TypeOK
    /\ \A c \in Clients : Knows(call[c])
    /\ ~up => \A c \in Clients : call[c] = Idle
    /\ NoTwins /\ CreatedOnce /\ IssuedOnce
    /\ TokensEarned /\ AdminsConfigured

-----------------------------------------------------------------------------
(* Requests.                                                               *)

\* The fields a request has at each statement.
LEMMA RequestFacts ==
    ASSUME NEW r \in Request
    PROVE  /\ r.at \in {"check", "insert", "lookup", "issue"} =>
                 r.address \in Spellings /\ r.password \in Passwords
           /\ r.at = "issue" => r.user \in DOMAIN users
           /\ r.at \in {"admin", "granted"} => r.token \in tokens
           /\ r.at = "insert" =>
                 r \in [at : {"insert"}, address : Spellings, password : Passwords]
           /\ r.at = "check" =>
                 r \in [at : {"check"}, address : Spellings, password : Passwords]
           /\ r.at = "admin" => r \in [at : {"admin"}, token : tokens]
           /\ r.at = "issue" =>
                 r \in [at : {"issue"}, address : Spellings, password : Passwords,
                        user : DOMAIN users]
  BY DEF Request, Idle

LEMMA IdleFacts == Idle \in Request /\ Idle.at = "idle"
  BY DEF Request, Idle

\* INSERT: one more row, the others as they were.
LEMMA InsertLemma ==
    ASSUME NEW S, NEW tbl \in Seq(S), NEW row \in S
    PROVE  /\ Append(tbl, row) \in Seq(S)
           /\ DOMAIN Append(tbl, row) = DOMAIN tbl \union {Len(tbl) + 1}
           /\ Append(tbl, row)[Len(tbl) + 1] = row
           /\ \A i \in DOMAIN tbl : Append(tbl, row)[i] = tbl[i] /\ tbl[i] \in S
           /\ Len(tbl) + 1 \notin DOMAIN tbl /\ Len(tbl) + 1 \in Nat \ {0}
           /\ DOMAIN tbl \subseteq Nat \ {0}
  BY AppendProperties, LenProperties, ElementOfSeq

\* Only the request of c changes, to one that has not inserted a row.
LEMMA QuietKeeps ==
    ASSUME IInv, NEW c \in Clients, NEW r, Knows(r), r.at # "issue",
           up \/ r = Idle, call' = [call EXCEPT ![c] = r], events' \in Nat,
           UNCHANGED <<users, up, tokens, created, started, misread>>
    PROVE  IInv'
  <1>1. \A d \in Clients : call'[d] = IF d = c THEN r ELSE call[d]
    BY DEF IInv, TypeOK
  <1>2. \A q : Knows(q)' <=> Knows(q)
    BY DEF Knows, Request, Guarded, Opened, Admins
  <1>3. TypeOK'
    <2>1. Request' = Request
      BY DEF Request
    <2> QED
      BY <2>1 DEF IInv, TypeOK, Knows
  <1>4. \A d \in Clients : Knows(call[d])'
    BY <1>1, <1>2 DEF IInv
  <1>5. IssuedOnce'
    BY <1>1 DEF IInv, IssuedOnce, At
  <1>6. NoTwins' /\ CreatedOnce' /\ TokensEarned' /\ AdminsConfigured'
    BY DEF IInv, NoTwins, CreatedOnce, Opened, TokensEarned, AdminsConfigured, Admins
  <1>7. ~up' => \A d \in Clients : call'[d] = Idle
    BY <1>1 DEF IInv
  <1> QED
    BY <1>3, <1>4, <1>5, <1>6, <1>7 DEF IInv

\* A request that ends, wherever it is, leaves everything as it must be.
LEMMA ReturnKeeps ==
    ASSUME IInv, NEW c \in Clients, Return(c),
           UNCHANGED <<users, up, tokens, created, started, misread, events>>
    PROVE  IInv'
  <1>1. Knows(Idle)
    BY IdleFacts DEF Knows
  <1> QED
    BY <1>1, QuietKeeps, IdleFacts DEF Return, IInv, TypeOK

LEMMA AskKeeps ==
    ASSUME IInv, NEW c \in Clients, NEW r \in Request, Ask(c, r),
           r.at \in {"check", "lookup", "admin"}
    PROVE  IInv'
  <1>1. Knows(r) /\ r.at # "issue"
    BY DEF Knows
  <1>2. /\ up /\ call' = [call EXCEPT ![c] = r] /\ events' \in Nat
        /\ UNCHANGED <<users, up, tokens, created, started, misread>>
    BY DEF Ask, IInv, TypeOK
  <1> QED
    BY <1>1, <1>2, QuietKeeps

LEMMA CheckAddressKeeps == ASSUME IInv, NEW c \in Clients, CheckAddress(c) PROVE IInv'
  <1> DEFINE a == RustLower[call[c].address]
  <1>1. call[c] \in Request /\ call[c].at = "check"
    BY DEF CheckAddress, At, IInv, Knows
  <1>2. up
    BY <1>1, IdleFacts DEF IInv
  <1>3. CASE Matching(a) # {}
    BY <1>3, ReturnKeeps DEF CheckAddress
  <1>4. CASE Matching(a) = {}
    <2> DEFINE r == [call[c] EXCEPT !.at = "insert"]
    <2>1. r \in [at : {"insert"}, address : Spellings, password : Passwords]
          /\ r.address = call[c].address
      BY <1>1, RequestFacts
    <2>2. Guarded(a)
      <3>1. call[c].address \in Spellings
        BY <1>1, RequestFacts
      <3>2. SqlLower[a] = a
        BY <3>1, LowerAssumption
      <3> QED
        BY <1>4, <3>2 DEF Matching, Guarded
    <2>3. Knows(r)
      BY <2>1, <2>2 DEF Knows, Request
    <2>4. call' = [call EXCEPT ![c] = r]
      BY <1>4 DEF CheckAddress
    <2> QED
      BY <1>2, <2>1, <2>3, <2>4, QuietKeeps DEF CheckAddress, IInv, TypeOK
  <1> QED
    BY <1>3, <1>4

LEMMA CheckAdminKeeps == ASSUME IInv, NEW c \in Clients, CheckAdmin(c) PROVE IInv'
  <1>1. call[c] \in Request /\ call[c].at = "admin"
    BY DEF CheckAdmin, At, IInv, Knows
  <1>2. up
    BY <1>1, IdleFacts DEF IInv
  <1>3. CASE call[c].token.user \notin Admins
    BY <1>3, ReturnKeeps DEF CheckAdmin
  <1>4. CASE call[c].token.user \in Admins
    <2> DEFINE r == [call[c] EXCEPT !.at = "granted"]
    <2>1. r \in [at : {"granted"}, token : tokens] /\ r.token = call[c].token
      BY <1>1, RequestFacts
    <2>2. Knows(r)
      BY <1>4, <2>1 DEF Knows, Request
    <2>3. call' = [call EXCEPT ![c] = r]
      BY <1>4 DEF CheckAdmin
    <2> QED
      BY <1>2, <2>1, <2>2, <2>3, QuietKeeps DEF CheckAdmin, IInv, TypeOK
  <1> QED
    BY <1>3, <1>4

-----------------------------------------------------------------------------
(* The table grows.                                                        *)

\* A row whose address nobody has takes nothing from what holds of the others.
LEMMA NewRow ==
    ASSUME IInv, NEW u \in User, users' = Append(users, u),
           \A i \in DOMAIN users : SqlLower[users[i].address] # SqlLower[u.address],
           UNCHANGED <<tokens, created>>, started \subseteq started',
           u.admin => [email |-> u.address, password |-> u.password] \in started'
    PROVE  /\ users' \in Seq(User) /\ DOMAIN users \subseteq DOMAIN users'
           /\ \A i \in DOMAIN users : users'[i] = users[i]
           /\ Len(users) + 1 \in DOMAIN users' /\ users'[Len(users) + 1] = u
           /\ Len(users) + 1 \notin DOMAIN users
           /\ \A t \in tokens : t.user \in DOMAIN users'
           /\ NoTwins' /\ CreatedOnce' /\ TokensEarned' /\ AdminsConfigured'
  <1>1. /\ users' \in Seq(User)
        /\ DOMAIN users' = DOMAIN users \union {Len(users) + 1}
        /\ users'[Len(users) + 1] = u
        /\ \A i \in DOMAIN users : users'[i] = users[i]
        /\ Len(users) + 1 \notin DOMAIN users
    BY InsertLemma DEF IInv, TypeOK
  <1>2. NoTwins'
    BY <1>1 DEF IInv, NoTwins
  <1>3. CreatedOnce'
    BY <1>1 DEF IInv, CreatedOnce, Opened
  <1>4. TokensEarned'
    BY <1>1 DEF IInv, TokensEarned, TypeOK
  <1>5. AdminsConfigured'
    BY <1>1 DEF IInv, AdminsConfigured, Admins
  <1> QED
    BY <1>1, <1>2, <1>3, <1>4, <1>5 DEF IInv, TypeOK

\* A handler still knows what it knew; one about to insert does if the new
\* address is written as SQLite compares it.
LEMMA NewRowKnown ==
    ASSUME NEW u, NEW r, Knows(r), UNCHANGED <<tokens, created>>,
           DOMAIN users \subseteq DOMAIN users',
           \A i \in DOMAIN users : users'[i] = users[i],
           \A i \in DOMAIN users' \ DOMAIN users : users'[i] = u,
           r.at = "insert" => SqlLower[u.address] = u.address
    PROVE  Knows(r)'
  <1>1. r \in Request'
    BY DEF Knows, Request
  <1>2. r.at = "insert" => Guarded(RustLower[r.address])'
    BY DEF Knows, Guarded
  <1>3. r.at = "issue" => Opened(r)' /\ \A i \in DOMAIN created' : created'[i].user # r.user
    BY DEF Knows, Opened
  <1>4. r.at = "granted" => r.token.user \in Admins'
    BY DEF Knows, Admins
  <1> QED
    BY <1>1, <1>2, <1>3, <1>4 DEF Knows

LEMMA InsertKeeps == ASSUME IInv, NEW c \in Clients, Insert(c) PROVE IInv'
  <1> DEFINE a == RustLower[call[c].address]
             u == NewUser(c)
             r == [at |-> "issue", address |-> call[c].address,
                   password |-> call[c].password, user |-> Len(users) + 1]
  <1>1. /\ call[c] \in Request /\ call[c].at = "insert" /\ Knows(call[c])
        /\ call[c].address \in Spellings /\ call[c].password \in Passwords
    BY RequestFacts DEF Insert, At, IInv, Knows
  <1>2. up
    BY <1>1, IdleFacts DEF IInv
  <1>3. CASE Taken(u.address)
    BY <1>3, ReturnKeeps DEF Insert
  <1>4. CASE ~Taken(u.address)
    <2>1. /\ users' = Append(users, u)
          /\ call' = [call EXCEPT ![c] = r]
          /\ UNCHANGED <<up, tokens, created, started, misread, events>>
      BY <1>4 DEF Insert, Issuing
    <2>2. u \in User /\ u = [address |-> a, password |-> Trim[call[c].password], admin |-> FALSE]
      BY <1>1, LowerAssumption, PasswordsAssumption DEF User, NewUser
    <2>3. SqlLower[a] = a
      BY <1>1, LowerAssumption
    <2>4. \A i \in DOMAIN users : SqlLower[users[i].address] # SqlLower[u.address]
      BY <1>1, <1>4, <2>2, <2>3 DEF Knows, Guarded, Taken
    <2>0. u.address = a /\ ~u.admin
      BY <2>2
    <2> HIDE DEF u
    <2>5. /\ users' \in Seq(User) /\ DOMAIN users \subseteq DOMAIN users'
          /\ \A i \in DOMAIN users : users'[i] = users[i]
          /\ Len(users) + 1 \in DOMAIN users' /\ users'[Len(users) + 1] = u
          /\ Len(users) + 1 \notin DOMAIN users
          /\ \A t \in tokens : t.user \in DOMAIN users'
          /\ NoTwins' /\ CreatedOnce' /\ TokensEarned' /\ AdminsConfigured'
      BY <2>0, <2>1, <2>2, <2>4, NewRow
    <2>6. \A i \in DOMAIN users' \ DOMAIN users : users'[i] = u
      BY <2>1, <2>2, <2>5, InsertLemma DEF IInv, TypeOK
    <2>7. \A q : Knows(q) => Knows(q)'
      BY <2>0, <2>1, <2>3, <2>5, <2>6, NewRowKnown
    <2>8. \A i \in DOMAIN created : created[i].user \in DOMAIN users
      BY DEF IInv, CreatedOnce, Opened
    <2>r. PICK q : q = r
      OBVIOUS
    <2>q. q.at = "issue" /\ q.user = Len(users) + 1 /\ call' = [call EXCEPT ![c] = q]
      BY <2>1, <2>r
    <2>9. Knows(q)'
      <3>1. q \in Request'
        BY <1>1, <2>5, <2>r DEF Request
      <3>2. Opened(q)'
        BY <2>2, <2>5, <2>r DEF Opened, u
      <3>3. \A i \in DOMAIN created' : created'[i].user # q.user
        BY <2>1, <2>5, <2>8, <2>q
      <3> QED
        BY <2>q, <3>1, <3>2, <3>3 DEF Knows
    <2>10. \A d \in Clients : call'[d] = IF d = c THEN q ELSE call[d]
      BY <2>q DEF IInv, TypeOK
    <2>11. \A d \in Clients : Knows(call[d])'
      <3> SUFFICES ASSUME NEW d \in Clients PROVE Knows(call[d])'
        OBVIOUS
      <3>1. CASE d = c
        <4>1. call'[d] = q
          BY <2>10, <3>1
        <4> QED
          BY <2>9, <4>1 DEF Knows, Opened
      <3>2. CASE d # c
        <4>1. call'[d] = call[d] /\ Knows(call[d])
          BY <2>10, <3>2 DEF IInv
        <4>2. Knows(call[d])'
          BY <2>7, <4>1 DEF Knows, Opened
        <4> QED
          BY <4>2
      <3> QED
        BY <3>1, <3>2
    <2>12. IssuedOnce'
      <3>1. \A d \in Clients : d # c /\ At(d, "issue")' => call'[d].user # q.user
        <4>1. \A d \in Clients : At(d, "issue") => call[d].user \in DOMAIN users
          BY DEF IInv, Knows, Opened, At
        <4> QED
          BY <2>5, <2>10, <2>q, <4>1 DEF At
      <3>2. \A d, e \in Clients : d # c /\ e # c /\ At(d, "issue")' /\ At(e, "issue")'
                                  /\ call'[d].user = call'[e].user => d = e
        BY <2>10 DEF IInv, IssuedOnce, At
      <3> QED
        BY <2>10, <3>1, <3>2 DEF IssuedOnce
    <2>13. TypeOK'
      <3>1. call' \in [Clients -> Request']
        BY <2>1, <2>10, <2>11 DEF Knows, IInv, TypeOK
      <3> QED
        BY <2>1, <2>5, <3>1 DEF IInv, TypeOK
    <2> QED
      BY <1>2, <2>1, <2>5, <2>11, <2>12, <2>13, Zenon DEF IInv
  <1> QED
    BY <1>3, <1>4

-----------------------------------------------------------------------------
(* Tokens.                                                                 *)

LEMMA IssueKeeps == ASSUME IInv, NEW c \in Clients, Issue(c) PROVE IInv'
  <1> DEFINE r == call[c]
             t == Presented(c, call[c].user)
  <1>1. /\ r \in Request /\ r.at = "issue" /\ Knows(r)
        /\ r.address \in Spellings /\ r.password \in Passwords /\ r.user \in DOMAIN users
    BY RequestFacts DEF Issue, At, IInv, Knows
  <1>2. up
    BY <1>1, IdleFacts DEF IInv
  <1>3. /\ tokens' = tokens \union {t} /\ created' = Append(created, t)
        /\ call' = [call EXCEPT ![c] = Idle]
        /\ UNCHANGED <<users, up, started, misread, events>>
    BY DEF Issue, Return
  <1>4. DOMAIN users \subseteq Nat \ {0}
    BY LenProperties DEF IInv, TypeOK
  <1>5. /\ t = [user |-> r.user, address |-> r.address, password |-> r.password]
        /\ t \in Token /\ Opened(t) /\ t.user \in DOMAIN users /\ ~users[t.user].admin
    BY <1>1, <1>4 DEF Presented, Token, Knows, Opened
  <1>6. /\ created' \in Seq(Token)
        /\ DOMAIN created' = DOMAIN created \union {Len(created) + 1}
        /\ created'[Len(created) + 1] = t
        /\ \A i \in DOMAIN created : created'[i] = created[i]
    BY <1>3, <1>5, InsertLemma DEF IInv, TypeOK
  <1>7. \A d \in Clients : call'[d] = IF d = c THEN Idle ELSE call[d]
    BY <1>3 DEF IInv, TypeOK
  <1>8. \A d \in Clients : Knows(call[d])'
    <2> SUFFICES ASSUME NEW d \in Clients PROVE Knows(call[d])'
      OBVIOUS
    <2>1. CASE d = c
      BY <1>7, <2>1, IdleFacts DEF Knows, Request
    <2>2. CASE d # c
      <3>1. call'[d] = call[d] /\ Knows(call[d])
        BY <1>7, <2>2 DEF IInv
      <3>2. call[d] \in Request'
        BY <1>3, <3>1 DEF Knows, Request
      <3>3. call[d].at = "issue" => call[d].user # r.user
        BY <1>1, <2>2 DEF IInv, IssuedOnce, At
      <3>4. call[d].at = "issue" => Opened(call[d])'
        BY <1>3, <3>1 DEF Knows, Opened
      <3>5. call[d].at = "issue" => \A i \in DOMAIN created' : created'[i].user # call[d].user
        BY <1>5, <1>6, <3>1, <3>3 DEF Knows
      <3> QED
        BY <1>3, <3>1, <3>2, <3>4, <3>5 DEF Knows, Guarded, Admins
    <2> QED
      BY <2>1, <2>2
  <1>9. CreatedOnce'
    <2>1. \A i \in DOMAIN created : created[i].user # t.user
      BY <1>1, <1>5 DEF Knows
    <2>2. \A i \in DOMAIN created' : Opened(created'[i])
      BY <1>5, <1>6 DEF IInv, CreatedOnce
    <2> QED
      BY <1>3, <1>6, <2>1, <2>2 DEF IInv, CreatedOnce, Opened
  <1>10. TokensEarned'
    BY <1>3, <1>5 DEF IInv, TokensEarned
  <1>11. IssuedOnce'
    BY <1>7, IdleFacts DEF IInv, IssuedOnce, At
  <1>12. TypeOK'
    <2>1. call' \in [Clients -> Request']
      BY <1>3, <1>7, <1>8 DEF Knows, IInv, TypeOK
    <2>2. \A i \in DOMAIN created' : created'[i] \in tokens'
      BY <1>3, <1>6 DEF IInv, TypeOK
    <2> QED
      BY <1>3, <1>5, <1>6, <2>1, <2>2 DEF IInv, TypeOK
  <1>13. NoTwins' /\ AdminsConfigured'
    BY <1>3 DEF IInv, NoTwins, AdminsConfigured, Admins
  <1> QED
    BY <1>2, <1>3, <1>8, <1>9, <1>10, <1>11, <1>12, <1>13, Zenon DEF IInv

LEMMA LookupKeeps == ASSUME IInv, NEW c \in Clients, Lookup(c) PROVE IInv'
  <1>1. /\ call[c] \in Request /\ call[c].at = "lookup"
        /\ call[c].address \in Spellings /\ call[c].password \in Passwords
    BY RequestFacts DEF Lookup, At, IInv, Knows
  <1>2. CASE UNCHANGED tokens
    BY <1>2, ReturnKeeps DEF Lookup
  <1>3. ASSUME NEW i \in Matching(call[c].address), users[i].password = call[c].password,
               tokens' = tokens \union {Presented(c, i)}
        PROVE  IInv'
    <2> DEFINE t == Presented(c, i)
    <2>1. i \in DOMAIN users /\ i \in Nat \ {0}
      BY LenProperties DEF Matching, IInv, TypeOK
    <2>2. /\ t = [user |-> i, address |-> call[c].address, password |-> call[c].password]
          /\ t \in Token
      BY <1>1, <2>1 DEF Presented, Token
    <2>3. /\ call' = [call EXCEPT ![c] = Idle]
          /\ UNCHANGED <<users, up, created, started, misread, events>>
      BY DEF Lookup, Return
    <2>4. \A d \in Clients : call'[d] = IF d = c THEN Idle ELSE call[d]
      BY <2>3 DEF IInv, TypeOK
    <2>5. \A q : Knows(q) => Knows(q)'
      BY <1>3, <2>3 DEF Knows, Request, Guarded, Opened, Admins
    <2>6. \A d \in Clients : Knows(call[d])'
      BY <2>4, <2>5, IdleFacts DEF IInv, Knows
    <2>7. TypeOK'
      <3>1. call' \in [Clients -> Request']
        BY <2>3, <2>4, <2>6 DEF Knows, IInv, TypeOK
      <3> QED
        BY <1>3, <2>1, <2>2, <2>3, <3>1 DEF IInv, TypeOK
    <2>8. TokensEarned'
      BY <1>3, <2>2, <2>3 DEF IInv, TokensEarned, Matching
    <2>9. IssuedOnce'
      BY <2>4, IdleFacts DEF IInv, IssuedOnce, At
    <2>10. NoTwins' /\ CreatedOnce' /\ AdminsConfigured'
      BY <2>3 DEF IInv, NoTwins, CreatedOnce, Opened, AdminsConfigured, Admins
    <2>11. ~up' => \A d \in Clients : call'[d] = Idle
      BY <2>3, <2>4 DEF IInv
    <2> QED
      BY <2>6, <2>7, <2>8, <2>9, <2>10, <2>11 DEF IInv
  <1> QED
    BY <1>2, <1>3 DEF Lookup

-----------------------------------------------------------------------------
(* Starts and stops.                                                       *)

\* Before the program serves nobody is in the middle of a request.
LEMMA NobodyServed == ASSUME IInv, ~up PROVE call = [c \in Clients |-> Idle]
  BY DEF IInv, TypeOK

LEMMA StartKeeps ==
    ASSUME IInv, NEW cfg \in Configs, NEW failed \in BOOLEAN, Start(cfg, failed)
    PROVE  IInv'
  <1> DEFINE u == [address |-> cfg.email, password |-> cfg.password, admin |-> TRUE]
  <1>1. /\ ~up /\ up' /\ started' = started \union {cfg}
        /\ misread' \in Nat
        /\ UNCHANGED <<call, tokens, created, events>>
    BY DEF Start, IInv, TypeOK
  <1>2. /\ u \in User
        /\ [email |-> u.address, password |-> u.password] \in started'
    <2>1. cfg \in [email : Spellings, password : Passwords]
      BY ConfigsAssumption
    <2>2. cfg = [email |-> cfg.email, password |-> cfg.password]
      BY <2>1
    <2> QED
      BY <1>1, <2>1, <2>2 DEF User
  <1>3. \A c \in Clients : call'[c] = Idle
    BY <1>1, NobodyServed
  <1>4. IssuedOnce' /\ (\A c \in Clients : Knows(call[c])')
    BY <1>3, IdleFacts DEF IssuedOnce, At, Knows, Request
  <1>5. call' \in [Clients -> Request']
    BY <1>1, <1>3, <1>4 DEF Knows, IInv, TypeOK
  <1>6. CASE UNCHANGED users
    <2>1. TypeOK'
      BY <1>1, <1>5, <1>6 DEF IInv, TypeOK
    <2>2. NoTwins' /\ CreatedOnce' /\ TokensEarned' /\ AdminsConfigured'
      BY <1>1, <1>6 DEF IInv, NoTwins, CreatedOnce, Opened, TokensEarned,
                        AdminsConfigured, Admins
    <2> QED
      BY <1>1, <1>4, <2>1, <2>2 DEF IInv
  <1>7. CASE users' = Append(users, u) /\ Matching(cfg.email) = {}
    <2>1. \A i \in DOMAIN users : SqlLower[users[i].address] # SqlLower[u.address]
      BY <1>7 DEF Matching
    <2>2. /\ users' \in Seq(User)
          /\ \A t \in tokens : t.user \in DOMAIN users'
          /\ NoTwins' /\ CreatedOnce' /\ TokensEarned' /\ AdminsConfigured'
      BY <1>1, <1>2, <1>7, <2>1, NewRow
    <2>3. TypeOK'
      BY <1>1, <1>5, <2>2 DEF IInv, TypeOK
    <2> QED
      BY <1>1, <1>4, <2>2, <2>3 DEF IInv
  <1> QED
    BY <1>6, <1>7 DEF Start

LEMMA StopKeeps == ASSUME IInv, Stop \/ StartBare PROVE IInv'
  <1>0. events \in Nat
    BY DEF IInv, TypeOK
  <1>1. UNCHANGED <<users, tokens, created, started, misread>> /\ events' \in Nat
    BY <1>0 DEF Stop, StartBare
  <1>u. up' \in BOOLEAN
    BY DEF Stop, StartBare
  <1>2. call' = [c \in Clients |-> Idle]
    BY NobodyServed DEF Stop, StartBare
  <1>3. IssuedOnce' /\ (\A c \in Clients : Knows(call[c])')
    BY <1>2, IdleFacts DEF IssuedOnce, At, Knows, Request
  <1>4. TypeOK'
    BY <1>1, <1>2, <1>3, <1>u DEF Knows, IInv, TypeOK
  <1>5. NoTwins' /\ CreatedOnce' /\ TokensEarned' /\ AdminsConfigured'
    BY <1>1 DEF IInv, NoTwins, CreatedOnce, Opened, TokensEarned, AdminsConfigured, Admins
  <1>6. \A c \in Clients : call'[c] = Idle
    BY <1>2
  <1> QED
    BY <1>3, <1>4, <1>5, <1>6, Zenon DEF IInv

-----------------------------------------------------------------------------

LEMMA InitEstablishes == ASSUME Init PROVE IInv
  <1>0. created = << >>
    BY DEF Init
  <1>1. TypeOK
    <2>1. << >> \in Seq(User) /\ << >> \in Seq(Token) /\ DOMAIN created = {}
      BY <1>0
    <2> QED
      BY <2>1, IdleFacts DEF Init, TypeOK
  <1>2. \A c \in Clients : call[c] = Idle /\ Knows(call[c])
    BY IdleFacts DEF Init, Knows
  <1>3. IssuedOnce
    BY <1>2, IdleFacts DEF IssuedOnce, At
  <1>4. NoTwins /\ CreatedOnce /\ TokensEarned /\ AdminsConfigured
    BY DEF Init, NoTwins, CreatedOnce, TokensEarned, AdminsConfigured, Admins
  <1> QED
    BY <1>1, <1>2, <1>3, <1>4, Zenon DEF IInv

LEMMA RequestKeeps ==
    ASSUME IInv, NEW c \in Clients,
           \/ \E a \in Spellings, p \in Passwords : RegisterRequest(c, a, p) \/ TokenRequest(c, a, p)
           \/ \E t \in tokens : AdminRequest(c, t)
    PROVE  IInv'
  <1>1. ASSUME NEW a \in Spellings, NEW p \in Passwords, RegisterRequest(c, a, p)
        PROVE  IInv'
    <2> DEFINE r == [at |-> "check", address |-> a, password |-> p]
    <2>1. r \in Request /\ r.at = "check"
      BY DEF Request
    <2> HIDE DEF r
    <2> QED
      BY <1>1, <2>1, AskKeeps DEF RegisterRequest, r
  <1>2. ASSUME NEW a \in Spellings, NEW p \in Passwords, TokenRequest(c, a, p)
        PROVE  IInv'
    <2> DEFINE r == [at |-> "lookup", address |-> a, password |-> p]
    <2>1. r \in Request /\ r.at = "lookup"
      BY DEF Request
    <2> HIDE DEF r
    <2> QED
      BY <1>2, <2>1, AskKeeps DEF TokenRequest, r
  <1>3. ASSUME NEW t \in tokens, AdminRequest(c, t)
        PROVE  IInv'
    <2> DEFINE r == [at |-> "admin", token |-> t]
    <2>1. r \in Request /\ r.at = "admin"
      BY DEF Request
    <2> HIDE DEF r
    <2> QED
      BY <1>3, <2>1, AskKeeps DEF AdminRequest, r
  <1> QED
    BY <1>1, <1>2, <1>3

LEMMA StepKeeps == ASSUME IInv, NEW c \in Clients, Step(c) PROVE IInv'
  <1>1. CASE Serve(c)
    BY <1>1, ReturnKeeps DEF Serve
  <1>2. CASE StatementFails(c)
    BY <1>2, ReturnKeeps DEF StatementFails
  <1>3. CASE ClientDisconnects(c)
    BY <1>3, ReturnKeeps DEF ClientDisconnects
  <1> QED
    BY <1>1, <1>2, <1>3, CheckAddressKeeps, InsertKeeps, IssueKeeps, LookupKeeps,
       CheckAdminKeeps DEF Step

LEMMA NothingMovesKeeps == ASSUME IInv, UNCHANGED vars PROVE IInv'
  BY DEF IInv, vars, TypeOK, Request, Knows, Guarded, Opened, Admins, At,
         NoTwins, CreatedOnce, IssuedOnce, TokensEarned, AdminsConfigured

LEMMA NextKeeps == ASSUME IInv, [Next]_vars PROVE IInv'
  BY StartKeeps, StopKeeps, RequestKeeps, StepKeeps, NothingMovesKeeps DEF Next

LEMMA IInvHolds == Spec => []IInv
  BY InitEstablishes, NextKeeps, PTL DEF Spec

-----------------------------------------------------------------------------
(* The properties.                                                         *)

\* Every reachable state is well typed; whatever names a user names a row.
THEOREM AccountsTypeCorrect == Spec => []TypeOK
  <1>1. IInv => TypeOK
    BY DEF IInv
  <1> QED
    BY <1>1, IInvHolds, PTL

\* Two registrations answered 201 are of different addresses (create_register).
THEOREM CreatedOncePerAddress == Spec => []OneCreatedPerAddress
  <1>1. ASSUME IInv PROVE OneCreatedPerAddress
    <2> SUFFICES ASSUME NEW i \in DOMAIN created, NEW j \in DOMAIN created,
                        RustLower[created[i].address] = RustLower[created[j].address]
                 PROVE  i = j
      BY DEF OneCreatedPerAddress
    <2>1. Opened(created[i]) /\ Opened(created[j])
      BY <1>1 DEF IInv, CreatedOnce
    <2>2. created[i].user = created[j].user
      BY <1>1, <2>1 DEF IInv, NoTwins, Opened
    <2> QED
      BY <1>1, <2>2 DEF IInv, CreatedOnce
  <1> QED
    BY <1>1, IInvHolds, PTL

\* An account answered 201 can be logged in to for ever (create_register,
\* create_token, bootstrap_admin_user).
THEOREM AccountsStayUsable == Spec => []RegisteredCanLogIn
  <1>1. ASSUME IInv PROVE RegisteredCanLogIn
    <2> SUFFICES ASSUME NEW i \in DOMAIN created,
                        SqlLower[created[i].address] = RustLower[created[i].address]
                 PROVE  LogsIn(created[i].address, Trim[created[i].password])
      BY DEF RegisteredCanLogIn
    <2>1. Opened(created[i]) /\ created[i] \in Token
      BY <1>1, ElementOfSeq, LenProperties DEF IInv, CreatedOnce, TypeOK
    <2> DEFINE k == created[i].user
    <2>2. SqlLower[users[k].address] = SqlLower[created[i].address]
      <3>1. created[i].address \in Spellings
        BY <2>1 DEF Token
      <3> QED
        BY <2>1, <3>1, LowerAssumption DEF Opened
    <2>3. Matching(created[i].address) = {k}
      BY <1>1, <2>1, <2>2 DEF IInv, NoTwins, Matching, Opened
    <2> QED
      BY <2>1, <2>3 DEF LogsIn, Opened
  <1> QED
    BY <1>1, IInvHolds, PTL

\* The administrator's endpoints open only to configured credentials
\* (require_admin_jwt, bootstrap_admin_user).
THEOREM OnlyConfiguredGetIn == Spec => []OnlyConfiguredAdmins
  <1>1. ASSUME IInv PROVE OnlyConfiguredAdmins
    <2> SUFFICES ASSUME NEW c \in Clients, At(c, "granted")
                 PROVE  \E cfg \in started :
                           /\ SqlLower[cfg.email] = SqlLower[call[c].token.address]
                           /\ cfg.password = call[c].token.password
      BY DEF OnlyConfiguredAdmins
    <2> DEFINE t == call[c].token
               i == t.user
    <2>1. t \in tokens /\ i \in Admins
      BY <1>1, RequestFacts DEF IInv, Knows, At
    <2>2. /\ SqlLower[t.address] = SqlLower[users[i].address]
          /\ t.password = users[i].password
      BY <1>1, <2>1 DEF IInv, TokensEarned, Admins
    <2>3. [email |-> users[i].address, password |-> users[i].password] \in started
      BY <1>1, <2>1 DEF IInv, AdminsConfigured
    <2> QED
      BY <2>2, <2>3
  <1> QED
    BY <1>1, IInvHolds, PTL

-----------------------------------------------------------------------------
(* The number of administrators.                                           *)

AdminsCounted == IsFiniteSet(Admins) /\ AdminsBound

\* A start adds one administrator at most, and only if there was none or it
\* could not count.
LEMMA CountingKeeps == ASSUME IInv, AdminsCounted, [Next]_vars PROVE AdminsCounted'
  <1>1. misread \in Nat /\ users \in Seq(User)
    BY DEF IInv, TypeOK
  <1>2. Cardinality(Admins) \in Nat
    BY FS_CardinalityType DEF AdminsCounted
  <1>3. ASSUME NEW u \in User, users' = Append(users, u)
        PROVE  Admins' = IF u.admin THEN Admins \union {Len(users) + 1} ELSE Admins
    <2>1. /\ DOMAIN users' = DOMAIN users \union {Len(users) + 1}
          /\ users'[Len(users) + 1] = u
          /\ \A i \in DOMAIN users : users'[i] = users[i]
      BY <1>1, <1>3, InsertLemma
    <2> QED
      BY <2>1 DEF Admins
  <1>4. CASE UNCHANGED Admins /\ UNCHANGED misread
    BY <1>4 DEF AdminsCounted, AdminsBound
  <1>5. ASSUME NEW cfg \in Configs, NEW failed \in BOOLEAN, Start(cfg, failed)
        PROVE  AdminsCounted'
    <2> DEFINE u == [address |-> cfg.email, password |-> cfg.password, admin |-> TRUE]
    <2>1. misread' = IF failed THEN misread + 1 ELSE misread
      BY <1>5 DEF Start
    <2>2. CASE UNCHANGED users
      BY <1>1, <1>2, <2>1, <2>2 DEF AdminsCounted, AdminsBound, Admins
    <2>3. CASE users' = Append(users, u) /\ (Admins = {} \/ failed)
      <3>1. Admins' = Admins \union {Len(users) + 1}
        <4>1. cfg \in [email : Spellings, password : Passwords]
          BY ConfigsAssumption
        <4>2. u \in User /\ u.admin
          BY <4>1 DEF User
        <4> HIDE DEF u
        <4> QED
          BY <1>3, <2>3, <4>2
      <3>2. /\ IsFiniteSet(Admins')
            /\ Cardinality(Admins') \in {Cardinality(Admins), Cardinality(Admins) + 1}
        BY <3>1, <1>2, FS_AddElement DEF AdminsCounted
      <3>3. Admins = {} => Cardinality(Admins) = 0
        BY FS_EmptySet
      <3> QED
        BY <1>1, <1>2, <2>1, <2>3, <3>2, <3>3 DEF AdminsCounted, AdminsBound
    <2> QED
      BY <1>5, <2>2, <2>3 DEF Start
  <1>6. ASSUME NEW c \in Clients, Insert(c)
        PROVE  AdminsCounted'
    <2>1. call[c] \in Request /\ call[c].at = "insert"
      BY <1>6 DEF Insert, At, IInv, Knows
    <2>2. NewUser(c) \in User /\ ~NewUser(c).admin
      BY <2>1, RequestFacts, LowerAssumption, PasswordsAssumption DEF User, NewUser
    <2>3. UNCHANGED users \/ users' = Append(users, NewUser(c))
      BY <1>6 DEF Insert
    <2>4. UNCHANGED Admins
      BY <1>3, <2>2, <2>3 DEF Admins
    <2> QED
      BY <1>4, <1>6, <2>4 DEF Insert
  <1>7. CASE UNCHANGED <<users, misread>>
    BY <1>4, <1>7 DEF Admins
  <1>8. ASSUME NEW c \in Clients, Step(c)
        PROVE  AdminsCounted'
    BY <1>6, <1>7, <1>8 DEF Step, CheckAddress, Issue, Lookup, CheckAdmin, Serve,
       StatementFails, ClientDisconnects
  <1>9. CASE StartBare \/ Stop \/ UNCHANGED vars
    BY <1>7, <1>9 DEF StartBare, Stop, vars
  <1>10. ASSUME NEW c \in Clients,
                \/ \E a \in Spellings, p \in Passwords :
                      RegisterRequest(c, a, p) \/ TokenRequest(c, a, p)
                \/ \E t \in tokens : AdminRequest(c, t)
         PROVE  AdminsCounted'
    BY <1>7, <1>10 DEF RegisterRequest, TokenRequest, AdminRequest, Ask
  <1> QED
    BY <1>5, <1>8, <1>9, <1>10 DEF Next

\* One administrator, and one more for each start that could not count them
\* (bootstrap_admin_user).
THEOREM AdminsAreBounded == Spec => []AdminsBound
  <1>1. ASSUME Init PROVE AdminsCounted
    <2>1. Admins = {} /\ misread = 0
      BY <1>1 DEF Init, Admins
    <2> QED
      BY <2>1, FS_EmptySet DEF AdminsCounted, AdminsBound
  <1>2. AdminsCounted => AdminsBound
    BY DEF AdminsCounted
  <1> QED
    BY <1>1, <1>2, CountingKeeps, IInvHolds, PTL DEF Spec

-----------------------------------------------------------------------------
(* Accounts implements AccountBook.                                        *)

LEMMA InsertOpens == ASSUME IInv, NEW c \in Clients, Insert(c) PROVE [Book!Next]_<<users, up>>
  <1> DEFINE a == RustLower[call[c].address]
             u == NewUser(c)
  <1>1. /\ call[c].address \in Spellings /\ call[c].password \in Passwords
        /\ Guarded(a) /\ call[c].at = "insert"
    BY RequestFacts DEF Insert, At, IInv, Knows
  <1>2. u \in Book!Account /\ ~u.admin /\ u.address = a
    BY <1>1, LowerAssumption, PasswordsAssumption DEF NewUser, Book!Account
  <1>3. SqlLower[a] = a
    BY <1>1, LowerAssumption
  <1>4. CASE Taken(u.address)
    BY <1>4 DEF Insert
  <1>5. CASE ~Taken(u.address)
    <2>1. \A i \in DOMAIN users : SqlLower[users[i].address] # SqlLower[u.address]
      BY <1>1, <1>2, <1>3, <1>5 DEF Guarded, Taken
    <2>2. users' = Append(users, u) /\ UNCHANGED up
      BY <1>5 DEF Insert
    <2>3. up
      BY <1>1, IdleFacts DEF IInv
    <2> QED
      BY <1>2, <2>1, <2>2, <2>3 DEF Book!Next, Book!Register, Book!Open
  <1> QED
    BY <1>4, <1>5

\* The program, with every fault, keeps the book of accounts: one account per
\* address, never changed, none made an administrator later.
THEOREM BookImplemented == Spec => BookRefinement
  <1>1. ASSUME Init PROVE Book!Init
    BY <1>1 DEF Init, Book!Init
  <1>2. ASSUME IInv, [Next]_vars PROVE [Book!Next]_<<users, up>>
    <2> USE <1>2
    <2>1. ASSUME NEW cfg \in Configs, NEW failed \in BOOLEAN, Start(cfg, failed)
          PROVE  Book!StartUp
      <3> DEFINE u == [address |-> cfg.email, password |-> cfg.password, admin |-> TRUE]
      <3>1. u \in Book!Account /\ u.admin
        BY ConfigsAssumption DEF Book!Account
      <3>2. ~up /\ up'
        BY <2>1 DEF Start
      <3>3. CASE UNCHANGED users
        BY <3>2, <3>3 DEF Book!StartUp
      <3>4. CASE users' = Append(users, u) /\ Matching(cfg.email) = {}
        <4>1. Book!Open(u)
          BY <3>4 DEF Book!Open, Matching
        <4> QED
          BY <3>1, <3>2, <4>1 DEF Book!StartUp
      <3> QED
        BY <2>1, <3>3, <3>4 DEF Start
    <2>2. CASE StartBare
      BY <2>2 DEF StartBare, Book!StartUp, Book!Next
    <2>3. CASE Stop
      BY <2>3 DEF Stop, Book!ShutDown, Book!Next
    <2>4. ASSUME NEW c \in Clients, Step(c)
          PROVE  [Book!Next]_<<users, up>>
      BY <2>4, InsertOpens DEF Step, CheckAddress, Issue, Lookup, CheckAdmin, Serve,
         StatementFails, ClientDisconnects
    <2>5. ASSUME NEW c \in Clients,
                 \/ \E a \in Spellings, p \in Passwords :
                       RegisterRequest(c, a, p) \/ TokenRequest(c, a, p)
                 \/ \E t \in tokens : AdminRequest(c, t)
          PROVE  UNCHANGED <<users, up>>
      BY <2>5 DEF RegisterRequest, TokenRequest, AdminRequest, Ask
    <2>6. CASE UNCHANGED vars
      BY <2>6 DEF vars
    <2> QED
      BY <2>1, <2>2, <2>3, <2>4, <2>5, <2>6 DEF Next, Book!Next
  <1> QED
    BY <1>1, <1>2, IInvHolds, PTL DEF Spec, BookRefinement, Book!Spec

=============================================================================
