SPECIFICATION Spec
CONSTANTS
    Spellings <- MCSpellings
    RustLower <- MCRustLower
    SqlLower <- MCSqlLower
    Passwords <- MCPasswords
    Trim <- MCTrim
    Strong <- MCStrong
    Configs <- MCConfigs
    Clients = {c1, c2}
    Faults = {"stop", "cancel", "dbError"}
    MaxEvents = 4
SYMMETRY Interchangeable
INVARIANTS
    TypeOK
    OneCreatedPerAddress
    RegisteredCanLogIn
    OnlyConfiguredAdmins
    AdminsBound
PROPERTY
    BookRefinement
CHECK_DEADLOCK FALSE
