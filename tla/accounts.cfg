SPECIFICATION Spec
CONSTANTS
    admin = admin
    ana = ana
    p1 = p1
    p2 = p2
    Names = {admin, ana}
    Passwords = {p1, p2}
    AdminName = admin
    DefaultPassword = p1
    Migrated <- MCMigrated
    Requests = {r1, r2}
    TTL = 1
    MaxUsers = 2
    MaxTokens = 2
    MaxTime = 2
SYMMETRY Symmetry
INVARIANTS
    AccountsIInv
    LoggedOutRefused
    PasswordIsLastSet
    DeactivatedLogsInNoMore
PROPERTIES
    LockoutExplained
