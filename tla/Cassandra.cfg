SPECIFICATION Spec
CONSTANTS
    c1 = c1
    c2 = c2
    a1 = a1
    a2 = a2
    NoCred = NoCred
    None = None
    Calls = {c1, c2}
    Admins = {a1, a2}
    Users = {"alice"}
    Passwords = {"right", "wrong"}
    Oids = {"o1"}
    Repos = {"p1"}
    Sizes = {1, 2}
    Requests <- MixedRequests
    Modes = {"local", "ldap"}
    LdapPass <- MCLdapPass
    MaxFaults = 1
    MaxCrashes = 1
SYMMETRY Symmetry
INVARIANTS TypeOK ListedRecorded NewComplete
PROPERTIES PasswordKept Refines
